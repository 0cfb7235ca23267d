------------------------------ MODULE Realtime ------------------------------
(***************************************************************************)
(* One realtime id with one peer (realtime/, realtime_media/): the formal  *)
(* session, the provisional offer of the remote side and its REQUEST, the  *)
(* command worker (start, stop, claim, reject, discard), the relay         *)
(* control's signal handler, the I/O tasks, the expiry worker, teardown of *)
(* the connection session, the media endpoints and runtime shutdown.       *)
(*                                                                         *)
(* Every section under the manager's lock is one step; what a task does    *)
(* between two locks is a step of its own when another task can see it.    *)
(* Signals come from the set RtSignals, any of them any number of times    *)
(* and in any order: the relay loses, repeats and reorders.  Sending,      *)
(* driver creation and the WebRTC calls fail nondeterministically.  All    *)
(* events from outside share the budget RtBudget.  The limit on provisional *)
(* operations counts other realtime ids and is left out.                   *)
(***************************************************************************)
EXTENDS Naturals, Sequences, FiniteSets

CONSTANTS RtSignals, RtRemoteIds, RtOps, RtMaxIce, RtMaxReplay, RtMaxDrivers, RtBudget
ASSUME RealtimeAssumption ==
  /\ RtRemoteIds \cap (1 .. RtMaxDrivers) = {} /\ 0 \notin RtRemoteIds
  /\ {RtMaxIce, RtMaxReplay, RtMaxDrivers, RtBudget} \subseteq Nat

VARIABLES
  rtSession,   \* sessions[id] with its generation; gen 0: none
  rtGen,       \* NEXT_REALTIME_SESSION_GENERATION
  rtBinding,   \* provisional[id]; token 0: none
  rtRequest,   \* provisional_requests[id]; epoch 0: none
  rtEpoch,     \* next_provisional_epoch
  rtToken,     \* claim tokens handed out
  rtReplay,    \* provisional_replay_cache of the peer
  rtDriver,    \* driver -> its signalling state, revision and whether it is open
  rtIo,        \* driver -> its realtime-io task: "none", "run", "dying"
  rtCmd,       \* the command being executed
  rtSig,       \* the signal being handled
  rtConn,      \* the connection session of the peer, and a teardown in progress
  rtExpiry,    \* the expiry worker and its wake permit
  rtMedia,     \* the media endpoints
  rtRun,       \* "up", "stopping", "closed" or "dead"
  rtPublished, \* op -> times its incoming offer was shown to the application
  rtFate,      \* claim tokens that were committed, and that were withdrawn first
  rtAccepted,  \* ICE candidates queued for a claim token
  rtSpent

rtVars == <<rtSession, rtGen, rtBinding, rtRequest, rtEpoch, rtToken, rtReplay, rtDriver, rtIo, rtCmd,
            rtSig, rtConn, rtExpiry, rtMedia, rtRun, rtPublished, rtFate, rtAccepted, rtSpent>>
rtGhost == <<rtPublished, rtFate, rtAccepted>>
rtOffers == <<rtBinding, rtRequest, rtEpoch, rtToken, rtReplay, rtExpiry, rtGhost>>
rtFormal == <<rtSession, rtGen, rtDriver, rtIo, rtMedia>>

NoRtSession == [gen |-> 0, shared |-> 0, driver |-> 0, conn |-> 0, rev |-> 0, remoteRev |-> 0,
                iceRev |-> 0, seen |-> {}, token |-> 0]
NoBinding == [token |-> 0, epoch |-> 0, shared |-> 0, rev |-> 0, ice |-> <<>>, op |-> "none",
              state |-> "none", published |-> FALSE, due |-> FALSE]
NoRequest == [epoch |-> 0, shared |-> 0, op |-> "none", due |-> FALSE]
NoDriver == [sig |-> "none", rev |-> 0, open |-> FALSE]
CmdIdle == [at |-> "idle", token |-> 0, epoch |-> 0, shared |-> 0, rev |-> 0, ice |-> <<>>,
            driver |-> 0, gen |-> 0]
NoSignal == [kind |-> "none", shared |-> 0, rev |-> 0, op |-> "none", cand |-> "none"]
SigIdle == [at |-> "idle", sig |-> NoSignal, bound |-> FALSE, driver |-> 0]
RtDrivers == 1 .. RtMaxDrivers

RealtimeInit ==
  /\ rtSession = NoRtSession /\ rtGen = 0 /\ rtBinding = NoBinding /\ rtRequest = NoRequest
  /\ rtEpoch = 0 /\ rtToken = 0 /\ rtReplay = {} /\ rtDriver = [d \in RtDrivers |-> NoDriver]
  /\ rtIo = [d \in RtDrivers |-> "none"] /\ rtCmd = CmdIdle /\ rtSig = SigIdle
  /\ rtConn = [id |-> 1, at |-> "idle"] /\ rtExpiry = [at |-> "off", epoch |-> 0, wake |-> FALSE]
  /\ rtMedia = {} /\ rtRun = "up" /\ rtPublished = [o \in RtOps |-> 0]
  /\ rtFate = [committed |-> {}, withdrawn |-> {}] /\ rtAccepted = {} /\ rtSpent = 0

RtHappens == rtSpent < RtBudget /\ rtSpent' = rtSpent + 1
\* An outcome the environment picks: the bad one counts as an event.
RtOutcome(ok) == IF ok THEN UNCHANGED rtSpent ELSE RtHappens
HasSession == rtSession.gen # 0
HasBinding == rtBinding.token # 0
HasRequest == rtRequest.epoch # 0
RtMaximum(a, b) == IF a > b THEN a ELSE b

-----------------------------------------------------------------------------
(* Drivers: the signalling state machine of the WebRTC peer                *)

Move(d, s) == [d EXCEPT !.sig = s, !.rev = @ + 1]
CanOffer(d) == d.sig \in {"new", "connected", "restarting"}
CanTakeOffer(d) == d.sig \in {"new", "connected", "restarting", "local_answer"}
CanTakeAnswer(d) == d.sig = "local_offer"
LocalOffer(d) == Move(d, "local_offer")
\* remote_offer, then local_answer
AnswerOffer(d) == Move(Move(d, "remote_offer"), "local_answer")
RemoteAnswer(d) == Move(d, "connected")
RestartIce(d) == Move(d, "restarting")
ShutDriver(d) == [rtDriver EXCEPT ![d].sig = "closed", ![d].open = FALSE]

\* create_io_driver: the next driver handle.
FreshDriver(d) == rtDriver[d].sig = "none" /\ \A e \in RtDrivers : rtDriver[e].sig = "none" => d <= e
OpenDriver == [sig |-> "new", rev |-> 0, open |-> TRUE]

-----------------------------------------------------------------------------
(* Sessions                                                                *)

\* insert_new_session
InsertSession(s) == rtGen' = rtGen + 1 /\ rtSession' = [s EXCEPT !.gen = rtGen + 1]
\* remove_session, with the media endpoints of the id
DropSession == rtSession' = NoRtSession /\ rtMedia' = {}
\* take_realtime_session_if_owned
Owns(d) == HasSession /\ rtSession.driver = d
\* Mutant: the endpoints of the id are left behind.
DropKeepingMedia(d) == (IF Owns(d) THEN rtSession' = NoRtSession ELSE UNCHANGED rtSession) /\ UNCHANGED rtMedia
DropIfOwned(d) == IF Owns(d) THEN DropSession ELSE UNCHANGED <<rtSession, rtMedia>>
\* cancel_session of the id's task key: every I/O task under it.
CancelIo == rtIo' = [d \in RtDrivers |-> "none"]
SpawnIo(d) == rtIo' = [rtIo EXCEPT ![d] = "run"]
CanSpawn == rtRun = "up"

-----------------------------------------------------------------------------
(* The provisional store                                                   *)

\* Mutant: the worker is not told.
WakeNobody == UNCHANGED rtExpiry
WakeExpiry == rtExpiry' = [rtExpiry EXCEPT !.wake = TRUE]
\* Taking the binding out before its claim was committed.
Withdraw == rtBinding' = NoBinding
            /\ rtFate' = [rtFate EXCEPT !.withdrawn = @ \cup {rtBinding.token}]
\* prune_provisional_bindings: the stores once the expired entries are gone.
PrunedBinding == IF rtBinding.due THEN NoBinding ELSE rtBinding
PrunedRequest == IF rtRequest.due THEN NoRequest ELSE rtRequest
PrunedFate == IF rtBinding.due THEN [rtFate EXCEPT !.withdrawn = @ \cup {rtBinding.token}] ELSE rtFate
PruneWakes(e) == IF rtBinding.due \/ rtRequest.due THEN [e EXCEPT !.wake = TRUE] ELSE e
\* A refused call: only the pruning before it has happened.
OnlyPrune ==
  /\ rtBinding' = PrunedBinding /\ rtRequest' = PrunedRequest /\ rtFate' = PrunedFate
  /\ rtExpiry' = PruneWakes(rtExpiry)
  /\ UNCHANGED <<rtEpoch, rtToken, rtReplay, rtPublished, rtAccepted>>

\* remember_provisional_action
CanRemember(key) == key \notin rtReplay /\ Cardinality(rtReplay) < RtMaxReplay
\* latest_provisional_action_revision of an operation
LatestAction(op) ==
  LET revs == {k.rev : k \in {r \in rtReplay : r.op = op}} IN
  IF revs = {} THEN 0 ELSE CHOOSE r \in revs : \A q \in revs : q <= r
RequestKey(op) == [op |-> op, decision |-> "request", rev |-> 1]
CancelKey(op) == [op |-> op, decision |-> "cancel", rev |-> 2]
\* The CANCEL of an operation: its action revision follows the REQUEST's.
CanCancel(op) == LatestAction(op) = 1 /\ CanRemember(CancelKey(op))

Publish(op) == rtPublished' = [rtPublished EXCEPT ![op] = @ + 1]

\* exact_claiming_binding and exact_claim_responder
ExactClaiming ==
  /\ HasBinding /\ rtBinding.token = rtCmd.token /\ rtBinding.epoch = rtCmd.epoch
  /\ rtBinding.state = "claiming" /\ ~rtBinding.due
ExactResponder ==
  HasSession /\ rtSession.gen = rtCmd.gen /\ rtSession.shared = rtCmd.shared /\ rtSession.driver = rtCmd.driver
\* take_provisional_claim, as the claim's own cleanup (not a withdrawal).
OwnClaim == HasBinding /\ rtBinding.token = rtCmd.token /\ rtBinding.epoch = rtCmd.epoch
            /\ rtBinding.state = "claiming"
TakeClaim == IF OwnClaim THEN rtBinding' = NoBinding /\ WakeExpiry ELSE UNCHANGED <<rtBinding, rtExpiry>>

-----------------------------------------------------------------------------
(* Commands: start_session and stop_session                                *)

RtIdle == rtCmd.at = "idle" /\ rtRun \in {"up", "stopping"} /\ RtHappens
\* The first check, then the driver with its local offer.
StartBegin(d) ==
  /\ RtIdle /\ ~HasSession /\ FreshDriver(d)
  /\ rtDriver' = [rtDriver EXCEPT ![d] = LocalOffer(OpenDriver)]
  /\ rtCmd' = [CmdIdle EXCEPT !.at = "start_insert", !.driver = d]
  /\ UNCHANGED <<rtSession, rtGen, rtIo, rtMedia, rtOffers, rtSig, rtConn, rtRun>>
\* The second check; a session made meanwhile keeps its place.
StartInsert ==
  /\ rtCmd.at = "start_insert"
  /\ IF HasSession
       THEN rtDriver' = ShutDriver(rtCmd.driver) /\ rtCmd' = CmdIdle /\ UNCHANGED <<rtSession, rtGen>>
       ELSE /\ InsertSession([NoRtSession EXCEPT !.shared = rtCmd.driver, !.driver = rtCmd.driver,
                                !.conn = rtConn.id, !.rev = rtDriver[rtCmd.driver].rev,
                                !.iceRev = rtDriver[rtCmd.driver].rev])
            /\ rtCmd' = [rtCmd EXCEPT !.at = "start_send"] /\ UNCHANGED rtDriver
  /\ UNCHANGED <<rtIo, rtMedia, rtOffers, rtSig, rtConn, rtRun, rtSpent>>
StartSend(ok) ==
  /\ rtCmd.at = "start_send" /\ RtOutcome(ok)
  /\ IF ok THEN rtCmd' = [rtCmd EXCEPT !.at = "start_spawn"] /\ UNCHANGED <<rtSession, rtMedia, rtDriver>>
     ELSE /\ DropIfOwned(rtCmd.driver) /\ rtCmd' = CmdIdle
          /\ IF Owns(rtCmd.driver) THEN rtDriver' = ShutDriver(rtCmd.driver) ELSE UNCHANGED rtDriver
  /\ UNCHANGED <<rtGen, rtIo, rtOffers, rtSig, rtConn, rtRun>>
StartSpawn ==
  /\ rtCmd.at = "start_spawn" /\ rtCmd' = CmdIdle
  /\ IF CanSpawn THEN SpawnIo(rtCmd.driver) /\ UNCHANGED <<rtSession, rtMedia, rtDriver>>
     ELSE DropIfOwned(rtCmd.driver) /\ rtDriver' = ShutDriver(rtCmd.driver) /\ UNCHANGED rtIo
  /\ UNCHANGED <<rtGen, rtOffers, rtSig, rtConn, rtRun, rtSpent>>

StopBegin ==
  /\ RtIdle /\ HasSession /\ DropSession
  /\ rtCmd' = [CmdIdle EXCEPT !.at = "stop_cancel", !.driver = rtSession.driver]
  /\ UNCHANGED <<rtGen, rtDriver, rtIo, rtOffers, rtSig, rtConn, rtRun>>
StopCancel ==
  /\ rtCmd.at = "stop_cancel" /\ CancelIo /\ rtDriver' = ShutDriver(rtCmd.driver) /\ rtCmd' = CmdIdle
  /\ UNCHANGED <<rtSession, rtGen, rtMedia, rtOffers, rtSig, rtConn, rtRun, rtSpent>>

-----------------------------------------------------------------------------
(* Commands: claim_incoming_offer                                          *)

CanClaim(t) == rtBinding.token = t /\ rtBinding.state = "pending" /\ rtBinding.op # "none" /\ ~rtBinding.due
\* The application knows the tokens it was shown.
ClaimBegin(t) ==
  /\ RtIdle /\ rtBinding.published /\ t = rtBinding.token /\ CanClaim(t)
  /\ rtBinding' = [rtBinding EXCEPT !.state = "claiming", !.ice = <<>>]
  /\ rtCmd' = [CmdIdle EXCEPT !.at = "claim_driver", !.token = t, !.epoch = rtBinding.epoch,
                 !.shared = rtBinding.shared, !.rev = rtBinding.rev, !.ice = rtBinding.ice]
  /\ UNCHANGED <<rtFormal, rtRequest, rtEpoch, rtToken, rtReplay, rtExpiry, rtGhost, rtSig, rtConn, rtRun>>
ClaimDriver(ok, d) ==
  /\ rtCmd.at = "claim_driver" /\ FreshDriver(d) /\ RtOutcome(ok)
  /\ IF ok THEN /\ rtDriver' = [rtDriver EXCEPT ![d] = OpenDriver]
                /\ rtCmd' = [rtCmd EXCEPT !.at = "claim_apply", !.driver = d]
                /\ UNCHANGED <<rtBinding, rtExpiry>>
     ELSE TakeClaim /\ rtCmd' = CmdIdle /\ UNCHANGED rtDriver
  /\ UNCHANGED <<rtSession, rtGen, rtIo, rtMedia, rtRequest, rtEpoch, rtToken, rtReplay, rtGhost, rtSig,
                 rtConn, rtRun>>
\* The session a claim or an unexpected Offer makes: the offer answered on driver d.
Responder(shared, d, rev, seen, token) ==
  [NoRtSession EXCEPT !.shared = shared, !.driver = d, !.conn = rtConn.id, !.seen = seen, !.token = token,
     !.rev = RtMaximum(AnswerOffer(rtDriver[d]).rev, rev), !.remoteRev = rev, !.iceRev = rev]
\* The binding is checked again; the offer and the drained candidates are applied, or one of them is not.
ClaimApply(outcome) ==
  /\ rtCmd.at = "claim_apply" /\ RtOutcome(outcome = "ok") /\ (outcome = "bad_ice" => rtCmd.ice # <<>>)
  /\ \/ /\ ~ExactClaiming /\ outcome = "ok"
        /\ rtDriver' = ShutDriver(rtCmd.driver) /\ rtCmd' = CmdIdle /\ UNCHANGED <<rtSession, rtGen>>
     \/ /\ ExactClaiming /\ (HasSession \/ outcome = "bad_offer")
        /\ rtCmd' = [rtCmd EXCEPT !.at = "claim_rollback", !.gen = rtSession.gen]
        /\ UNCHANGED <<rtDriver, rtSession, rtGen>>
     \/ LET d == rtCmd.driver
            s == Responder(rtCmd.shared, d, rtCmd.rev, {rtCmd.ice[i] : i \in DOMAIN rtCmd.ice}, rtCmd.token) IN
        /\ ExactClaiming /\ ~HasSession /\ outcome # "bad_offer"
        /\ rtDriver' = [rtDriver EXCEPT ![d] = AnswerOffer(@)] /\ InsertSession(s)
        /\ rtCmd' = [rtCmd EXCEPT !.at = IF outcome = "ok" THEN "claim_spawn" ELSE "claim_rollback",
                       !.gen = rtGen + 1, !.rev = s.rev]
  /\ UNCHANGED <<rtIo, rtMedia, rtOffers, rtSig, rtConn, rtRun>>
ClaimSpawn ==
  /\ rtCmd.at = "claim_spawn"
  /\ IF CanSpawn THEN SpawnIo(rtCmd.driver) /\ rtCmd' = [rtCmd EXCEPT !.at = "claim_send"]
     ELSE rtCmd' = [rtCmd EXCEPT !.at = "claim_rollback"] /\ UNCHANGED rtIo
  /\ UNCHANGED <<rtSession, rtGen, rtDriver, rtMedia, rtOffers, rtSig, rtConn, rtRun, rtSpent>>
ClaimSend(ok) ==
  /\ rtCmd.at = "claim_send" /\ RtOutcome(ok)
  /\ rtCmd' = [rtCmd EXCEPT !.at = IF ok THEN "claim_commit" ELSE "claim_cancel"]
  /\ UNCHANGED <<rtFormal, rtOffers, rtSig, rtConn, rtRun>>

\* What is still queued can be applied: the ICE generation is the offer's and no candidate is a repeat.
QueueApplies ==
  \A i \in DOMAIN rtBinding.ice : rtSession.iceRev = rtBinding.rev /\ rtBinding.ice[i] \notin rtSession.seen
\* Mutants: the binding is not checked again; the queue is left behind.
CommitsAnyway == ExactResponder /\ (HasBinding => QueueApplies)
CanCommit == ExactClaiming /\ ExactResponder /\ QueueApplies
QueueDropped == {}
\* The candidates queued while the claim ran.
QueuedIce == {rtBinding.ice[i] : i \in DOMAIN rtBinding.ice}
\* commit_incoming_claim, or next_claim_close_signal and the way back.
ClaimCommit ==
  /\ rtCmd.at = "claim_commit"
  /\ IF CanCommit
       THEN /\ rtSession' = [rtSession EXCEPT !.seen = @ \cup QueuedIce]
            /\ rtBinding' = NoBinding /\ WakeExpiry /\ rtCmd' = CmdIdle
            /\ rtFate' = [rtFate EXCEPT !.committed = @ \cup {rtCmd.token}]
       ELSE /\ rtCmd' = [rtCmd EXCEPT !.at = "claim_cancel"]
            /\ rtBinding' = IF ExactClaiming /\ ExactResponder THEN [rtBinding EXCEPT !.ice = <<>>] ELSE rtBinding
            /\ rtSession' = IF ExactResponder
                              THEN [rtSession EXCEPT !.rev = RtMaximum(@, rtCmd.rev) + 1] ELSE rtSession
            /\ UNCHANGED <<rtExpiry, rtFate>>
  /\ UNCHANGED <<rtGen, rtDriver, rtIo, rtMedia, rtRequest, rtEpoch, rtToken, rtReplay, rtPublished,
                 rtAccepted, rtSig, rtConn, rtRun, rtSpent>>
ClaimCancel ==
  /\ rtCmd.at = "claim_cancel" /\ CancelIo /\ rtCmd' = [rtCmd EXCEPT !.at = "claim_rollback"]
  /\ UNCHANGED <<rtSession, rtGen, rtDriver, rtMedia, rtOffers, rtSig, rtConn, rtRun, rtSpent>>
\* Mutant: the rollback takes whatever session has the id.
DropWhatever == IF HasSession THEN DropSession ELSE UNCHANGED <<rtSession, rtMedia>>
DropResponder == IF ExactResponder THEN DropSession ELSE UNCHANGED <<rtSession, rtMedia>>
\* rollback_incoming_claim
ClaimRollback ==
  /\ rtCmd.at = "claim_rollback" /\ TakeClaim /\ DropResponder
  /\ rtDriver' = ShutDriver(rtCmd.driver) /\ rtCmd' = CmdIdle
  /\ UNCHANGED <<rtGen, rtIo, rtRequest, rtEpoch, rtToken, rtReplay, rtGhost, rtSig, rtConn, rtRun, rtSpent>>

-----------------------------------------------------------------------------
(* Commands: reject_incoming_offer and discard_incoming_offer              *)

RejectBegin(t) ==
  /\ RtIdle /\ rtBinding.published /\ t = rtBinding.token /\ CanClaim(t)
  /\ rtCmd' = [CmdIdle EXCEPT !.at = "reject_mark", !.token = t, !.epoch = rtBinding.epoch]
  /\ UNCHANGED <<rtFormal, rtOffers, rtSig, rtConn, rtRun>>
RejectMark ==
  /\ rtCmd.at = "reject_mark"
  /\ IF rtBinding.token = rtCmd.token /\ rtBinding.state = "pending"
       THEN rtBinding' = [rtBinding EXCEPT !.state = "claiming"] /\ rtCmd' = [rtCmd EXCEPT !.at = "reject_done"]
       ELSE rtCmd' = CmdIdle /\ UNCHANGED rtBinding
  /\ UNCHANGED <<rtFormal, rtRequest, rtEpoch, rtToken, rtReplay, rtExpiry, rtGhost, rtSig, rtConn, rtRun, rtSpent>>
\* The REJECT has been sent, or not: either way the binding goes.
RejectDone ==
  /\ rtCmd.at = "reject_done" /\ rtCmd' = CmdIdle
  /\ IF rtBinding.token = rtCmd.token /\ rtBinding.state = "claiming"
       THEN Withdraw /\ WakeExpiry ELSE UNCHANGED <<rtBinding, rtFate, rtExpiry>>
  /\ UNCHANGED <<rtFormal, rtRequest, rtEpoch, rtToken, rtReplay, rtPublished, rtAccepted, rtSig, rtConn, rtRun,
                 rtSpent>>
Discard(t) ==
  /\ RtIdle /\ rtBinding.published /\ t = rtBinding.token /\ HasBinding /\ Withdraw /\ WakeExpiry
  /\ UNCHANGED <<rtFormal, rtRequest, rtEpoch, rtToken, rtReplay, rtPublished, rtAccepted, rtCmd, rtSig, rtConn, rtRun>>

-----------------------------------------------------------------------------
(* Signals: handle_v2_realtime_signal                                      *)

\* A signal names an instance of the remote side, or one this side has offered.
KnownInstance(s) == s \in RtRemoteIds \/ (s \in RtDrivers /\ rtDriver[s].sig # "none")
SigArrives(g) ==
  /\ rtSig.at = "idle" /\ rtRun \in {"up", "stopping"} /\ KnownInstance(g.shared) /\ RtHappens
  /\ rtSig' = [SigIdle EXCEPT !.sig = g, !.bound = HasSession,
                 !.at = IF g.kind \in {"request", "cancel", "close"} THEN "control"
                        ELSE IF HasSession THEN "formal" ELSE "lookup"]
  /\ UNCHANGED <<rtFormal, rtOffers, rtCmd, rtConn, rtRun>>

ClaimInProgress(g) == HasBinding /\ rtBinding.shared = g.shared /\ rtBinding.state = "claiming"
ClosesSession(g) == HasSession /\ rtSession.shared = g.shared /\ g.rev > rtSession.remoteRev
\* handle_claiming_control_signal: CANCEL and Close reach a claim in progress first.
SigControl ==
  LET g == rtSig.sig IN
  /\ rtSig.at = "control"
  /\ \/ /\ ~ClaimInProgress(g)
        /\ rtSig' = [rtSig EXCEPT !.at = IF rtSig.bound THEN "formal" ELSE "lookup"]
        /\ UNCHANGED <<rtSession, rtMedia, rtBinding, rtReplay, rtFate, rtExpiry>>
     \/ /\ ClaimInProgress(g) /\ g.kind = "cancel" /\ rtBinding.op = g.op /\ CanCancel(g.op)
        /\ Withdraw /\ WakeExpiry /\ rtReplay' = rtReplay \cup {CancelKey(g.op)} /\ rtSig' = SigIdle
        /\ UNCHANGED <<rtSession, rtMedia>>
     \/ /\ ClaimInProgress(g) /\ g.kind = "close" /\ (HasSession => ClosesSession(g))
        /\ Withdraw /\ WakeExpiry /\ UNCHANGED rtReplay
        /\ IF HasSession THEN DropSession /\ rtSig' = [rtSig EXCEPT !.at = "cancel", !.driver = rtSession.driver]
           ELSE rtSig' = SigIdle /\ UNCHANGED <<rtSession, rtMedia>>
     \/ /\ ClaimInProgress(g)
        /\ \/ g.kind = "request"
           \/ g.kind = "cancel" /\ ~(rtBinding.op = g.op /\ CanCancel(g.op))
           \/ g.kind = "close" /\ HasSession /\ ~ClosesSession(g)
        /\ rtSig' = SigIdle /\ UNCHANGED <<rtSession, rtMedia, rtBinding, rtReplay, rtFate, rtExpiry>>
  /\ UNCHANGED <<rtGen, rtDriver, rtIo, rtRequest, rtEpoch, rtToken, rtPublished, rtAccepted, rtCmd, rtConn, rtRun,
                 rtSpent>>

EnsureExpiryWorker == rtExpiry' = IF rtExpiry.at = "off" THEN [rtExpiry EXCEPT !.at = "look"] ELSE rtExpiry
\* handle_provisional_realtime_signal up to its lock: the expiry worker is started, and a session
\* made since the signal arrived takes the signal if the instance is its own.
SigLookup ==
  /\ rtSig.at = "lookup"
  /\ IF rtExpiry.at = "off" /\ ~CanSpawn THEN rtSig' = SigIdle /\ UNCHANGED rtExpiry
     ELSE /\ EnsureExpiryWorker
          /\ rtSig' = IF ~HasSession THEN [rtSig EXCEPT !.at = "provisional"]
                      ELSE IF rtSession.shared = rtSig.sig.shared THEN [rtSig EXCEPT !.at = "formal"] ELSE SigIdle
  /\ UNCHANGED <<rtFormal, rtBinding, rtRequest, rtEpoch, rtToken, rtReplay, rtGhost, rtCmd, rtConn, rtRun, rtSpent>>

\* Under the lock, after the pruning: what each kind of signal needs, and what it does.
OfferFits(g) == g.kind = "offer" /\ PrunedBinding = NoBinding /\ (PrunedRequest # NoRequest => rtRequest.shared = g.shared)
\* The stored REQUEST moves into the binding.  Mutant: it also stays where it was.
RequestStays == PrunedRequest
RequestTaken == NoRequest
TakeOffer(g) ==
  LET merged == PrunedRequest # NoRequest
      epoch == IF merged THEN rtRequest.epoch ELSE rtEpoch + 1 IN
  /\ rtToken' = rtToken + 1 /\ rtEpoch' = RtMaximum(rtEpoch, epoch)
  /\ rtBinding' = [NoBinding EXCEPT !.token = rtToken + 1, !.epoch = epoch, !.shared = g.shared, !.rev = g.rev,
                     !.op = PrunedRequest.op, !.state = "pending", !.published = merged]
  /\ rtRequest' = RequestTaken /\ WakeExpiry /\ rtFate' = PrunedFate
  /\ IF merged THEN Publish(rtRequest.op) ELSE UNCHANGED rtPublished
  /\ UNCHANGED <<rtReplay, rtAccepted>>
\* push_ice
IceFits(g) ==
  /\ g.kind = "ice" /\ PrunedBinding # NoBinding /\ rtBinding.shared = g.shared /\ g.rev = rtBinding.rev
  /\ Len(rtBinding.ice) < RtMaxIce /\ \A i \in DOMAIN rtBinding.ice : rtBinding.ice[i] # g.cand
QueueIce(g) ==
  /\ rtBinding' = [rtBinding EXCEPT !.ice = Append(@, g.cand)]
  /\ rtAccepted' = rtAccepted \cup {<<rtBinding.token, g.cand>>}
  /\ rtRequest' = PrunedRequest /\ rtExpiry' = PruneWakes(rtExpiry)
  /\ UNCHANGED <<rtEpoch, rtToken, rtReplay, rtPublished, rtFate>>
\* The REQUEST of an offer that is here, or kept until its offer comes.
RequestFits(g) ==
  /\ g.kind = "request" /\ CanRemember(RequestKey(g.op))
  /\ IF PrunedBinding # NoBinding THEN rtBinding.shared = g.shared /\ rtBinding.op = "none"
     ELSE PrunedRequest = NoRequest
TakeRequest(g) ==
  /\ rtReplay' = rtReplay \cup {RequestKey(g.op)} /\ WakeExpiry /\ rtFate' = PrunedFate
  /\ IF PrunedBinding # NoBinding
       THEN /\ rtBinding' = [rtBinding EXCEPT !.op = g.op, !.published = TRUE]
            /\ IF rtBinding.published THEN UNCHANGED rtPublished ELSE Publish(g.op)
            /\ rtRequest' = PrunedRequest /\ UNCHANGED rtEpoch
       ELSE /\ rtBinding' = NoBinding /\ rtEpoch' = rtEpoch + 1 /\ UNCHANGED rtPublished
            /\ rtRequest' = [NoRequest EXCEPT !.epoch = rtEpoch + 1, !.shared = g.shared, !.op = g.op]
  /\ UNCHANGED <<rtToken, rtAccepted>>
CancelsBinding(g) == PrunedBinding # NoBinding /\ rtBinding.shared = g.shared /\ rtBinding.op \in {"none", g.op}
CancelsRequest(g) == PrunedRequest # NoRequest /\ rtRequest.shared = g.shared /\ rtRequest.op = g.op
CancelFits(g) == g.kind = "cancel" /\ (CancelsBinding(g) \/ CancelsRequest(g)) /\ CanCancel(g.op)
TakeCancel(g) ==
  /\ rtReplay' = rtReplay \cup {CancelKey(g.op)} /\ WakeExpiry
  /\ IF CancelsBinding(g) THEN Withdraw /\ rtRequest' = PrunedRequest
     ELSE rtRequest' = NoRequest /\ rtBinding' = PrunedBinding /\ rtFate' = PrunedFate
  /\ UNCHANGED <<rtEpoch, rtToken, rtPublished, rtAccepted>>
ClosesBinding(g) == PrunedBinding # NoBinding /\ rtBinding.shared = g.shared
ClosesRequest(g) == PrunedRequest # NoRequest /\ rtRequest.shared = g.shared
CloseFits(g) == g.kind = "close" /\ (ClosesBinding(g) \/ ClosesRequest(g))
TakeClose(g) ==
  /\ IF ClosesBinding(g) THEN Withdraw ELSE rtBinding' = PrunedBinding /\ rtFate' = PrunedFate
  /\ rtRequest' = IF ClosesRequest(g) THEN NoRequest ELSE PrunedRequest
  /\ WakeExpiry /\ UNCHANGED <<rtEpoch, rtToken, rtReplay, rtPublished, rtAccepted>>
SigProvisional ==
  LET g == rtSig.sig IN
  /\ rtSig.at = "provisional" /\ rtSig' = SigIdle
  /\ \/ OfferFits(g) /\ TakeOffer(g)
     \/ IceFits(g) /\ QueueIce(g)
     \/ RequestFits(g) /\ TakeRequest(g)
     \/ CancelFits(g) /\ TakeCancel(g)
     \/ CloseFits(g) /\ TakeClose(g)
     \/ ~(OfferFits(g) \/ IceFits(g) \/ RequestFits(g) \/ CancelFits(g) \/ CloseFits(g)) /\ OnlyPrune
  /\ UNCHANGED <<rtFormal, rtCmd, rtConn, rtRun, rtSpent>>

-----------------------------------------------------------------------------
(* Signals: handle_realtime_signal                                         *)

\* Consent is shown to the application; Close removes the session; an Offer without a session
\* gets a driver; everything else goes on to apply_signal_with_driver.
SigFormal ==
  LET g == rtSig.sig IN
  /\ rtSig.at = "formal"
  /\ \/ /\ g.kind \in {"request", "cancel"} /\ rtSig' = SigIdle /\ UNCHANGED <<rtSession, rtMedia, rtDriver>>
     \/ /\ g.kind = "close"
        /\ IF ClosesSession(g)
             THEN DropSession /\ rtDriver' = ShutDriver(rtSession.driver)
                  /\ rtSig' = [rtSig EXCEPT !.at = "cancel", !.driver = rtSession.driver]
             ELSE rtSig' = SigIdle /\ UNCHANGED <<rtSession, rtMedia, rtDriver>>
     \/ /\ g.kind \in {"offer", "answer", "ice", "restart"}
        /\ IF g.kind = "offer" /\ ~HasSession
             THEN \E d \in RtDrivers : /\ FreshDriver(d) /\ rtDriver' = [rtDriver EXCEPT ![d] = OpenDriver]
                                       /\ rtSig' = [rtSig EXCEPT !.at = "apply", !.driver = d]
             ELSE rtSig' = [rtSig EXCEPT !.at = "apply"] /\ UNCHANGED rtDriver
        /\ UNCHANGED <<rtSession, rtMedia>>
  /\ UNCHANGED <<rtGen, rtIo, rtOffers, rtCmd, rtConn, rtRun, rtSpent>>
\* cancel_session after a remote Close
SigCancel ==
  /\ rtSig.at = "cancel" /\ CancelIo /\ rtDriver' = ShutDriver(rtSig.driver) /\ rtSig' = SigIdle
  /\ UNCHANGED <<rtSession, rtGen, rtMedia, rtOffers, rtCmd, rtConn, rtRun, rtSpent>>

\* The session accepts the signal: its instance, and a revision that is new.
SignalFits(g) ==
  HasSession => /\ rtSession.shared = g.shared
                /\ IF g.kind = "ice" THEN g.rev = rtSession.iceRev /\ g.cand \notin rtSession.seen
                   ELSE g.rev > rtSession.remoteRev
\* The session once the remote description is in place, on its driver's new state.
Negotiated(g, driver) ==
  [rtSession EXCEPT !.rev = RtMaximum(driver.rev, g.rev), !.remoteRev = g.rev,
     !.iceRev = CASE g.kind = "offer" -> g.rev [] g.kind = "restart" -> RtMaximum(driver.rev, g.rev) [] OTHER -> @,
     !.seen = IF g.kind = "answer" THEN @ ELSE {}]
\* The driver call of the signal, if the signalling state allows it.
DriverTakes(g, driver) ==
  CASE g.kind = "offer" -> CanTakeOffer(driver) [] g.kind = "answer" -> CanTakeAnswer(driver)
    [] g.kind = "restart" -> driver.sig # "closed" [] OTHER -> TRUE
DriverAfter(g, driver) ==
  CASE g.kind = "offer" -> AnswerOffer(driver) [] g.kind = "answer" -> RemoteAnswer(driver)
    [] OTHER -> LocalOffer(RestartIce(driver))
\* apply_signal_with_driver; a driver made for an Offer that finds a session is dropped.
SigApply ==
  LET g == rtSig.sig
      d == rtSession.driver
      fits == HasSession /\ SignalFits(g) /\ DriverTakes(g, rtDriver[d])
      spare == IF rtSig.driver = 0 THEN rtDriver ELSE ShutDriver(rtSig.driver) IN
  /\ rtSig.at = "apply"
  /\ \/ /\ fits /\ g.kind = "ice" /\ rtSession' = [rtSession EXCEPT !.seen = @ \cup {g.cand}]
        /\ rtSig' = SigIdle /\ rtDriver' = spare /\ UNCHANGED <<rtGen, rtAccepted>>
     \/ /\ fits /\ g.kind # "ice"
        /\ rtDriver' = [spare EXCEPT ![d] = DriverAfter(g, @)]
        /\ rtSession' = Negotiated(g, DriverAfter(g, rtDriver[d]))
        /\ rtSig' = IF g.kind = "answer" THEN SigIdle ELSE [rtSig EXCEPT !.at = "send", !.driver = 0]
        /\ rtAccepted' = IF g.kind = "answer" THEN rtAccepted ELSE {a \in rtAccepted : a[1] # rtSession.token}
        /\ UNCHANGED rtGen
     \/ /\ ~HasSession /\ rtSig.driver # 0
        /\ rtDriver' = [rtDriver EXCEPT ![rtSig.driver] = AnswerOffer(@)]
        /\ InsertSession(Responder(g.shared, rtSig.driver, g.rev, {}, 0))
        /\ rtSig' = [rtSig EXCEPT !.at = "spawn"] /\ UNCHANGED rtAccepted
     \/ /\ ~fits /\ (HasSession \/ rtSig.driver = 0)
        /\ rtSig' = SigIdle /\ rtDriver' = spare /\ UNCHANGED <<rtSession, rtGen, rtAccepted>>
  /\ UNCHANGED <<rtIo, rtMedia, rtBinding, rtRequest, rtEpoch, rtToken, rtReplay, rtExpiry, rtPublished, rtFate,
                 rtCmd, rtConn, rtRun, rtSpent>>
\* The I/O task of a session made here, unless the session went meanwhile.
SigSpawn ==
  LET d == rtSig.driver IN
  /\ rtSig.at = "spawn"
  /\ IF Owns(d) /\ CanSpawn THEN SpawnIo(d) /\ UNCHANGED <<rtSession, rtMedia, rtDriver>>
     ELSE DropIfOwned(d) /\ rtDriver' = ShutDriver(d) /\ UNCHANGED rtIo
  /\ rtSig' = IF Owns(d) /\ ~CanSpawn THEN SigIdle
              ELSE [rtSig EXCEPT !.at = "send", !.driver = IF Owns(d) THEN d ELSE 0]
  /\ UNCHANGED <<rtGen, rtOffers, rtCmd, rtConn, rtRun, rtSpent>>
\* The answer, or the offer of a restart; a failure takes back only what this handler made.
SigSend(ok) ==
  /\ rtSig.at = "send" /\ RtOutcome(ok)
  /\ rtSig' = IF ok \/ rtSig.driver = 0 THEN SigIdle ELSE [rtSig EXCEPT !.at = "undo_cancel"]
  /\ UNCHANGED <<rtFormal, rtOffers, rtCmd, rtConn, rtRun>>
SigUndoCancel ==
  /\ rtSig.at = "undo_cancel" /\ CancelIo /\ rtSig' = [rtSig EXCEPT !.at = "undo"]
  /\ UNCHANGED <<rtSession, rtGen, rtDriver, rtMedia, rtOffers, rtCmd, rtConn, rtRun, rtSpent>>
SigUndo ==
  /\ rtSig.at = "undo" /\ DropIfOwned(rtSig.driver) /\ rtDriver' = ShutDriver(rtSig.driver) /\ rtSig' = SigIdle
  /\ UNCHANGED <<rtGen, rtIo, rtOffers, rtCmd, rtConn, rtRun, rtSpent>>

-----------------------------------------------------------------------------
(* I/O tasks, connection teardown, the expiry worker                       *)

\* run_realtime_io returned, or the peer failed: Failed is emitted, then the session goes.
IoFails(d) ==
  /\ rtIo[d] = "run" /\ RtHappens /\ rtIo' = [rtIo EXCEPT ![d] = "dying"]
  /\ UNCHANGED <<rtSession, rtGen, rtDriver, rtMedia, rtOffers, rtCmd, rtSig, rtConn, rtRun>>
\* remove_realtime_session_if_owned
IoRemoves(d) ==
  /\ rtIo[d] = "dying" /\ rtIo' = [rtIo EXCEPT ![d] = "none"] /\ DropIfOwned(d) /\ rtDriver' = ShutDriver(d)
  /\ UNCHANGED <<rtGen, rtOffers, rtCmd, rtSig, rtConn, rtRun, rtSpent>>

\* close_realtime_sessions_for_session: every provisional entry of the peer goes, and the session
\* that was made under the lost connection session.
ConnectionLost ==
  /\ rtConn.at = "idle" /\ rtRun = "up" /\ RtHappens /\ WakeExpiry
  /\ IF HasBinding THEN Withdraw ELSE UNCHANGED <<rtBinding, rtFate>>
  /\ rtRequest' = NoRequest
  /\ IF HasSession /\ rtSession.conn = rtConn.id
       THEN DropSession /\ rtDriver' = ShutDriver(rtSession.driver) /\ rtConn' = [id |-> rtConn.id + 1, at |-> "cancel"]
       ELSE rtConn' = [rtConn EXCEPT !.id = @ + 1] /\ UNCHANGED <<rtSession, rtMedia, rtDriver>>
  /\ UNCHANGED <<rtGen, rtIo, rtEpoch, rtToken, rtReplay, rtPublished, rtAccepted, rtCmd, rtSig, rtRun>>
ConnectionCancel ==
  /\ rtConn.at = "cancel" /\ CancelIo /\ rtConn' = [rtConn EXCEPT !.at = "idle"]
  /\ UNCHANGED <<rtSession, rtGen, rtDriver, rtMedia, rtOffers, rtCmd, rtSig, rtRun, rtSpent>>

\* The deadline of the entry passes.
Elapse ==
  /\ RtHappens /\ (HasBinding \/ HasRequest)
  /\ rtBinding' = [rtBinding EXCEPT !.due = HasBinding] /\ rtRequest' = [rtRequest EXCEPT !.due = HasRequest]
  /\ UNCHANGED <<rtFormal, rtEpoch, rtToken, rtReplay, rtExpiry, rtGhost, rtCmd, rtSig, rtConn, rtRun>>
\* next_provisional_expiry: the entry to wait for.
EntryEpoch == IF HasBinding THEN rtBinding.epoch ELSE rtRequest.epoch
EntryDue == rtBinding.due \/ rtRequest.due
ExpiryLooks ==
  /\ rtExpiry.at = "look" /\ rtExpiry' = [rtExpiry EXCEPT !.at = "wait", !.epoch = EntryEpoch]
  /\ UNCHANGED <<rtFormal, rtBinding, rtRequest, rtEpoch, rtToken, rtReplay, rtGhost, rtCmd, rtSig, rtConn, rtRun, rtSpent>>
ExpiryWakes ==
  /\ rtExpiry.at = "wait" /\ rtExpiry.wake /\ rtExpiry' = [rtExpiry EXCEPT !.at = "look", !.wake = FALSE]
  /\ UNCHANGED <<rtFormal, rtBinding, rtRequest, rtEpoch, rtToken, rtReplay, rtGhost, rtCmd, rtSig, rtConn, rtRun, rtSpent>>
\* The deadline it waits for has come; the epoch is checked under the lock.
ExpiryFires ==
  /\ rtExpiry.at = "wait" /\ rtExpiry.epoch # 0 /\ EntryDue /\ rtExpiry.epoch = EntryEpoch
  /\ IF HasBinding THEN Withdraw ELSE UNCHANGED <<rtBinding, rtFate>>
  /\ rtRequest' = NoRequest /\ rtExpiry' = [rtExpiry EXCEPT !.at = "look"]
  /\ UNCHANGED <<rtFormal, rtEpoch, rtToken, rtReplay, rtPublished, rtAccepted, rtCmd, rtSig, rtConn, rtRun, rtSpent>>

-----------------------------------------------------------------------------
(* Media endpoints, shutdown                                               *)

\* create_endpoint: the session's driver and generation, both locks held; a second one in the
\* same direction is refused, and endpoints of an earlier session are dropped first.
LiveEndpoints == {e \in rtMedia : e.gen = rtSession.gen /\ e.driver = rtSession.driver}
CreateEndpoint(dir) ==
  LET e == [gen |-> rtSession.gen, driver |-> rtSession.driver, dir |-> dir] IN
  /\ rtRun = "up" /\ HasSession /\ e \notin LiveEndpoints /\ RtHappens /\ rtMedia' = LiveEndpoints \cup {e}
  /\ UNCHANGED <<rtSession, rtGen, rtDriver, rtIo, rtOffers, rtCmd, rtSig, rtConn, rtRun>>
ReleaseEndpoint(e) ==
  /\ e \in rtMedia /\ RtHappens /\ rtMedia' = rtMedia \ {e}
  /\ UNCHANGED <<rtSession, rtGen, rtDriver, rtIo, rtOffers, rtCmd, rtSig, rtConn, rtRun>>

RtShutdown ==
  /\ rtRun = "up" /\ RtHappens /\ rtRun' = "stopping" /\ rtMedia' = {}
  /\ UNCHANGED <<rtSession, rtGen, rtDriver, rtIo, rtOffers, rtCmd, rtSig, rtConn>>
\* close_all
RtCloseAll ==
  /\ rtRun = "stopping" /\ rtRun' = "closed" /\ DropSession /\ WakeExpiry /\ rtRequest' = NoRequest
  /\ rtDriver' = IF HasSession THEN ShutDriver(rtSession.driver) ELSE rtDriver
  /\ IF HasBinding THEN Withdraw ELSE UNCHANGED <<rtBinding, rtFate>>
  /\ UNCHANGED <<rtGen, rtIo, rtEpoch, rtToken, rtReplay, rtPublished, rtAccepted, rtCmd, rtSig, rtConn, rtSpent>>

RtCmdStep ==
  \/ \E d \in RtDrivers : StartBegin(d)
  \/ StartInsert \/ (\E ok \in BOOLEAN : StartSend(ok)) \/ StartSpawn \/ StopBegin \/ StopCancel
  \/ ClaimBegin(rtBinding.token) \/ (\E ok \in BOOLEAN, d \in RtDrivers : ClaimDriver(ok, d))
  \/ (\E o \in {"ok", "bad_offer", "bad_ice"} : ClaimApply(o)) \/ ClaimSpawn
  \/ (\E ok \in BOOLEAN : ClaimSend(ok)) \/ ClaimCommit \/ ClaimCancel \/ ClaimRollback
  \/ RejectBegin(rtBinding.token) \/ RejectMark \/ RejectDone \/ Discard(rtBinding.token)
RtSigStep ==
  \/ (\E g \in RtSignals : SigArrives(g)) \/ SigControl \/ SigLookup \/ SigProvisional
  \/ SigFormal \/ SigCancel \/ SigApply \/ SigSpawn
  \/ (\E ok \in BOOLEAN : SigSend(ok)) \/ SigUndoCancel \/ SigUndo
RealtimeNext ==
  \/ RtCmdStep \/ RtSigStep
  \/ \E d \in RtDrivers : IoFails(d) \/ IoRemoves(d)
  \/ ConnectionLost \/ ConnectionCancel \/ Elapse \/ ExpiryLooks \/ ExpiryWakes \/ ExpiryFires
  \/ (\E dir \in {"send", "receive"} : CreateEndpoint(dir)) \/ (\E e \in rtMedia : ReleaseEndpoint(e))
  \/ RtShutdown \/ RtCloseAll
RealtimeFairness == WF_rtVars(ExpiryLooks) /\ WF_rtVars(ExpiryWakes) /\ WF_rtVars(ExpiryFires)
RealtimeSpec == RealtimeInit /\ [][RealtimeNext]_rtVars /\ RealtimeFairness
-----------------------------------------------------------------------------
(* Properties                                                              *)

\* The manager's maps, the endpoint registry and the tasks hold values of their types.
RealtimeTypeOK ==
  /\ rtSession.gen \in 0 .. rtGen /\ rtSession.driver \in 0 .. RtMaxDrivers
  /\ rtBinding.token \in 0 .. rtToken /\ rtBinding.epoch \in 0 .. rtEpoch
  /\ rtBinding.state \in {"none", "pending", "claiming"} /\ Len(rtBinding.ice) <= RtMaxIce
  /\ rtRequest.epoch \in 0 .. rtEpoch /\ ~(HasBinding /\ HasRequest)
  /\ Cardinality(rtReplay) <= RtMaxReplay
  /\ rtIo \in [RtDrivers -> {"none", "run", "dying"}]
  /\ rtExpiry.at \in {"off", "look", "wait"} /\ rtRun \in {"up", "stopping", "closed"}

\* An endpoint belongs to the session that has the id now: no path that removes a session (stop,
\* remote close, rollback of a claim, I/O failure, teardown, shutdown) leaves an endpoint on its
\* driver for the next session to be confused with.
MediaFollowsSession == \A e \in rtMedia : e.gen = rtSession.gen /\ e.driver = rtSession.driver

\* A claim is all or nothing: an offer that was cancelled, closed, expired or torn down before the
\* commit is never committed, and no session of an uncommitted claim is left when the command ends.
ClaimIsAtomic ==
  /\ rtFate.committed \cap rtFate.withdrawn = {}
  /\ rtCmd.at = "idle" /\ rtSession.token # 0 => rtSession.token \in rtFate.committed

\* A candidate that was queued for an offer reaches the session its claim made, whichever side of
\* the driver's creation or the answer it came in on.
QueuedIceIsApplied ==
  rtSession.token \in rtFate.committed => \A a \in rtAccepted : a[1] = rtSession.token => a[2] \in rtSession.seen

\* An operation is shown to the application once, however its REQUEST, its Offer and their repeats
\* arrive, and whatever became of the first showing.
ShownOnce == \A o \in RtOps : rtPublished[o] <= 1

\* A claim or rejection in progress only ever takes out its own binding and its own session, though
\* both can have been replaced under the same id while it was away.
ClaimTouchesOwn ==
  [][rtCmd.at \in {"claim_apply", "claim_commit", "claim_rollback", "reject_mark", "reject_done"} /\ rtCmd' # rtCmd
       => /\ rtBinding' # rtBinding => rtBinding.token = rtCmd.token
          /\ rtSession' # rtSession /\ HasSession => rtSession.driver = rtCmd.driver]_rtVars

\* An entry whose deadline has passed is dropped although no signal or command looks at it again:
\* the worker is never asleep on an older entry or on none.
DueIsDropped == []<>~EntryDue

\* An incoming call is shown once, claimed wholly or not at all and with all its
\* candidates, and its media end with its session.
ClaimSound ==
  RealtimeTypeOK /\ MediaFollowsSession /\ ClaimIsAtomic /\ QueuedIceIsApplied /\ ShownOnce

\* Commands and the expiry worker deal with what is theirs, and with all of it.
ClaimsHandled == ClaimTouchesOwn /\ DueIsDropped
=============================================================================
