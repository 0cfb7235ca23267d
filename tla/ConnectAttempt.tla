--------------------------- MODULE ConnectAttempt ---------------------------
(***************************************************************************)
(* ConnectivityAttemptCoordinator (connect/connectivity_attempt): the        *)
(* attempts to reach one peer.  Stage A races direct candidates from the     *)
(* cache and the configuration; then a healthy path is reused; Stage B       *)
(* reserves a session, resolves the peer over the relay, sends an Offer and  *)
(* races again; Stage C falls back to a relayed path.                        *)
(*                                                                         *)
(* The peer supervisor runs one connect at a time and drops the one it        *)
(* replaces.  What overlaps with it: recovery probes (Stage A alone), the    *)
(* cleanup and the Answer tasks of earlier connects, incoming connections,   *)
(* presence hints, lost paths and closes.  Each awaited section is a step.   *)
(*                                                                         *)
(* Abstractions.  The session is reserved, or claimed by an authenticated    *)
(* connection; how candidates race for the claim and how a path is           *)
(* published is SessionPaths's subject, so a race ends with a claim or       *)
(* without one, and attaching needs the session to be current.  At most one  *)
(* path is ready.  The peer publishes the snapshots of CaHistory in order;   *)
(* a Resolve returns the newest, an Answer one at least as new as the Offer. *)
(***************************************************************************)
EXTENDS CandidateCache, Sequences

CONSTANTS
  CaConnects,   \* connects, told apart by what they need; one runs at a time
  CaProbes,     \* names of direct recovery probes
  CaNeed,       \* attempt -> capabilities it asks for
  CaHistory,    \* the snapshots the peer publishes, in order
  CaMaxIds,     \* bound on the session ids issued
  CaBudget      \* bound on attempts, aborts, hints, closes, losses, incoming connections

CaAttempts == CaConnects \cup CaProbes

ASSUME ConnectAttemptAssumption ==
  /\ CaConnects \cap CaProbes = {} /\ CaHistory # <<>>
  /\ CaHistory \in Seq([epoch : Nat \ {CcNoEpoch}, rev : Nat, content : Nat])
  /\ CaNeed \in [CaAttempts -> SUBSET {"message", "stream"}]
  /\ CaMaxIds \in Nat /\ CaBudget \in Nat

VARIABLES
  caSession,  \* connection_sessions: the peer's session and its phase
  caIssued,   \* session ids issued
  caRoute,    \* the ready path and the session it was published for
  caIndex,    \* ready_session_index
  caCache,    \* remote_candidate_cache
  caPub,      \* how many snapshots of CaHistory the peer has published
  caHint,     \* the presence hint on its way: a position of CaHistory, or 0
  caAtt,      \* the attempts
  caStray,    \* Answer tasks whose attempt has ended: the positions of their Offers
  caCleanup,  \* sessions a dropped SessionCleanupGuard will fail
  caClosing,  \* the close under way: its session, and whether it is a lost path's
  caOrphans,  \* history: sessions reserved by a Stage A that was aborted
  caQuiet,    \* history: reservations retired after their notification
  caSpent     \* events so far

caVars == <<caSession, caIssued, caRoute, caIndex, caCache, caPub, caHint, caAtt, caStray,
            caCleanup, caClosing, caOrphans, caQuiet, caSpent>>
\* What most steps of an attempt leave alone.
caWorld == <<caIssued, caPub, caHint, caClosing, caOrphans, caQuiet, caSpent>>

CaNoSession == [id |-> 0, phase |-> "absent"]
CaNoRoute == [kind |-> "none", caps |-> {}, session |-> 0]
CaNoEntry == [session |-> 0, epoch |-> CcNoEpoch, caps |-> {}]
CaNoView == [epoch |-> CcNoEpoch, rev |-> 0, live |-> FALSE]
CaIdle == [at |-> "idle", id |-> 0, owns |-> FALSE, guard |-> FALSE, again |-> FALSE,
           offer |-> 0, view |-> CaNoView, answer |-> 0]

ConnectAttemptInit ==
  /\ caSession = CaNoSession /\ caIssued = 0 /\ caRoute = CaNoRoute /\ caIndex = CaNoEntry
  /\ caCache = CcNone /\ caPub = 1 /\ caHint = 0 /\ caAtt = [a \in CaAttempts |-> CaIdle]
  /\ caStray = {} /\ caCleanup = {} /\ caClosing = {} /\ caOrphans = {} /\ caQuiet = {}
  /\ caSpent = 0

CaHappens == caSpent < CaBudget /\ caSpent' = caSpent + 1
\* path_is_connected asks for a path of the current session; the path manager, which
\* path_supports_capability asks, does not know sessions.
CaUp == caRoute.kind # "none"
CaConnected == CaUp /\ caRoute.session = caSession.id
CaSupports(a) == CaUp /\ CaNeed[a] \subseteq caRoute.caps
\* The NotReady, Answer and cleanup machinery works on positions of CaHistory.
CaSnap(i) == CaHistory[i]

\* notify_path_changed: the attempts that wait look again.
CaWoken(att) == [a \in CaAttempts |->
  IF att[a].at = "b_sleep" THEN [att[a] EXCEPT !.at = "b_wait"] ELSE att[a]]
CaTo(a, stage) == [caAtt EXCEPT ![a].at = stage]
\* An attempt that has returned; its Answer task stays behind.
CaEnd(att, a) == [att EXCEPT ![a] = CaIdle]
CaLeave(a) == IF caAtt[a].offer # 0 THEN caStray \cup {caAtt[a].offer} ELSE caStray

\* Mutant: whoever waits for the session is not told.
CaFailQuietly(i, att) ==
  /\ caSession' = IF caSession.id = i THEN CaNoSession ELSE caSession
  /\ caRoute' = IF caRoute.session = i THEN CaNoRoute ELSE caRoute
  /\ caIndex' = IF caSession.id = i /\ caIndex.session = i THEN CaNoEntry ELSE caIndex
  /\ caAtt' = att
\* fail_session: the paths of this very session go, the session is retired with
\* its resources, and the waiters are told.
CaFail(i, att) ==
  /\ caSession' = IF caSession.id = i THEN CaNoSession ELSE caSession
  /\ caRoute' = IF caRoute.session = i THEN CaNoRoute ELSE caRoute
  /\ caIndex' = IF caSession.id = i /\ caIndex.session = i THEN CaNoEntry ELSE caIndex
  /\ caAtt' = IF i \in {caSession.id, caRoute.session} THEN CaWoken(att) ELSE att
\* The attempt returns an error, having failed the session it reserved.
CaGiveUp(a) ==
  /\ CaFail(caAtt[a].id, CaEnd(caAtt, a)) /\ caStray' = CaLeave(a)
  /\ UNCHANGED <<caCache, caCleanup, caWorld>>
\* It returns without touching the session.
CaReturn(a) ==
  /\ caAtt' = CaEnd(caAtt, a) /\ caStray' = CaLeave(a)
  /\ UNCHANGED <<caSession, caRoute, caIndex, caCache, caCleanup, caWorld>>
CaGo(a, stage) ==
  /\ caAtt' = CaTo(a, stage)
  /\ UNCHANGED <<caSession, caRoute, caIndex, caCache, caStray, caCleanup, caWorld>>

-----------------------------------------------------------------------------
(* Stage A                                                                 *)

\* Where a Stage A without a route leads.
CaMissed(a) == IF a \in CaProbes THEN CaIdle
               ELSE [caAtt[a] EXCEPT !.at = "reuse", !.id = 0, !.owns = FALSE]
\* try_stage_a_direct: a ready direct path will do; otherwise the candidates of a
\* fresh cache entry and the configured endpoint, if there are any.
CaStart(a) ==
  /\ caAtt[a].at = "idle" /\ CaHappens
  /\ a \in CaConnects => \A b \in CaConnects : caAtt[b].at = "idle"
  /\ \E configured \in BOOLEAN :
       LET epoch == IF caCache.fresh THEN caCache.epoch ELSE CcNoEpoch IN
       IF CaSupports(a) /\ caRoute.kind = "direct" THEN UNCHANGED caAtt
       ELSE caAtt' = [caAtt EXCEPT ![a] = IF caCache.fresh \/ configured
              THEN [CaIdle EXCEPT !.at = "a_session", !.view.epoch = epoch] ELSE CaMissed(a)]
  /\ UNCHANGED <<caSession, caRoute, caIndex, caCache, caStray, caCleanup,
                 caIssued, caPub, caHint, caClosing, caOrphans, caQuiet>>

CaStageASession(a) ==
  /\ caAtt[a].at = "a_session"
  /\ caAtt' = IF caSession.id # 0 THEN [caAtt EXCEPT ![a].at = "a_race", ![a].id = caSession.id]
              ELSE CaTo(a, "a_begin")
  /\ UNCHANGED <<caSession, caRoute, caIndex, caCache, caStray, caCleanup, caWorld>>

\* begin_connect registers a new reservation when the peer has no session.
CaReserveId(a, next) ==
  /\ caSession.id = 0 /\ caIssued < CaMaxIds /\ caIssued' = caIssued + 1
  /\ caSession' = [id |-> caIssued + 1, phase |-> "reserved"]
  /\ caAtt' = [caAtt EXCEPT ![a] = [next EXCEPT !.id = caIssued + 1]]
  /\ UNCHANGED <<caRoute, caIndex, caCache, caStray, caCleanup, caPub, caHint, caClosing,
                 caOrphans, caQuiet, caSpent>>
CaStageABegin(a) ==
  /\ caAtt[a].at = "a_begin"
  /\ \/ CaReserveId(a, [caAtt[a] EXCEPT !.at = "a_race", !.owns = TRUE])
     \/ /\ caSession.phase = "claimed" /\ CaSupports(a)
        /\ caAtt' = [caAtt EXCEPT ![a].at = "a_race", ![a].id = caSession.id]
        /\ UNCHANGED <<caSession, caRoute, caIndex, caCache, caStray, caCleanup, caWorld>>
     \/ /\ caSession.id # 0 /\ ~(caSession.phase = "claimed" /\ CaSupports(a))
        /\ caAtt' = [caAtt EXCEPT ![a] = CaMissed(a)]
        /\ UNCHANGED <<caSession, caRoute, caIndex, caCache, caStray, caCleanup, caWorld>>

\* A candidate wins the race when it claims the reservation.
CaClaim(a, stage) ==
  /\ caSession = [id |-> caAtt[a].id, phase |-> "reserved"]
  /\ caSession' = [caSession EXCEPT !.phase = "claimed"]
  /\ caAtt' = CaWoken(CaTo(a, stage))
  /\ UNCHANGED <<caRoute, caIndex, caCache, caStray, caCleanup, caWorld>>
\* Stage A retires the session only if it made it.
CaStageAFail(a, after) ==
  LET next == [caAtt EXCEPT ![a] = after] IN
  /\ IF caAtt[a].owns THEN CaFail(caAtt[a].id, next)
     ELSE caAtt' = next /\ UNCHANGED <<caSession, caRoute, caIndex>>
  /\ UNCHANGED <<caCache, caStray, caCleanup, caWorld>>
\* Mutant: a failed race keeps the session it reserved.
CaStageARaceKept(a) ==
  /\ caAtt[a].at = "a_race"
  /\ \/ CaClaim(a, "a_attach")
     \/ /\ caAtt' = [caAtt EXCEPT ![a] = CaMissed(a)]
        /\ UNCHANGED <<caSession, caRoute, caIndex, caCache, caStray, caCleanup, caWorld>>
\* try_stage_a_direct: the race, bounded by its budget.
CaStageARace(a) ==
  /\ caAtt[a].at = "a_race"
  /\ \/ CaClaim(a, "a_attach")
     \/ CaStageAFail(a, CaMissed(a))

\* attach_direct_route, mark_relay_route_connected: the session must still be
\* current and the slot free.  A direct route may carry messages only if that is
\* all that was asked for.
CaRoutes(a, kind) ==
  {[kind |-> kind, session |-> caAtt[a].id, caps |-> c] : c \in {c \in {{"message"}, {"message", "stream"}} :
      CaNeed[a] \subseteq c /\ (kind = "relay" => "stream" \in c)}}
CaMayAttach(a, kind) == caSession.id = caAtt[a].id /\ caRoute.kind # kind
CaAttach(a, kind, stage) ==
  /\ CaMayAttach(a, kind)
  /\ caRoute' \in CaRoutes(a, kind)
  /\ caAtt' = CaWoken([caAtt EXCEPT ![a].at = stage, ![a].view.live = FALSE])
  /\ UNCHANGED <<caSession, caIndex, caCache, caStray, caCleanup, caWorld>>
CaStageAAttach(a) ==
  /\ caAtt[a].at = "a_attach"
  /\ \/ CaAttach(a, "direct", "register")
     \/ ~CaMayAttach(a, "direct") /\ CaStageAFail(a, CaIdle)

\* register_current, and the attempt returns: the guard is disarmed.
CaRegister(a) ==
  /\ caAtt[a].at = "register"
  /\ caIndex' = IF CaUp THEN [session |-> caAtt[a].id, epoch |-> caAtt[a].view.epoch,
                              caps |-> caRoute.caps] ELSE caIndex
  /\ caAtt' = CaEnd(caAtt, a) /\ caStray' = CaLeave(a)
  /\ UNCHANGED <<caSession, caRoute, caCache, caCleanup, caWorld>>

-----------------------------------------------------------------------------
(* Reuse                                                                   *)

\* The registered epoch is still the one the cache knows, and no hint has
\* announced another.
CaEpochCurrent == caCache.expected = CcNoEpoch /\ caCache.epoch = caIndex.epoch
\* try_reuse_before_control, up to the retirement of an outdated path.
CaReuse(a) ==
  /\ caAtt[a].at = "reuse"
  /\ IF ~(CaConnected /\ CaSupports(a)) THEN CaGo(a, "control")
     ELSE IF /\ caIndex.session = caSession.id /\ CaNeed[a] \subseteq caIndex.caps
             /\ caIndex.epoch # CcNoEpoch /\ CcHas(caCache) /\ ~CaEpochCurrent
       THEN /\ caAtt' = [caAtt EXCEPT ![a].at = "retire", ![a].id = caSession.id]
            /\ UNCHANGED <<caSession, caRoute, caIndex, caCache, caStray, caCleanup, caWorld>>
     ELSE CaReturn(a)
CaRetire(a) ==
  /\ caAtt[a].at = "retire"
  /\ CaFail(caAtt[a].id, [caAtt EXCEPT ![a].at = "control", ![a].id = 0])
  /\ UNCHANGED <<caCache, caStray, caCleanup, caWorld>>

-----------------------------------------------------------------------------
(* Stage B                                                                 *)

\* The control connection may be missing or unusable.
CaControl(a) == caAtt[a].at = "control" /\ (CaGo(a, "b_begin") \/ CaReturn(a))

\* begin_connect: reserve, reuse, refuse, or wait for the reservation of another.
CaBegin(a) ==
  /\ caAtt[a].at = "b_begin"
  /\ \/ CaReserveId(a, [caAtt[a] EXCEPT !.at = "b_resolve", !.guard = TRUE])
     \/ caSession.phase = "claimed" /\ CaReturn(a)
     \/ /\ caSession.phase = "reserved"
        /\ caAtt' = [caAtt EXCEPT ![a].at = "b_wait", ![a].id = caSession.id]
        /\ UNCHANGED <<caSession, caRoute, caIndex, caCache, caStray, caCleanup, caWorld>>
\* The waiting loop: its Notified is armed before it looks.
CaWait(a) ==
  /\ caAtt[a].at = "b_wait"
  /\ IF caSession = [id |-> caAtt[a].id, phase |-> "reserved"] THEN CaGo(a, "b_sleep")
     ELSE IF (caSession.id = caAtt[a].id /\ CaConnected) \/ caAtt[a].again THEN CaReturn(a)
     ELSE /\ caAtt' = [caAtt EXCEPT ![a].at = "b_begin", ![a].again = TRUE, ![a].id = 0]
          /\ UNCHANGED <<caSession, caRoute, caIndex, caCache, caStray, caCleanup, caWorld>>

\* begin_stage_b_transaction.  NotReady is tried once more; anything but Ready
\* fails the session.
CaResolve(a) ==
  /\ caAtt[a].at \in {"b_resolve", "b_again"}
  /\ \/ caAtt[a].at = "b_resolve" /\ CaGo(a, "b_again")
     \/ CaGiveUp(a)
     \/ /\ caAtt' = [caAtt EXCEPT ![a].at = "b_apply", ![a].answer = caPub]
        /\ UNCHANGED <<caSession, caRoute, caIndex, caCache, caStray, caCleanup, caWorld>>

\* take_obsolete: an entry of another epoch leaves the index.
CaTakeObsolete(i) == caIndex.session # 0 /\ caIndex.epoch # CaSnap(i).epoch
\* The Resolve is applied to the cache and the index; a session of the obsolete
\* entry that is still the current one is retired.  Then the Answer task starts,
\* unless the candidates are invalid or the runtime is stopping.
CaApply(a) ==
  LET i == caAtt[a].answer
      stale == CaTakeObsolete(i) /\ caIndex.session = caSession.id /\ caSession.id # caAtt[a].id IN
  /\ caAtt[a].at = "b_apply"
  /\ caCache' \in CcApply(caCache, CaSnap(i))
  /\ caIndex' = IF CaTakeObsolete(i) THEN CaNoEntry ELSE caIndex
  /\ \/ /\ caSession' = IF stale THEN CaNoSession ELSE caSession
        /\ LET next == [caAtt EXCEPT ![a].at = "b_race", ![a].offer = i, ![a].answer = 0,
                          ![a].view = [epoch |-> CaSnap(i).epoch, rev |-> CaSnap(i).rev, live |-> TRUE]]
           IN caAtt' = IF stale THEN CaWoken(next) ELSE next
        /\ UNCHANGED caRoute
     \/ /\ caSession' = IF stale \/ caSession.id = caAtt[a].id THEN CaNoSession ELSE caSession
        /\ caRoute' = IF caRoute.session = caAtt[a].id THEN CaNoRoute ELSE caRoute
        /\ caAtt' = CaWoken(CaEnd(caAtt, a))
  /\ UNCHANGED <<caStray, caCleanup, caWorld>>

\* The Answer of the peer: first the cache takes its snapshot ...
CaAnswer(a) ==
  /\ caAtt[a].offer # 0
  /\ \/ \E i \in caAtt[a].offer..caPub :
          /\ caCache' \in CcApply(caCache, CaSnap(i))
          /\ caAtt' = [caAtt EXCEPT ![a].offer = 0, ![a].answer = i]
     \/ caAtt' = [caAtt EXCEPT ![a].offer = 0] /\ UNCHANGED caCache
  /\ UNCHANGED <<caSession, caRoute, caIndex, caStray, caCleanup, caWorld>>
\* Mutant: a finished attempt still takes an answer.
CaAnswerOpen(a) == TRUE
\* apply_remote_candidates takes nothing once the attempt has ended or its direct
\* window has elapsed.
CaAnswerMayApply(a) == caAtt[a].view.live
\* ... then the attempt, under its lock.
CaAnswerApply(a) ==
  LET s == CaSnap(caAtt[a].answer) IN
  /\ caAtt[a].answer # 0 /\ caAtt[a].at # "b_apply"
  /\ \/ /\ CaAnswerMayApply(a) /\ CcAnswerApplies(caAtt[a].view, s)
        /\ caAtt' = [caAtt EXCEPT ![a].answer = 0, ![a].view.epoch = s.epoch, ![a].view.rev = s.rev]
     \/ caAtt' = [caAtt EXCEPT ![a].answer = 0]
  /\ UNCHANGED <<caSession, caRoute, caIndex, caCache, caStray, caCleanup, caWorld>>
\* The Answer task of an attempt that has returned still feeds the cache.
CaStrayAnswer(o) ==
  /\ o \in caStray /\ caStray' = caStray \ {o}
  /\ \/ \E i \in o..caPub : caCache' \in CcApply(caCache, CaSnap(i))
     \/ UNCHANGED caCache
  /\ UNCHANGED <<caSession, caRoute, caIndex, caAtt, caCleanup, caWorld>>

\* The direct window; without a winner the attempt goes on to the relay if the
\* peer is authorized for it and the gate of Stage C is open.
CaRace(a) ==
  /\ caAtt[a].at = "b_race"
  /\ \/ CaClaim(a, "b_attach")
     \/ /\ caAtt' = [caAtt EXCEPT ![a].at = "c_reserve", ![a].view.live = FALSE]
        /\ UNCHANGED <<caSession, caRoute, caIndex, caCache, caStray, caCleanup, caWorld>>
     \/ CaGiveUp(a)
CaStageBAttach(a) ==
  /\ caAtt[a].at = "b_attach"
  /\ \/ CaAttach(a, "direct", "register")
     \/ ~CaMayAttach(a, "direct") /\ CaGiveUp(a)

-----------------------------------------------------------------------------
(* Stage C                                                                 *)

\* reserve_relay, over whatever control connection there is now.
CaReserve(a) == caAtt[a].at = "c_reserve" /\ (CaGo(a, "c_data") \/ CaGiveUp(a))
\* The data connection and its handshake, which claims the session.
CaRelayData(a) == caAtt[a].at = "c_data" /\ (CaClaim(a, "c_attach") \/ CaGiveUp(a))
CaRelayAttach(a) ==
  /\ caAtt[a].at = "c_attach"
  /\ \/ CaAttach(a, "relay", "register")
     \/ ~CaMayAttach(a, "relay") /\ CaGiveUp(a)

-----------------------------------------------------------------------------
(* Aborts                                                                  *)

\* Mutant: the guard is gone when the attempt is dropped.
CaDropped(a) == {}
\* SessionCleanupGuard::drop
CaGuarded(a) == IF caAtt[a].guard THEN {caAtt[a].id} ELSE {}
\* The overall budget elapses, or the supervisor replaces the attempt.
CaAbort(a) ==
  /\ a \in CaConnects /\ caAtt[a].at # "idle" /\ CaHappens
  /\ caCleanup' = caCleanup \cup CaGuarded(a)
  /\ caOrphans' = IF caAtt[a].owns THEN caOrphans \cup {caAtt[a].id} ELSE caOrphans
  /\ caAtt' = CaEnd(caAtt, a) /\ caStray' = CaLeave(a)
  /\ UNCHANGED <<caSession, caRoute, caIndex, caCache, caIssued, caPub, caHint, caClosing, caQuiet>>
CaCleanUp(i) ==
  /\ i \in caCleanup /\ caCleanup' = caCleanup \ {i} /\ CaFail(i, caAtt)
  /\ UNCHANGED <<caCache, caStray, caWorld>>

-----------------------------------------------------------------------------
(* The rest of the runtime and the peer                                    *)

\* An incoming connection, or the responder's own checks, claims the reservation
\* or makes a session of its own, and publishes its path.
CaInbound ==
  /\ CaHappens
  /\ caSession.phase # "claimed" => caRoute.kind # "direct"
  /\ IF caSession.phase = "reserved"
       THEN caSession' = [caSession EXCEPT !.phase = "claimed"] /\ UNCHANGED caIssued
       ELSE /\ caIssued < CaMaxIds /\ caIssued' = caIssued + 1
            /\ caSession' = [id |-> caIssued + 1, phase |-> "claimed"]
  /\ caRoute' = [kind |-> "direct", session |-> caSession'.id, caps |-> {"message", "stream"}]
  /\ caIndex' = IF caSession.id # 0 /\ caIndex.session = caSession.id /\ caSession'.id # caSession.id
                  THEN CaNoEntry ELSE caIndex
  /\ caAtt' = CaWoken(caAtt)
  /\ UNCHANGED <<caCache, caStray, caCleanup, caPub, caHint, caClosing, caOrphans, caQuiet>>

\* A receiver closes its path; disconnect_peer and close_peer_connection close
\* whatever there is.  All tell the waiters before the session is retired.
CaClosePath ==
  /\ CaHappens /\ caClosing = {}
  /\ \E lost \in BOOLEAN :
       /\ lost => caSession.id # 0 /\ CaUp
       /\ caClosing' = {[id |-> caSession.id, lost |-> lost]}
  /\ caRoute' = CaNoRoute /\ caAtt' = CaWoken(caAtt)
  /\ UNCHANGED <<caSession, caIndex, caCache, caStray, caCleanup, caIssued, caPub, caHint,
                 caOrphans, caQuiet>>
\* Then the very session is retired, after a loss only if it has no path again;
\* nobody is told.
CaCloseSession(c) ==
  LET retire == caSession.id = c.id /\ c.id # 0 /\ (c.lost => ~CaConnected) IN
  /\ caClosing' = caClosing \ {c}
  /\ caSession' = IF retire THEN CaNoSession ELSE caSession
  /\ caIndex' = IF ~c.lost \/ (retire /\ caIndex.session = c.id) THEN CaNoEntry ELSE caIndex
  /\ caQuiet' = IF retire /\ caSession.phase = "reserved" THEN caQuiet \cup {c.id} ELSE caQuiet
  /\ UNCHANGED <<caRoute, caCache, caAtt, caStray, caCleanup, caIssued, caPub, caHint, caOrphans,
                 caSpent>>

\* The peer publishes its next snapshot; the relay sends hints about it, which
\* wait in the event queue.
CaPublish ==
  /\ caPub < Len(CaHistory) /\ caPub' = caPub + 1
  /\ caHint' \in {caHint, caPub + 1}
  /\ UNCHANGED <<caSession, caRoute, caIndex, caCache, caAtt, caStray, caCleanup, caIssued,
                 caClosing, caOrphans, caQuiet, caSpent>>
\* invalidate_remote_candidate_cache_for_epoch
CaTakeHint ==
  /\ caHint # 0 /\ caHint' = 0 /\ caCache' \in CcInvalidate(caCache, CaSnap(caHint).epoch)
  /\ UNCHANGED <<caSession, caRoute, caIndex, caAtt, caStray, caCleanup, caIssued, caPub,
                 caClosing, caOrphans, caQuiet, caSpent>>
\* The entry expires, or it is cleared: another time to live, another network, or
\* the peer is removed.
CaForgetCache ==
  /\ CcHas(caCache) /\ CaHappens /\ caCache' \in {[caCache EXCEPT !.fresh = FALSE], CcNone}
  /\ UNCHANGED <<caSession, caRoute, caIndex, caAtt, caStray, caCleanup, caIssued, caPub, caHint,
                 caClosing, caOrphans, caQuiet>>

CaStep(a) ==
  \/ CaStageASession(a) \/ CaStageABegin(a) \/ CaStageARace(a) \/ CaStageAAttach(a)
  \/ CaRegister(a) \/ CaReuse(a) \/ CaRetire(a) \/ CaControl(a) \/ CaBegin(a) \/ CaWait(a)
  \/ CaResolve(a) \/ CaApply(a) \/ CaRace(a) \/ CaStageBAttach(a) \/ CaReserve(a)
  \/ CaRelayData(a) \/ CaRelayAttach(a)
ConnectAttemptNext ==
  \/ \E a \in CaAttempts : CaStart(a) \/ CaStep(a) \/ CaAnswer(a) \/ CaAnswerApply(a) \/ CaAbort(a)
  \/ \E o \in caStray : CaStrayAnswer(o)
  \/ \E i \in caCleanup : CaCleanUp(i)
  \/ \E c \in caClosing : CaCloseSession(c)
  \/ CaInbound \/ CaClosePath \/ CaPublish \/ CaTakeHint \/ CaForgetCache

\* Every await of an attempt has its own timeout, and spawned tasks run.
ConnectAttemptFairness ==
  /\ \A a \in CaAttempts : WF_caVars(CaStep(a))
  /\ WF_caVars(\E i \in caCleanup : CaCleanUp(i))
ConnectAttemptSpec == ConnectAttemptInit /\ [][ConnectAttemptNext]_caVars /\ ConnectAttemptFairness

-----------------------------------------------------------------------------
(* Properties                                                              *)

ConnectAttemptTypeOK ==
  /\ caSession \in [id : 0..CaMaxIds, phase : {"absent", "reserved", "claimed"}]
  /\ caSession.id = 0 <=> caSession.phase = "absent"
  /\ caRoute.kind \in {"none", "direct", "relay"}
  /\ caIndex.session \in 0..CaMaxIds /\ caPub \in 1..Len(CaHistory) /\ caHint \in 0..caPub
  /\ \A a \in CaAttempts :
       /\ caAtt[a].id \in 0..CaMaxIds /\ caAtt[a].offer \in 0..caPub /\ caAtt[a].answer \in 0..caPub
       /\ caAtt[a].at \in {"idle", "a_session", "a_begin", "a_race", "a_attach", "register", "reuse",
            "retire", "control", "b_begin", "b_wait", "b_sleep", "b_resolve", "b_again", "b_apply",
            "b_race", "b_attach", "c_reserve", "c_data", "c_attach"}
  /\ caStray \subseteq 1..caPub
  /\ caCleanup \cup caOrphans \cup caQuiet \subseteq 1..CaMaxIds
  /\ caClosing \subseteq [id : 0..CaMaxIds, lost : BOOLEAN]

\* A reservation belongs to an attempt that is still running, or to the cleanup of
\* one that was dropped; the one exception is a Stage A aborted while it owns its
\* session (see ReservationHasOwner).
CaOwned(i) == i \in caCleanup \/ \E a \in CaAttempts : caAtt[a].id = i /\ (caAtt[a].owns \/ caAtt[a].guard)
DroppedReservationCleaned ==
  caSession.phase = "reserved" /\ caSession.id \notin caOrphans => CaOwned(caSession.id)

\* Violated.  What the comment on SessionCleanupGuard promises: no aborted attempt leaves its
\* reservation behind to poison the next connect.
ReservationHasOwner == caSession.phase = "reserved" => CaOwned(caSession.id)

\* No wakeup is lost: an attempt sleeps only while the reservation it waits for is
\* the current one.  A close that retires a reservation after its notification is
\* the exception.
SleeperHasWaker ==
  \A a \in CaAttempts : caAtt[a].at = "b_sleep" =>
    caSession = [id |-> caAtt[a].id, phase |-> "reserved"] \/ caAtt[a].id \in caQuiet

\* Whatever the order of Resolves, Answers of earlier attempts and hints: within an
\* epoch the cache takes no older revision, and an epoch it has left, or was told
\* to leave, does not come back while the entry lives.
CacheMovesForward ==
  [][CcHas(caCache) /\ CcHas(caCache') =>
       IF caCache'.epoch = caCache.epoch THEN caCache'.rev >= caCache.rev
       ELSE caCache'.epoch \notin caCache.retired /\ caCache.epoch \in caCache'.retired]_caVars

\* The view an attempt registers its connection under is at least as new as its
\* Offer, and settled once its race has ended.
AttemptViewSettles ==
  [][\A a \in CaAttempts :
       caAtt[a].at = caAtt'[a].at /\ caAtt[a].view # caAtt'[a].view =>
         /\ caAtt[a].view.live
         /\ caAtt[a].view.epoch = caAtt'[a].view.epoch => caAtt[a].view.rev <= caAtt'[a].view.rev]_caVars

\* Every reservation ends: it is claimed or failed, unless Stage A was aborted.
ReservationsEnd == []<>(caSession.phase # "reserved" \/ caSession.id \in caOrphans)

\* Violated.  An authoritative Resolve brings the cache to the newest snapshot.
CaResolved == \E a \in CaAttempts : caAtt[a].at = "b_race" /\ caAtt[a].offer = Len(CaHistory)
ResolveRebuildsCache ==
  CaResolved /\ CcHas(caCache) => caCache.epoch = CaHistory[Len(CaHistory)].epoch
                                  /\ caCache.rev = CaHistory[Len(CaHistory)].rev

\* What is known of the peer only moves forward: in the cache that all attempts share,
\* and in the view each of them registers its connection under.
ViewsMoveForward == CacheMovesForward /\ AttemptViewSettles

\* Someone looks after every reservation, and will wake those who wait for it.
ReservationsWatched ==
  ConnectAttemptTypeOK /\ DroppedReservationCleaned /\ SleeperHasWaker
=============================================================================
