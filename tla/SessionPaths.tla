---------------------------- MODULE SessionPaths ----------------------------
(***************************************************************************)
(* The connection session of one peer and the physical paths under it:     *)
(* session.rs, runtime/admission.rs, runtime/path_{acquire,publish,close}, *)
(* runtime_path_projections.rs, connect/path/*, and the flows that race    *)
(* for them (admit_single_winner, attach_direct_route, the inbound accept  *)
(* loops, disconnect_peer, close_peer_connection).                         *)
(*                                                                         *)
(* A candidate is one authenticated transport connection: outgoing ones    *)
(* carry the session id of their attempt, incoming ones carry none.  Every *)
(* lock section is a step; between two of them anything may happen.        *)
(*                                                                         *)
(* Abstractions.  Session ids, path ids and managers are numbered in the   *)
(* order of creation, which only makes equality visible.  A capability     *)
(* mask is a set.  Of the registry's weak index only `Ready` matters: at   *)
(* most two paths per manager are indexed, so its limit is never met.      *)
(* Streams, transfers and realtime sessions that end with a session are    *)
(* in their own modules; the crypto aliases are the set of session keys.   *)
(***************************************************************************)
EXTENDS Naturals, Sequences, FiniteSets

CONSTANTS
  Outgoing, Incoming,  \* candidates
  CarrierKind,         \* candidate -> "quic", "generic" or "relay"
  Bindings,            \* remote session bindings
  MaxLeases,           \* MAX_PATH_LEASES
  MaxSessionIds,       \* model bound: session ids issued
  MaxEvents            \* model bound: candidates, leases, probes, losses and closes, together

Candidates == Outgoing \cup Incoming
ASSUME SessionPathsAssumption ==
  /\ Outgoing \cap Incoming = {}
  /\ CarrierKind \in [Candidates -> {"quic", "generic", "relay"}] /\ "none" \notin Bindings
  /\ MaxLeases \in Nat \ {0} /\ MaxSessionIds \in Nat /\ MaxEvents \in Nat

Kinds == {"direct", "relay"}
KindOf(c) == IF CarrierKind[c] = "relay" THEN "relay" ELSE "direct"
CarrierCaps(c) == IF CarrierKind[c] = "generic" THEN {"message"} ELSE {"message", "stream"}

VARIABLES
  session,    \* the ConnectionSessionStore's entry for the peer
  issued,     \* number of session ids issued
  keys,       \* sessions whose crypto material is installed
  current,    \* the registered PeerPathManager, 0 when there is none
  managers,   \* every manager made: its slots, its probe, whether it is closed
  paths,      \* every PhysicalPath made
  projected,  \* RuntimePathProjectionStore: kind -> session and path
  cand,       \* candidate -> its flow
  closer,     \* disconnect_peer or close_peer_connection
  lost,       \* paths closed by their receiver and not yet cleaned up
  spent       \* events so far

spVars == <<session, issued, keys, current, managers, paths, projected, cand, closer, lost, spent>>

NoSession == [id |-> 0, binding |-> "none", phase |-> "absent"]
NoProjection == [session |-> 0, path |-> 0]
NoProbe == {}
FreshManager == [direct |-> 0, relay |-> 0, probe |-> NoProbe, closed |-> FALSE]
IdleCand == [at |-> "idle", id |-> 0, owner |-> FALSE, binding |-> "none", armed |-> FALSE,
             replaced |-> 0, manager |-> 0, path |-> 0, seen |-> [k \in Kinds |-> 0]]

SessionPathsInit ==
  /\ session = NoSession /\ issued = 0 /\ keys = {} /\ current = 0 /\ managers = <<>>
  /\ paths = <<>> /\ projected = [k \in Kinds |-> NoProjection]
  /\ cand = [c \in Candidates |-> IdleCand]
  /\ closer = [at |-> "idle", how |-> "none", id |-> 0, manager |-> 0] /\ lost = {} /\ spent = 0

-----------------------------------------------------------------------------
(* PhysicalPath and PeerPathManager                                        *)

\* Mutant: a closed path is closed again.
CloseAgain(ps, S) == [p \in DOMAIN ps |->
  IF p \in S THEN [ps[p] EXCEPT !.state = "closed", !.closes = @ + 1] ELSE ps[p]]
\* close_with_reason: the carrier is taken once.
CloseHard(ps, S) == [p \in DOMAIN ps |->
  IF p \in S /\ ps[p].state # "closed"
    THEN [ps[p] EXCEPT !.state = "closed", !.closes = @ + 1] ELSE ps[p]]
\* retire_normal: the last lease keeps the carrier.
RetireNormal(ps, S) == [p \in DOMAIN ps |->
  IF p \notin S \/ ps[p].state = "closed" THEN ps[p]
  ELSE IF ps[p].leases = 0 THEN [ps[p] EXCEPT !.state = "closed", !.closes = @ + 1]
  ELSE [ps[p] EXCEPT !.state = "draining"]]
\* release_lease
ReleaseOne(ps, p) == [ps EXCEPT ![p].leases = @ - 1,
  ![p].state = IF ps[p].leases = 1 /\ ps[p].state = "draining" THEN "closed" ELSE @,
  ![p].closes = IF ps[p].leases = 1 /\ ps[p].state = "draining" THEN @ + 1 ELSE @]

PathsOf(m) == {p \in DOMAIN paths : paths[p].manager = m}
IsReady(p) == p # 0 /\ paths[p].state = "ready"
\* hard_close: nothing is published in this manager afterwards.
ClosedManager == [FreshManager EXCEPT !.closed = TRUE]

\* A manager that is neither registered nor held by a publisher is dropped, and
\* its Drop closes it hard.
Held(m, cs) == \E c \in cs : cand[c].at \in {"publish", "project"} /\ cand[c].manager = m
LastHolder(c) == current # cand[c].manager /\ ~Held(cand[c].manager, Candidates \ {c})

Happens == spent < MaxEvents /\ spent' = spent + 1

\* select_with_authorization and acquire_with_authorization: direct first.
AcquireLease(need) ==
  LET mg == managers[current]
      Fits(p) == IsReady(p) /\ need \subseteq paths[p].caps
      p == IF Fits(mg.direct) THEN mg.direct ELSE mg.relay IN
  /\ current # 0 /\ Fits(p) /\ paths[p].leases < MaxLeases /\ Happens
  /\ paths' = [paths EXCEPT ![p].leases = @ + 1]
  /\ UNCHANGED <<session, issued, keys, current, managers, projected, cand, closer, lost>>
ReleaseLease(p) ==
  /\ paths[p].leases > 0 /\ paths' = ReleaseOne(paths, p)
  /\ UNCHANGED <<session, issued, keys, current, managers, projected, cand, closer, lost, spent>>

\* arm_direct_probe and finish_direct_probe
ArmProbe(need) ==
  /\ current # 0 /\ Happens /\ managers[current].probe = NoProbe
  /\ ~managers[current].closed
  /\ managers' = [managers EXCEPT ![current].probe = need]
  /\ UNCHANGED <<session, issued, keys, current, paths, projected, cand, closer, lost>>
FinishProbe ==
  /\ current # 0 /\ managers[current].probe # NoProbe
  /\ managers' = [managers EXCEPT ![current].probe = NoProbe]
  /\ UNCHANGED <<session, issued, keys, current, paths, projected, cand, closer, lost, spent>>

\* close_ready_{direct,relay,direct_connection}: the receiver of a path, or an
\* environment change, closes it if the slot still holds it.
LosePath(p) ==
  LET k == paths[p].kind IN
  /\ Happens /\ current # 0 /\ managers[current][k] = p
  /\ paths' = CloseHard(paths, {p})
  /\ managers' = [managers EXCEPT ![current][k] = 0,
                                  ![current].probe = IF k = "direct" THEN NoProbe ELSE @]
  /\ lost' = lost \cup {p}
  /\ UNCHANGED <<session, issued, keys, current, projected, cand, closer>>
\* cleanup_closed_path: only the projection of this very path goes.
CleanupPath(p) ==
  /\ p \in lost /\ lost' = lost \ {p}
  /\ projected' = [k \in Kinds |-> IF projected[k].path = p THEN NoProjection ELSE projected[k]]
  /\ UNCHANGED <<session, issued, keys, current, managers, paths, cand, closer, spent>>

-----------------------------------------------------------------------------
(* Session admission                                                       *)

At(c, stage) == IF stage = "lost" THEN [cand EXCEPT ![c] = [IdleCand EXCEPT !.at = "lost"]]
                ELSE [cand EXCEPT ![c].at = stage]
To(c, stage) == cand' = At(c, stage)
\* notify_path_changed wakes whoever has armed its Notified.
Woken(cs) == [c \in Candidates |-> IF cs[c].at = "wait" THEN [cs[c] EXCEPT !.at = "reserved"]
                                   ELSE [cs[c] EXCEPT !.armed = FALSE]]

\* begin_connect registers a fresh id when the peer has none; the other candidates
\* of the attempt, and a pure direct Stage A, use the current one.
BeginConnect(c) ==
  /\ c \in Outgoing /\ cand[c].at = "idle" /\ Happens
  /\ \/ /\ session.phase = "absent" /\ issued < MaxSessionIds /\ issued' = issued + 1
        /\ session' = [id |-> issued + 1, binding |-> "none", phase |-> "reserved"]
        /\ cand' = [cand EXCEPT ![c].at = "reserved", ![c].id = issued + 1, ![c].owner = TRUE]
     \/ /\ session.phase # "absent" /\ UNCHANGED <<session, issued>>
        /\ cand' = [cand EXCEPT ![c].at = "reserved", ![c].id = session.id]
  /\ UNCHANGED <<keys, current, managers, paths, projected, closer, lost>>
\* An incoming connection has authenticated.
Accept(c) ==
  /\ c \in Incoming /\ cand[c].at = "idle" /\ Happens /\ To(c, "admit")
  /\ UNCHANGED <<session, issued, keys, current, managers, paths, projected, closer, lost>>

\* path_is_connected: an alive projection of the current session.
Connected ==
  \E k \in Kinds : projected[k].path # 0 /\ projected[k].session = session.id
                   /\ paths[projected[k].path].state # "closed"
\* admit_single_winner: the Notified is armed first, then the loser tests.
SingleWinner(c) ==
  /\ cand[c].at = "reserved"
  /\ cand' = IF Connected \/ session.id # cand[c].id THEN At(c, "lost")
             ELSE [cand EXCEPT ![c].at = "admit", ![c].armed = TRUE]
  /\ UNCHANGED <<session, issued, keys, current, managers, paths, projected, closer, lost, spent>>

Taken(binding) == session.binding = binding
\* Mutant: a claimed identity is claimed again.
ClaimTwice(c) == session.phase \in {"reserved", "claimed"}
\* With an expected id only a reservation is claimed; without one too.
ClaimsReserved(c) == session.phase = "reserved"
Replaces(c) == IF c \in Outgoing THEN session.phase = "authenticated" ELSE session.phase # "reserved"

\* admit_authenticated_session of the store, under its write lock.
Admit(c, b) ==
  LET me == cand[c]
      fresh == issued + 1
      Enter(stage, id, old) == [cand EXCEPT ![c].at = stage, ![c].id = id, ![c].binding = b,
                                            ![c].replaced = old, ![c].armed = FALSE] IN
  /\ me.at = "admit"
  /\ IF \/ Taken(b)
        \/ c \in Outgoing /\ (me.id # session.id \/ ~(ClaimsReserved(c) \/ Replaces(c)))
       THEN To(c, "stale") /\ UNCHANGED <<session, issued>>
     ELSE IF ClaimsReserved(c)
       THEN /\ session' = [session EXCEPT !.binding = b, !.phase = "claimed"]
            /\ cand' = Woken(Enter("admitted", session.id, 0))
            /\ UNCHANGED issued
     ELSE /\ issued < MaxSessionIds /\ issued' = fresh
          /\ session' = [id |-> fresh, binding |-> b, phase |-> "claimed"]
          /\ cand' = IF session.phase = "absent" THEN Woken(Enter("admitted", fresh, 0))
                     ELSE Enter("unmap", fresh, session.id)
  /\ UNCHANGED <<keys, current, managers, paths, projected, closer, lost, spent>>

\* path_admission_can_retry: the claim may have been released meanwhile.  The loser
\* then waits for a change, unless one was notified since it armed its Notified.
RetryCheck(c) ==
  /\ cand[c].at = "stale"
  /\ To(c, IF c \in Incoming \/ session.id # cand[c].id \/ session.binding # "none" THEN "lost"
           ELSE IF cand[c].armed THEN "wait" ELSE "reserved")
  /\ UNCHANGED <<session, issued, keys, current, managers, paths, projected, closer, lost, spent>>

\* close_transport_path, for a replaced session: the manager is unregistered ...
Unmap(c) ==
  /\ cand[c].at = "unmap"
  /\ current' = 0 /\ cand' = [cand EXCEPT ![c].at = "displace", ![c].manager = current]
  /\ UNCHANGED <<session, issued, keys, managers, paths, projected, closer, lost, spent>>
\* ... the projections go and the manager is closed hard; cancel_session_tasks
\* then retires the replaced session's keys.
Displace(c) ==
  LET m == cand[c].manager IN
  /\ cand[c].at = "displace"
  /\ projected' = [k \in Kinds |-> NoProjection]
  /\ managers' = IF m = 0 THEN managers ELSE [managers EXCEPT ![m] = ClosedManager]
  /\ paths' = CloseHard(paths, IF m = 0 THEN {} ELSE PathsOf(m))
  /\ keys' = keys \ {cand[c].replaced}
  /\ cand' = Woken([cand EXCEPT ![c].at = "admitted", ![c].manager = 0, ![c].replaced = 0])
  /\ UNCHANGED <<session, issued, current, closer, lost, spent>>

\* release_authenticated_session: only this claim, and only before it is finalized.
Release(c) == IF session.id = cand[c].id /\ session.phase = "claimed" /\ session.binding = cand[c].binding
  THEN [session EXCEPT !.binding = "none", !.phase = "reserved"] ELSE session

\* candidate_supports_required, and finalize_authenticated_session on the
\* responder's side; a candidate that is not current has nothing to release.
Finalize(c) ==
  /\ cand[c].at = "admitted"
  /\ session' = IF c \in Incoming /\ session.id = cand[c].id
                  THEN [session EXCEPT !.phase = "authenticated"] ELSE session
  /\ To(c, IF session.id = cand[c].id THEN "check" ELSE "lost")
  /\ UNCHANGED <<issued, keys, current, managers, paths, projected, closer, lost, spent>>

\* install_admitted_crypto: the session is read, then the material is installed.
InstallCheck(c) ==
  /\ cand[c].at = "check"
  /\ To(c, IF session.id = cand[c].id THEN "install" ELSE "fail")
  /\ UNCHANGED <<session, issued, keys, current, managers, paths, projected, closer, lost, spent>>
InstallCrypto(c) ==
  /\ cand[c].at = "install" /\ keys' = keys \cup {cand[c].id} /\ To(c, "attach")
  /\ UNCHANGED <<session, issued, current, managers, paths, projected, closer, lost, spent>>

-----------------------------------------------------------------------------
(* Publication                                                             *)

Refused(c) == IF c \in Outgoing THEN "discard" ELSE "fail"

\* attach_*_for_session, mark_relay_route_connected: the session must be current.
\* A generic route is refused when a path of its profile is selected already.
Attach(c) ==
  LET selected == IF current # 0 /\ IsReady(managers[current].direct)
                    THEN paths[managers[current].direct].caps ELSE {} IN
  /\ cand[c].at = "attach"
  /\ To(c, IF session.id = cand[c].id /\ ~(CarrierKind[c] = "generic" /\ selected = CarrierCaps(c))
           THEN "manager" ELSE Refused(c))
  /\ UNCHANGED <<session, issued, keys, current, managers, paths, projected, closer, lost, spent>>
\* peer_path_manager: the registered one, or a new one.
FindManager(c) ==
  /\ cand[c].at = "manager"
  /\ managers' = IF current = 0 THEN Append(managers, FreshManager) ELSE managers
  /\ current' = IF current = 0 THEN Len(managers) + 1 ELSE current
  /\ cand' = [cand EXCEPT ![c].at = "publish", ![c].manager = current']
  /\ UNCHANGED <<session, issued, keys, paths, projected, closer, lost, spent>>

\* Mutant: the flag of a hard-closed manager is not looked at.
OpenAlways(mg) == TRUE
MayPublish(mg) == ~mg.closed

\* publish_ready_with_carrier_at: a Ready path wins unless the new one is a strict
\* superset that the active Direct probe needs; then the old one is retired.
Publish(c) ==
  LET m == cand[c].manager  mg == managers[m]  k == KindOf(c)
      old == IF IsReady(mg[k]) THEN mg[k] ELSE 0
      probing == k = "direct" /\ mg.probe # NoProbe
      ok == /\ MayPublish(mg)
            /\ IF old # 0
                 THEN /\ CarrierCaps(c) # paths[old].caps /\ paths[old].caps \subseteq CarrierCaps(c)
                      /\ probing /\ mg.probe \subseteq CarrierCaps(c)
                 ELSE probing => mg.probe \subseteq CarrierCaps(c)
      new == [kind |-> k, caps |-> CarrierCaps(c), session |-> cand[c].id, manager |-> m,
              state |-> "ready", leases |-> 0, closes |-> 0] IN
  /\ cand[c].at = "publish"
  /\ IF ok
       THEN /\ paths' = Append(RetireNormal(paths, {old}), new)
            /\ managers' = [managers EXCEPT ![m][k] = Len(paths) + 1,
                              ![m].probe = IF k = "direct" THEN NoProbe ELSE @]
            /\ cand' = [cand EXCEPT ![c].at = "project", ![c].path = Len(paths) + 1]
       ELSE /\ To(c, Refused(c))
            /\ managers' = IF LastHolder(c) THEN [managers EXCEPT ![m] = ClosedManager] ELSE managers
            /\ paths' = IF LastHolder(c) THEN CloseHard(paths, PathsOf(m)) ELSE paths
  /\ UNCHANGED <<session, issued, keys, current, projected, closer, lost, spent>>

\* replace_topology.  A manager that was unregistered meanwhile goes with its last holder.
Project(c) ==
  LET m == cand[c].manager IN
  /\ cand[c].at = "project"
  /\ projected' = [projected EXCEPT ![KindOf(c)] = [session |-> cand[c].id, path |-> cand[c].path]]
  /\ managers' = IF LastHolder(c) THEN [managers EXCEPT ![m] = ClosedManager] ELSE managers
  /\ paths' = IF LastHolder(c) THEN CloseHard(paths, PathsOf(m)) ELSE paths
  /\ cand' = Woken([cand EXCEPT ![c].at = "recheck"])
  /\ UNCHANGED <<session, issued, keys, current, closer, lost, spent>>
\* After a QUIC path is published the session is read once more.
Recheck(c) ==
  /\ cand[c].at = "recheck"
  /\ To(c, IF CarrierKind[c] # "quic" \/ session.id = cand[c].id THEN "online" ELSE Refused(c))
  /\ UNCHANGED <<session, issued, keys, current, managers, paths, projected, closer, lost, spent>>

\* Mutant: the release is not notified.
DiscardSilently(c) ==
  /\ cand[c].at = "discard"
  /\ keys' = keys \ {cand[c].id} /\ session' = Release(c)
  /\ To(c, IF cand[c].owner THEN "fail" ELSE "lost")
  /\ UNCHANGED <<issued, current, managers, paths, projected, closer, lost, spent>>
\* A refused outgoing route: its keys and its claim go, and the session with it
\* when the attempt made it.
Discard(c) ==
  /\ cand[c].at = "discard"
  /\ keys' = keys \ {cand[c].id} /\ session' = Release(c)
  /\ To(c, IF session' # session THEN "notify" ELSE IF cand[c].owner THEN "fail" ELSE "lost")
  /\ UNCHANGED <<issued, current, managers, paths, projected, closer, lost, spent>>

\* release_claimed_session notifies once the store has released the claim.
NotifyReleased(c) ==
  /\ cand[c].at = "notify"
  /\ cand' = Woken(At(c, IF cand[c].owner THEN "fail" ELSE "lost"))
  /\ UNCHANGED <<session, issued, keys, current, managers, paths, projected, closer, lost, spent>>

-----------------------------------------------------------------------------
(* fail_session                                                            *)

\* close_transport_path_for_session takes a snapshot of the session's handles ...
FailSnapshot(c) ==
  /\ cand[c].at = "fail"
  /\ cand' = [cand EXCEPT ![c].at = IF current = 0 THEN "retire" ELSE "close",
       ![c].manager = current,
       ![c].seen = [k \in Kinds |-> IF projected[k].session = cand[c].id THEN projected[k].path ELSE 0]]
  /\ UNCHANGED <<session, issued, keys, current, managers, paths, projected, closer, lost, spent>>
\* Mutant: the slot is closed whatever path it holds by now.
SlotsFilled(c, m) == {k \in Kinds : cand[c].seen[k] # 0 /\ managers[m][k] # 0}
\* ... closes those that the manager still has in their slots ...
SlotsSeen(c, m) == {k \in Kinds : cand[c].seen[k] # 0 /\ managers[m][k] = cand[c].seen[k]}
FailClose(c) ==
  LET m == cand[c].manager  ks == SlotsSeen(c, m) IN
  /\ cand[c].at = "close"
  /\ paths' = CloseHard(paths, {managers[m][k] : k \in ks})
  /\ managers' = [managers EXCEPT ![m].direct = IF "direct" \in ks THEN 0 ELSE @,
                                  ![m].relay = IF "relay" \in ks THEN 0 ELSE @,
                                  ![m].probe = IF "direct" \in ks THEN NoProbe ELSE @]
  /\ cand' = [cand EXCEPT ![c].at = IF ks = {} THEN "retire" ELSE "unproject"]
  /\ UNCHANGED <<session, issued, keys, current, projected, closer, lost, spent>>
\* ... and removes their projections.
FailUnproject(c) ==
  /\ cand[c].at = "unproject"
  /\ projected' = [k \in Kinds |->
       IF projected[k].session = cand[c].id /\ projected[k].path = cand[c].seen[k]
         THEN NoProjection ELSE projected[k]]
  /\ cand' = Woken([cand EXCEPT ![c].at = "retire"])
  /\ UNCHANGED <<session, issued, keys, current, managers, paths, closer, lost, spent>>
\* retire_session, and cancel_session_tasks if it was the current one.
FailRetire(c) ==
  LET mine == session.id = cand[c].id IN
  /\ cand[c].at = "retire"
  /\ session' = IF mine THEN NoSession ELSE session
  /\ keys' = IF mine THEN keys \ {cand[c].id} ELSE keys
  /\ cand' = IF mine THEN Woken(At(c, "lost")) ELSE At(c, "lost")
  /\ UNCHANGED <<issued, current, managers, paths, projected, closer, lost, spent>>

-----------------------------------------------------------------------------
(* disconnect_peer and close_peer_connection                               *)

CloserKeeps == UNCHANGED <<issued, lost, spent>>
\* disconnect_peer reads the session first, close_peer_connection afterwards.
CloseBegin(how) ==
  /\ closer.at = "idle" /\ Happens /\ closer' = [at |-> "unmap", how |-> how, id |-> session.id, manager |-> 0]
  /\ UNCHANGED <<issued, lost>> /\ UNCHANGED <<session, keys, current, managers, paths, projected, cand>>
CloseUnmap ==
  /\ closer.at = "unmap" /\ current' = 0
  /\ closer' = [closer EXCEPT !.at = "hard", !.manager = current]
  /\ CloserKeeps /\ UNCHANGED <<session, keys, managers, paths, projected, cand>>
CloseHardAll ==
  LET m == closer.manager IN
  /\ closer.at = "hard"
  /\ projected' = [k \in Kinds |-> NoProjection]
  /\ managers' = IF m = 0 THEN managers ELSE [managers EXCEPT ![m] = ClosedManager]
  /\ paths' = CloseHard(paths, IF m = 0 THEN {} ELSE PathsOf(m))
  /\ cand' = Woken(cand)
  /\ closer' = [closer EXCEPT !.at = IF closer.how = "remove" THEN "revoke" ELSE "retire"]
  /\ CloserKeeps /\ UNCHANGED <<session, keys, current>>
\* revoke_peer closes what the index holds, and the manager registered by now is
\* removed once more; it is dropped unless a publisher holds it.
CloseRevoke ==
  LET ready == {p \in DOMAIN paths : paths[p].state = "ready"}
      dropped == current # 0 /\ ~Held(current, Candidates) IN
  /\ closer.at = "revoke" /\ current' = 0
  /\ managers' = IF dropped THEN [managers EXCEPT ![current] = ClosedManager] ELSE managers
  /\ paths' = CloseHard(paths, ready \cup (IF dropped THEN PathsOf(current) ELSE {}))
  /\ closer' = [closer EXCEPT !.at = "retire", !.id = session.id]
  /\ CloserKeeps /\ UNCHANGED <<session, keys, projected, cand>>
CloseRetire ==
  /\ closer.at = "retire"
  /\ session' = IF closer.id # 0 /\ session.id = closer.id THEN NoSession ELSE session
  /\ keys' = keys \ {closer.id}
  /\ cand' = Woken(cand) /\ closer' = [closer EXCEPT !.at = "done"]
  /\ CloserKeeps /\ UNCHANGED <<current, managers, paths, projected>>

-----------------------------------------------------------------------------
CandStep(c) ==
  \/ SingleWinner(c) \/ (\E b \in Bindings : Admit(c, b)) \/ RetryCheck(c) \/ Unmap(c) \/ Displace(c)
  \/ Finalize(c) \/ InstallCheck(c) \/ InstallCrypto(c)
  \/ Attach(c) \/ FindManager(c) \/ Publish(c) \/ Project(c) \/ Recheck(c) \/ Discard(c) \/ NotifyReleased(c)
  \/ FailSnapshot(c) \/ FailClose(c) \/ FailUnproject(c) \/ FailRetire(c)
CloserStep == CloseUnmap \/ CloseHardAll \/ CloseRevoke \/ CloseRetire
PathDemands == {{"message"}, {"message", "stream"}}

SessionPathsNext ==
  \/ \E c \in Candidates : BeginConnect(c) \/ Accept(c) \/ CandStep(c)
  \/ (\E how \in {"disconnect", "remove"} : CloseBegin(how)) \/ CloserStep
  \/ (\E need \in PathDemands : AcquireLease(need) \/ ArmProbe(need)) \/ FinishProbe
  \/ \E p \in DOMAIN paths : ReleaseLease(p) \/ LosePath(p) \/ CleanupPath(p)

SessionPathsSpec == SessionPathsInit /\ [][SessionPathsNext]_spVars

-----------------------------------------------------------------------------
(* Properties                                                              *)

SessionPathsTypeOK ==
  /\ session.phase \in {"absent", "reserved", "claimed", "authenticated"}
  /\ session.id \in 0 .. issued /\ issued <= MaxSessionIds
  /\ (session.phase \in {"absent", "reserved"}) = (session.binding = "none")
  /\ current \in 0 .. Len(managers) /\ keys \subseteq 1 .. issued
  /\ \A p \in DOMAIN paths : paths[p].state \in {"ready", "draining", "closed"}
                             /\ paths[p].leases \in 0 .. MaxLeases
  /\ \A k \in Kinds : projected[k].path \in 0 .. Len(paths)

\* Of the candidates that race for one session id at most one holds it: the others
\* were refused, or let it go before (admit_authenticated_session, release).
Holding == {"admitted", "check", "install", "attach", "manager", "publish", "project", "recheck", "online"}
OneHolder ==
  \A c, d \in Candidates : c # d /\ cand[c].at \in Holding /\ cand[d].at \in Holding
                           => cand[c].id # cand[d].id

\* The carrier of a path is closed exactly when the path is, and once (PhysicalPath).
CarrierClosedOnce ==
  \A p \in DOMAIN paths : paths[p].closes = (IF paths[p].state = "closed" THEN 1 ELSE 0)

\* A path that is Ready sits in the slot of its manager, or was revoked behind the
\* manager's back; a manager that was closed hard has nothing that is not closed.
\* No interleaving of publications, losses and teardown leaks a carrier.
NoLeakedPath ==
  \A p \in DOMAIN paths : LET mg == managers[paths[p].manager] IN
    /\ paths[p].state = "ready" => mg[paths[p].kind] = p
    /\ mg.closed => paths[p].state = "closed"
    /\ paths[p].state # "closed" => current = paths[p].manager \/ Held(paths[p].manager, Candidates)
                                   \/ closer.manager = paths[p].manager
                                   \/ \E c \in Candidates : cand[c].at = "displace" /\ cand[c].manager = paths[p].manager

\* A failed session closes no path of another session (fail_session: "a stale
\* coordinator must only hard-close projections that still belong to its session").
FailureSparesOthers ==
  [][\A c \in Candidates : FailClose(c) =>
       \A p \in DOMAIN paths : paths'[p].state # paths[p].state => paths[p].session = cand[c].id]_spVars

\* A loser sleeps only while the notification of a release is still to come, so it
\* cannot sleep through it (the Notified of admit_single_winner is armed first).
SleeperIsWoken ==
  \A c \in Outgoing : cand[c].at = "wait" => \E d \in Candidates : cand[d].at = "notify"

\* Violated.  Nothing of a session that is gone stays behind once its flows have ended.
Settled == \A c \in Candidates : cand[c].at \in {"idle", "lost", "online"}
NoOrphanKeys == Settled /\ closer.at \in {"idle", "done"} => keys \subseteq {session.id}
NoStalePath ==
  Settled /\ closer.at \in {"idle", "done"} =>
    \A p \in DOMAIN paths : paths[p].state = "ready" => paths[p].session = session.id

\* Of the candidates that race for a session one at most holds it, and every carrier
\* they bring is either reachable through a manager or closed, once.
PathsOwned == SessionPathsTypeOK /\ OneHolder /\ CarrierClosedOnce /\ NoLeakedPath
=============================================================================
