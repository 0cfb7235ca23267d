---------------------------- MODULE PathManager -----------------------------
(***************************************************************************)
(* One PeerPathManager with its physical paths, their leases and the weak  *)
(* registry (connect/path/manager*.rs, physical.rs, registry.rs) under its *)
(* whole interface: SessionPaths uses the part that the runtime calls.     *)
(*                                                                         *)
(* Operations of the manager run under its lock.  Leases are released, and *)
(* paths revoked through the registry, by other threads: a revocation      *)
(* takes the index entries first and closes the paths one by one.          *)
(***************************************************************************)
EXTENDS Naturals, Sequences, FiniteSets

\* PmMasks: the capability masks of the connection profiles
\* (profile_capability_mask), a need being one of them too.
CONSTANTS PmMasks, PmMaxLeases, PmMaxReady, PmMaxPaths
ASSUME PathManagerAssumption ==
  /\ \A m \in PmMasks : m # {}
  /\ PmMaxLeases \in Nat \ {0} /\ PmMaxReady \in Nat \ {0} /\ PmMaxPaths \in Nat

VARIABLES
  pmSlot,     \* kind -> the path in the slot, 0 when there is none
  pmDrains,   \* draining_paths
  pmProbe,    \* direct_probe: generation and required capabilities
  pmGate,     \* "open", "draining" or "closed"
  pmPath,     \* every path made
  pmIndex,    \* paths the registry holds an entry of
  pmRevoking  \* paths a revocation has taken out of the index and not closed yet

pmVars == <<pmSlot, pmDrains, pmProbe, pmGate, pmPath, pmIndex, pmRevoking>>
PmKinds == {"direct", "relay"}
PmIdle == [generation |-> 0, need |-> {}]

PathManagerInit ==
  /\ pmSlot = [k \in PmKinds |-> 0] /\ pmDrains = {} /\ pmProbe = PmIdle /\ pmGate = "open"
  /\ pmPath = <<>> /\ pmIndex = {} /\ pmRevoking = {}

InState(p, st) == p # 0 /\ pmPath[p].state = st

\* close_with_reason, and the carrier's close that follows it.
Shut(ps, S, why) == [p \in DOMAIN ps |->
  IF p \in S /\ ps[p].state # "closed"
    THEN [ps[p] EXCEPT !.state = "closed", !.why = why, !.closes = @ + 1] ELSE ps[p]]
\* Mutant: a retired path is closed under its leases.
RetireUnderLease(ps, S) == Shut(ps, S, "normal")
\* retire_normal
RetirePath(ps, S) == [p \in DOMAIN ps |->
  CASE p \notin S \/ ps[p].state = "closed" -> ps[p]
    [] p \in S /\ ps[p].state # "closed" /\ ps[p].leases > 0 -> [ps[p] EXCEPT !.state = "draining"]
    [] OTHER -> [ps[p] EXCEPT !.state = "closed", !.why = "normal", !.closes = @ + 1]]

\* Mutant: the index entry outlives the path.
KeepIndexed(S) == pmIndex' = pmIndex
\* PathRegistry::remove
Unindex(S) == pmIndex' = pmIndex \ S

\* take_direct and take_relay
TakeSlots(ks) == pmSlot' = [k \in PmKinds |-> IF k \in ks THEN 0 ELSE pmSlot[k]]

\* retire_path on the paths S of some slots: they leave the index, and a normal
\* retirement keeps those that still have a lease.
RetireSlots(ks, why) ==
  LET S == {pmSlot[k] : k \in ks} \ {0}
      after == IF why = "normal" THEN RetirePath(pmPath, S) ELSE Shut(pmPath, S, why) IN
  /\ pmPath' = after /\ Unindex(S) /\ TakeSlots(ks)
  /\ pmDrains' = pmDrains \cup {p \in S : after[p].state = "draining"}

\* Mutant: any better path replaces the Ready one.
Promotes(k, old, caps) == caps # pmPath[old].caps /\ pmPath[old].caps \subseteq caps
\* publish_ready_with_carrier_at: the Ready path wins, unless an active Direct
\* probe needs the strict superset that comes.
Supersedes(k, old, caps) ==
  /\ caps # pmPath[old].caps /\ pmPath[old].caps \subseteq caps
  /\ k = "direct" /\ pmProbe # PmIdle /\ pmProbe.need \subseteq caps
PmPublish(k, caps) ==
  LET old == IF InState(pmSlot[k], "ready") THEN pmSlot[k] ELSE 0
      n == Len(pmPath) + 1
      retired == RetirePath(pmPath, {old}) IN
  /\ n <= PmMaxPaths /\ pmGate = "open"
  /\ IF old # 0 THEN Supersedes(k, old, caps)
     ELSE k = "direct" /\ pmProbe # PmIdle => pmProbe.need \subseteq caps
  /\ Cardinality(pmIndex) < PmMaxReady
  /\ pmPath' = Append(retired, [kind |-> k, caps |-> caps, state |-> "ready", why |-> "none",
                                leases |-> 0, closes |-> 0])
  /\ pmIndex' = (pmIndex \ {old}) \cup {n}
  /\ pmSlot' = [pmSlot EXCEPT ![k] = n]
  /\ pmDrains' = IF old # 0 /\ retired[old].state = "draining" THEN pmDrains \cup {old} ELSE pmDrains
  /\ pmProbe' = IF k = "direct" THEN PmIdle ELSE pmProbe
  /\ UNCHANGED <<pmGate, pmRevoking>>

\* ensure_direct_probe starts a probe or extends the one of the same generation.
EnsureProbe(g, need) ==
  /\ pmGate = "open" /\ (pmProbe = PmIdle \/ pmProbe.generation = g)
  /\ pmProbe' = [generation |-> g, need |-> pmProbe.need \cup need]
  /\ UNCHANGED <<pmSlot, pmDrains, pmGate, pmPath, pmIndex, pmRevoking>>
\* finish_direct_probe
FinishDirectProbe(g) ==
  /\ pmProbe.generation = g /\ pmProbe' = PmIdle
  /\ UNCHANGED <<pmSlot, pmDrains, pmGate, pmPath, pmIndex, pmRevoking>>

\* try_acquire, for acquire_with_authorization (direct first), acquire_relay and
\* the registry's select_compatible_ready_path.
Acquirable(p, need) == InState(p, "ready") /\ need \subseteq pmPath[p].caps
PmAcquire(allowed, need) ==
  LET p == IF "direct" \in allowed /\ Acquirable(pmSlot["direct"], need)
             THEN pmSlot["direct"] ELSE pmSlot["relay"] IN
  /\ p = pmSlot["relay"] => "relay" \in allowed
  /\ Acquirable(p, need) /\ pmPath[p].leases < PmMaxLeases
  /\ pmPath' = [pmPath EXCEPT ![p].leases = @ + 1]
  /\ UNCHANGED <<pmSlot, pmDrains, pmProbe, pmGate, pmIndex, pmRevoking>>
SelectCompatible(p, need) ==
  /\ p \in pmIndex /\ Acquirable(p, need) /\ pmPath[p].leases < PmMaxLeases
  /\ pmPath' = [pmPath EXCEPT ![p].leases = @ + 1]
  /\ UNCHANGED <<pmSlot, pmDrains, pmProbe, pmGate, pmIndex, pmRevoking>>
\* release_lease: the last lease of a draining path closes it.
PmRelease(p) ==
  LET last == pmPath[p].leases = 1 /\ pmPath[p].state = "draining" IN
  /\ pmPath[p].leases > 0
  /\ pmPath' = [(IF last THEN Shut(pmPath, {p}, "normal") ELSE pmPath) EXCEPT ![p].leases = @ - 1]
  /\ UNCHANGED <<pmSlot, pmDrains, pmProbe, pmGate, pmIndex, pmRevoking>>

\* hard_close_{direct,relay}, close_ready_*: one slot.
HardCloseSlot(k) ==
  /\ pmSlot[k] # 0 /\ RetireSlots({k}, "hard")
  /\ pmProbe' = IF k = "direct" THEN PmIdle ELSE pmProbe
  /\ UNCHANGED <<pmGate, pmRevoking>>
\* retire_ephemeral: every Ready path without a lease that has been idle.
RetireEphemeral(ks) ==
  /\ pmGate = "open" /\ ks # {}
  /\ \A k \in ks : InState(pmSlot[k], "ready") /\ pmPath[pmSlot[k]].leases = 0
  /\ RetireSlots(ks, "normal") /\ UNCHANGED <<pmProbe, pmGate, pmRevoking>>
\* normal_drain
NormalDrain ==
  /\ RetireSlots(PmKinds, "normal") /\ pmGate' = IF pmGate = "closed" THEN pmGate ELSE "draining"
  /\ pmProbe' = PmIdle /\ UNCHANGED pmRevoking
\* Mutant: the draining paths are left to their leases.
CloseSlotsOnly(why) ==
  LET S == {pmSlot[k] : k \in PmKinds} \ {0} IN
  pmPath' = Shut(pmPath, S, why) /\ Unindex(S)
CloseEverything(why) ==
  LET S == ({pmSlot[k] : k \in PmKinds} \ {0}) \cup pmDrains IN
  pmPath' = Shut(pmPath, S, why) /\ Unindex(S)
\* hard_close, security_failure, and Drop (the two reasons differ in the carrier's
\* close code only)
HardClose ==
  /\ CloseEverything("hard") /\ pmGate' = "closed" /\ pmProbe' = PmIdle
  /\ TakeSlots(PmKinds) /\ pmDrains' = {} /\ UNCHANGED pmRevoking

\* revoke_peer: the entries are taken under the registry's lock ...
RevokePeer ==
  /\ pmIndex # {} /\ pmIndex' = {} /\ pmRevoking' = pmRevoking \cup pmIndex
  /\ UNCHANGED <<pmSlot, pmDrains, pmProbe, pmGate, pmPath>>
\* ... and closed one after the other behind it.
RevokeOne(p) ==
  /\ p \in pmRevoking /\ pmRevoking' = pmRevoking \ {p}
  /\ pmPath' = Shut(pmPath, {p}, "hard")
  /\ UNCHANGED <<pmSlot, pmDrains, pmProbe, pmGate, pmIndex>>

PathManagerNext ==
  \/ \E k \in PmKinds, caps \in PmMasks : PmPublish(k, caps)
  \/ \E g \in {1, 2} : FinishDirectProbe(g) \/ \E need \in PmMasks : EnsureProbe(g, need)
  \/ \E allowed \in SUBSET PmKinds, need \in PmMasks : PmAcquire(allowed, need)
  \/ \E p \in DOMAIN pmPath : PmRelease(p) \/ RevokeOne(p) \/ \E need \in PmMasks : SelectCompatible(p, need)
  \/ \E k \in PmKinds : HardCloseSlot(k)
  \/ \E ks \in SUBSET PmKinds : RetireEphemeral(ks)
  \/ NormalDrain \/ HardClose \/ RevokePeer
PathManagerSpec == PathManagerInit /\ [][PathManagerNext]_pmVars

-----------------------------------------------------------------------------
(* Properties                                                              *)

PathManagerTypeOK ==
  /\ pmGate \in {"open", "draining", "closed"} /\ pmDrains \subseteq DOMAIN pmPath
  /\ \A k \in PmKinds : pmSlot[k] # 0 => pmPath[pmSlot[k]].kind = k /\ pmSlot[k] \notin pmDrains
  /\ \A p \in DOMAIN pmPath : pmPath[p].state \in {"ready", "draining", "closed"}
                              /\ pmPath[p].leases \in 0 .. PmMaxLeases
  /\ pmIndex \subseteq DOMAIN pmPath /\ Cardinality(pmIndex) <= PmMaxReady

\* A path retired normally serves its leases to the end and no longer: it drains
\* while it has one, is closed with the last, and its carrier is closed once.
RetiredServesLeases ==
  \A p \in DOMAIN pmPath :
    /\ pmPath[p].state = "draining" => pmPath[p].leases > 0
    /\ pmPath[p].why = "normal" => pmPath[p].leases = 0
    /\ pmPath[p].closes = (IF pmPath[p].state = "closed" THEN 1 ELSE 0)

\* Every path that is not closed is reachable for the teardown: a Ready one through
\* its slot, a draining one through draining_paths; after a hard close there is none.
TeardownReachesAll ==
  \A p \in DOMAIN pmPath :
    /\ pmPath[p].state = "ready" => pmSlot[pmPath[p].kind] = p
    /\ pmPath[p].state = "draining" => p \in pmDrains
    /\ pmGate = "closed" => pmPath[p].state = "closed"

\* A borrower that finds its path through the index finds a live one, or one that a
\* revocation in progress has yet to close: no closed path stays indexed.
IndexIsLive == \A p \in pmIndex : pmPath[p].state = "ready" /\ pmSlot[pmPath[p].kind] = p

\* A Ready path is never pushed out by an equivalent or weaker late one: the slot
\* changes hands only to a strict superset.
WinnerStays ==
  [][\A k \in PmKinds : InState(pmSlot[k], "ready") /\ pmSlot'[k] \notin {0, pmSlot[k]} =>
       /\ pmPath[pmSlot[k]].caps \subseteq pmPath'[pmSlot'[k]].caps
       /\ k = "direct" /\ pmProbe.need \subseteq pmPath'[pmSlot'[k]].caps /\ pmProbe # PmIdle]_pmVars

\* A path is served, indexed and torn down by its state: leases keep a retired one to
\* their end, the index names live ones only, and a teardown finds all that is open.
ManagerConsistent ==
  PathManagerTypeOK /\ RetiredServesLeases /\ TeardownReachesAll /\ IndexIsLive
=============================================================================
