---------------------------- MODULE PathsProofs -----------------------------
(***************************************************************************)
(* Safety proofs about PathManager: the paths of a peer, their leases, the *)
(* slots and the registry agree about which path lives, whatever the order *)
(* of publications, retirements, releases and revocations.                 *)
(***************************************************************************)
EXTENDS PathManager, SessionPaths, SequenceTheorems, FiniteSetTheorems, TLAPS

-----------------------------------------------------------------------------
(* The inductive invariant                                                 *)

PmRecords ==
  [kind : PmKinds, caps : PmMasks, state : {"ready", "draining", "closed"},
   why : {"none", "normal", "hard"}, leases : 0 .. PmMaxLeases, closes : {0, 1}]
\* RetiredServesLeases of one path; a reason comes with the close.
RecordOK(r) ==
  /\ r.state = "draining" => r.leases > 0
  /\ r.why = "normal" => r.leases = 0
  /\ r.closes = (IF r.state = "closed" THEN 1 ELSE 0)
  /\ r.why # "none" => r.state = "closed"
RecordsOK(ps) == ps \in Seq(PmRecords) /\ \A p \in DOMAIN ps : RecordOK(ps[p])

\* The slots hold paths of their kind, none of which is handed over to its leases.
SlotsOK ==
  /\ pmSlot \in [PmKinds -> Nat] /\ pmDrains \subseteq DOMAIN pmPath
  /\ \A k \in PmKinds : pmSlot[k] # 0 =>
       pmSlot[k] \in DOMAIN pmPath /\ pmPath[pmSlot[k]].kind = k /\ pmSlot[k] \notin pmDrains
\* What a revocation took out of the index does not come back.
IndexOK ==
  /\ pmIndex \subseteq DOMAIN pmPath /\ Cardinality(pmIndex) <= PmMaxReady
  /\ pmRevoking \subseteq DOMAIN pmPath /\ pmRevoking \cap pmIndex = {}
GateOK == pmGate \in {"open", "draining", "closed"}

PmInv == RecordsOK(pmPath) /\ SlotsOK /\ IndexOK /\ GateOK /\ TeardownReachesAll /\ IndexIsLive

LEMMA PmInvImplies ==
  ASSUME PmInv
  PROVE  ManagerConsistent
<1>1. \A p \in DOMAIN pmPath : pmPath[p] \in PmRecords
  BY ElementOfSeq DEF PmInv, RecordsOK
<1>2. PathManagerTypeOK
  BY <1>1 DEF PmInv, SlotsOK, IndexOK, GateOK, PathManagerTypeOK, PmRecords
<1>3. RetiredServesLeases
  BY DEF PmInv, RecordsOK, RecordOK, RetiredServesLeases
<1> QED
  BY <1>2, <1>3 DEF PmInv, ManagerConsistent

LEMMA PmInvInit == PathManagerInit => PmInv
<1> SUFFICES ASSUME PathManagerInit PROVE PmInv
  OBVIOUS
<1>1. pmPath \in Seq(PmRecords) /\ DOMAIN pmPath = {}
  BY DEF PathManagerInit
<1>2. Cardinality(pmIndex) = 0
  BY FS_EmptySet DEF PathManagerInit
<1>3. IndexOK
  BY <1>1, <1>2, PathManagerAssumption DEF PathManagerInit, IndexOK
<1>4. SlotsOK
  BY <1>1 DEF PathManagerInit, SlotsOK
<1> QED
  BY <1>1, <1>3, <1>4 DEF PathManagerInit, PmInv, RecordsOK, GateOK, TeardownReachesAll, IndexIsLive

-----------------------------------------------------------------------------
(* What happens to the paths                                               *)

\* A function on the indices of a sequence of paths is such a sequence.
LEMMA SameLength ==
  ASSUME NEW ps \in Seq(PmRecords), NEW f, DOMAIN f = DOMAIN ps, f = [p \in DOMAIN f |-> f[p]],
         \A p \in DOMAIN ps : f[p] \in PmRecords
  PROVE  f \in Seq(PmRecords) /\ Len(f) = Len(ps)
<1>1. DOMAIN ps = 1 .. Len(ps) /\ Len(ps) \in Nat
  BY LenProperties
<1>2. f \in [1 .. Len(ps) -> PmRecords]
  BY <1>1
<1>3. f \in Seq(PmRecords)
  BY <1>1, <1>2
<1> QED
  BY <1>1, <1>2, <1>3, LenProperties

\* after is before with the paths of S closed, or draining if they have a lease.
TakenDown(before, after, S) ==
  /\ RecordsOK(after) /\ DOMAIN after = DOMAIN before
  /\ \A p \in DOMAIN before : /\ after[p].kind = before[p].kind /\ after[p].caps = before[p].caps
                              /\ p \notin S => after[p] = before[p]
                              /\ p \in S => after[p].state # "ready"
                              /\ before[p].state = "closed" => after[p] = before[p]

LEMMA ShutEffect ==
  ASSUME NEW ps, RecordsOK(ps), NEW S
  PROVE  /\ TakenDown(ps, Shut(ps, S, "hard"), S)
         /\ \A p \in DOMAIN ps : p \in S => Shut(ps, S, "hard")[p].state = "closed"
<1> DEFINE after == Shut(ps, S, "hard")
<1>1. ps \in Seq(PmRecords) /\ \A p \in DOMAIN ps : ps[p] \in PmRecords /\ RecordOK(ps[p])
  BY ElementOfSeq DEF RecordsOK
<1>2. DOMAIN after = DOMAIN ps /\ after = [p \in DOMAIN after |-> after[p]]
  BY DEF Shut
<1>3. \A p \in DOMAIN ps : after[p] =
        IF p \in S /\ ps[p].state # "closed"
          THEN [ps[p] EXCEPT !.state = "closed", !.why = "hard", !.closes = ps[p].closes + 1] ELSE ps[p]
  BY DEF Shut
<1>4. ASSUME NEW p \in DOMAIN ps
      PROVE  /\ after[p] \in PmRecords /\ RecordOK(after[p])
             /\ after[p].kind = ps[p].kind /\ after[p].caps = ps[p].caps
             /\ p \notin S => after[p] = ps[p]
             /\ p \in S => after[p].state = "closed"
             /\ ps[p].state = "closed" => after[p] = ps[p]
  <2>1. CASE p \in S /\ ps[p].state # "closed"
    <3>1. after[p] = [kind |-> ps[p].kind, caps |-> ps[p].caps, state |-> "closed", why |-> "hard",
                      leases |-> ps[p].leases, closes |-> ps[p].closes + 1]
      BY <1>1, <1>3, <2>1 DEF PmRecords
    <3>2. ps[p].closes = 0
      BY <1>1, <2>1 DEF RecordOK
    <3> QED
      BY <1>1, <2>1, <3>1, <3>2 DEF PmRecords, RecordOK
  <2>2. CASE ~(p \in S /\ ps[p].state # "closed")
    BY <1>1, <1>3, <2>2
  <2> QED
    BY <2>1, <2>2
<1>5. after \in Seq(PmRecords)
  BY <1>1, <1>2, <1>4, SameLength
<1> HIDE DEF after
<1>6. TakenDown(ps, after, S) /\ \A p \in DOMAIN ps : p \in S => after[p].state = "closed"
  BY <1>2, <1>4, <1>5 DEF TakenDown, RecordsOK
<1> QED
  BY <1>6 DEF after

LEMMA RetireEffect ==
  ASSUME NEW ps, RecordsOK(ps), NEW S
  PROVE  TakenDown(ps, RetirePath(ps, S), S)
<1> DEFINE after == RetirePath(ps, S)
<1>1. ps \in Seq(PmRecords) /\ \A p \in DOMAIN ps : ps[p] \in PmRecords /\ RecordOK(ps[p])
  BY ElementOfSeq DEF RecordsOK
<1>2. DOMAIN after = DOMAIN ps /\ after = [p \in DOMAIN after |-> after[p]]
  BY DEF RetirePath
<1>3. ASSUME NEW p \in DOMAIN ps
      PROVE  /\ after[p] \in PmRecords /\ RecordOK(after[p])
             /\ after[p].kind = ps[p].kind /\ after[p].caps = ps[p].caps
             /\ p \notin S => after[p] = ps[p]
             /\ p \in S => after[p].state # "ready"
             /\ ps[p].state = "closed" => after[p] = ps[p]
  <2>1. CASE p \notin S \/ ps[p].state = "closed"
    <3>1. after[p] = ps[p]
      BY <2>1 DEF RetirePath
    <3> QED
      BY <1>1, <2>1, <3>1
  <2>2. CASE p \in S /\ ps[p].state # "closed" /\ ps[p].leases > 0
    <3>1. after[p] = [ps[p] EXCEPT !.state = "draining"]
      BY <2>2 DEF RetirePath
    <3>2. after[p] = [kind |-> ps[p].kind, caps |-> ps[p].caps, state |-> "draining", why |-> ps[p].why,
                      leases |-> ps[p].leases, closes |-> ps[p].closes]
      BY <1>1, <3>1 DEF PmRecords
    <3> QED
      BY <1>1, <2>2, <3>2 DEF PmRecords, RecordOK
  <2>3. CASE p \in S /\ ps[p].state # "closed" /\ ~(ps[p].leases > 0)
    <3>1. after[p] = [ps[p] EXCEPT !.state = "closed", !.why = "normal", !.closes = ps[p].closes + 1]
      BY <2>3 DEF RetirePath
    <3>2. after[p] = [kind |-> ps[p].kind, caps |-> ps[p].caps, state |-> "closed", why |-> "normal",
                      leases |-> ps[p].leases, closes |-> ps[p].closes + 1]
      BY <1>1, <3>1 DEF PmRecords
    <3>3. ps[p].closes = 0 /\ ps[p].leases = 0
      BY <1>1, <2>3 DEF PmRecords, RecordOK
    <3> QED
      BY <1>1, <2>3, <3>2, <3>3 DEF PmRecords, RecordOK
  <2> QED
    BY <2>1, <2>2, <2>3
<1>4. after \in Seq(PmRecords)
  BY <1>1, <1>2, <1>3, SameLength
<1> HIDE DEF after
<1>5. TakenDown(ps, after, S)
  BY <1>2, <1>3, <1>4 DEF TakenDown, RecordsOK
<1> QED
  BY <1>5 DEF after

\* The indices of the paths, and which of them the slots name.
LEMMA PmFacts ==
  ASSUME PmInv
  PROVE  /\ pmPath \in Seq(PmRecords) /\ Len(pmPath) \in Nat /\ DOMAIN pmPath = 1 .. Len(pmPath)
         /\ 0 \notin DOMAIN pmPath
         /\ \A p \in DOMAIN pmPath : pmPath[p] \in PmRecords /\ RecordOK(pmPath[p])
         /\ IsFiniteSet(pmIndex) /\ Cardinality(pmIndex) \in Nat
<1>1. pmPath \in Seq(PmRecords) /\ \A p \in DOMAIN pmPath : RecordOK(pmPath[p])
  BY DEF PmInv, RecordsOK
<1>2. Len(pmPath) \in Nat /\ DOMAIN pmPath = 1 .. Len(pmPath)
  BY <1>1, LenProperties
<1>3. \A p \in DOMAIN pmPath : pmPath[p] \in PmRecords
  BY <1>1, <1>2, ElementOfSeq
<1>4. IsFiniteSet(pmIndex) /\ Cardinality(pmIndex) \in Nat
  <2>1. IsFiniteSet(1 .. Len(pmPath))
    BY <1>2, FS_Interval
  <2>2. pmIndex \in SUBSET (1 .. Len(pmPath))
    BY <1>2 DEF PmInv, IndexOK
  <2>3. IsFiniteSet(pmIndex)
    BY <2>1, <2>2, FS_Subset
  <2> QED
    BY <2>3, FS_CardinalityType
<1> QED
  BY <1>1, <1>2, <1>3, <1>4

\* Taking paths out of the index keeps its limit.
LEMMA IndexShrinks ==
  ASSUME PmInv, pmIndex' \subseteq pmIndex
  PROVE  Cardinality(pmIndex') <= PmMaxReady
<1>1. Cardinality(pmIndex') <= Cardinality(pmIndex) /\ Cardinality(pmIndex') \in Nat
  BY PmFacts, FS_Subset, FS_CardinalityType
<1> QED
  BY <1>1, PmFacts, PathManagerAssumption DEF PmInv, IndexOK

\* retire_path on some slots, whether the paths drain or are closed at once.
LEMMA SlotsTakenDown ==
  ASSUME PmInv, NEW ks \in SUBSET PmKinds, NEW S, S = {pmSlot[k] : k \in ks} \ {0},
         TakenDown(pmPath, pmPath', S), pmIndex' = pmIndex \ S, TakeSlots(ks),
         pmDrains' = pmDrains \cup {p \in S : pmPath'[p].state = "draining"},
         pmRevoking' = pmRevoking, GateOK', pmGate' = "closed" => pmGate = "closed"
  PROVE  PmInv'
<1>1. /\ RecordsOK(pmPath') /\ DOMAIN pmPath' = DOMAIN pmPath
      /\ \A p \in DOMAIN pmPath :
           /\ pmPath'[p].kind = pmPath[p].kind /\ pmPath'[p].caps = pmPath[p].caps
           /\ p \notin S => pmPath'[p] = pmPath[p]
           /\ p \in S => pmPath'[p].state # "ready"
           /\ pmPath[p].state = "closed" => pmPath'[p] = pmPath[p]
  BY DEF TakenDown
<1>2. \A k \in PmKinds : pmSlot'[k] = IF k \in ks THEN 0 ELSE pmSlot[k]
  BY DEF TakeSlots
<1>3. pmSlot \in [PmKinds -> Nat] /\ S \subseteq DOMAIN pmPath
  BY DEF PmInv, SlotsOK
<1>4. \A k \in PmKinds \ ks : pmSlot[k] # 0 => pmSlot[k] \notin S
  BY <1>3 DEF PmInv, SlotsOK
<1>5. SlotsOK'
  <2>1. pmSlot' \in [PmKinds -> Nat]
    BY <1>3 DEF TakeSlots
  <2>2. pmDrains' \subseteq DOMAIN pmPath'
    BY <1>1, <1>3 DEF PmInv, SlotsOK
  <2>3. ASSUME NEW k \in PmKinds, pmSlot'[k] # 0
        PROVE  pmSlot'[k] \in DOMAIN pmPath' /\ pmPath'[pmSlot'[k]].kind = k /\ pmSlot'[k] \notin pmDrains'
    BY <1>1, <1>2, <1>4, <2>3 DEF PmInv, SlotsOK
  <2> QED
    BY <2>1, <2>2, <2>3 DEF SlotsOK
<1>6. IndexOK'
  BY <1>1, IndexShrinks DEF PmInv, IndexOK
<1>7. \A p \in DOMAIN pmPath : pmPath'[p].state = "ready" => p \notin S /\ pmSlot'[pmPath'[p].kind] = p
  <2> SUFFICES ASSUME NEW p \in DOMAIN pmPath, pmPath'[p].state = "ready"
               PROVE  p \notin S /\ pmSlot'[pmPath'[p].kind] = p
    OBVIOUS
  <2>1. p \notin S /\ pmPath'[p] = pmPath[p] /\ pmSlot[pmPath[p].kind] = p /\ pmPath[p].kind \in PmKinds
    BY <1>1, PmFacts DEF PmInv, TeardownReachesAll, PmRecords
  <2>2. pmPath[p].kind \notin ks
    BY <2>1, PmFacts
  <2> QED
    BY <1>2, <2>1, <2>2
<1>8. TeardownReachesAll'
  <2>1. \A p \in DOMAIN pmPath : pmPath'[p].state = "draining" => p \in pmDrains'
    BY <1>1 DEF PmInv, TeardownReachesAll
  <2>2. \A p \in DOMAIN pmPath : pmGate' = "closed" => pmPath'[p].state = "closed"
    BY <1>1 DEF PmInv, TeardownReachesAll
  <2> QED
    BY <1>1, <1>7, <2>1, <2>2 DEF TeardownReachesAll
<1>9. IndexIsLive'
  BY <1>1, <1>7 DEF PmInv, IndexIsLive, IndexOK
<1> QED
  BY <1>1, <1>5, <1>6, <1>8, <1>9 DEF PmInv

LEMMA RetireSlotsKeeps ==
  ASSUME PmInv, NEW ks \in SUBSET PmKinds, NEW why \in {"normal", "hard"}, RetireSlots(ks, why),
         pmRevoking' = pmRevoking, GateOK', pmGate' = "closed" => pmGate = "closed"
  PROVE  PmInv'
<1> DEFINE S == {pmSlot[k] : k \in ks} \ {0}
<1>1. /\ pmPath' = IF why = "normal" THEN RetirePath(pmPath, S) ELSE Shut(pmPath, S, why)
      /\ pmIndex' = pmIndex \ S /\ TakeSlots(ks)
      /\ pmDrains' = pmDrains \cup {p \in S : pmPath'[p].state = "draining"}
  BY DEF RetireSlots, Unindex
<1>2. TakenDown(pmPath, pmPath', S)
  BY <1>1, ShutEffect, RetireEffect DEF PmInv
<1> QED
  BY <1>1, <1>2, SlotsTakenDown

\* A step that changes leases, probes or the gate only.
LEMMA LeasesKeep ==
  ASSUME PmInv, UNCHANGED <<pmSlot, pmDrains, pmIndex, pmRevoking>>, GateOK',
         RecordsOK(pmPath'), DOMAIN pmPath' = DOMAIN pmPath, pmGate' = "closed" => pmGate = "closed",
         \A p \in DOMAIN pmPath : /\ pmPath'[p].kind = pmPath[p].kind
                                  /\ \/ pmPath'[p].state = pmPath[p].state
                                     \/ pmPath'[p].state = "closed" /\ p \notin pmIndex
  PROVE  PmInv'
<1>1. SlotsOK' /\ IndexOK'
  BY DEF PmInv, SlotsOK, IndexOK
<1>2. TeardownReachesAll' /\ IndexIsLive'
  BY DEF PmInv, TeardownReachesAll, IndexIsLive, IndexOK
<1> QED
  BY <1>1, <1>2 DEF PmInv

LEMMA BorrowKeeps ==
  ASSUME PmInv, NEW p \in DOMAIN pmPath, pmPath[p].state = "ready", pmPath[p].leases < PmMaxLeases,
         pmPath' = [pmPath EXCEPT ![p].leases = @ + 1],
         UNCHANGED <<pmSlot, pmDrains, pmProbe, pmGate, pmIndex, pmRevoking>>
  PROVE  PmInv'
<1> DEFINE r == [pmPath[p] EXCEPT !.leases = pmPath[p].leases + 1]
<1>1. pmPath[p] \in PmRecords /\ RecordOK(pmPath[p])
  BY PmFacts
<1>2. r = [kind |-> pmPath[p].kind, caps |-> pmPath[p].caps, state |-> "ready", why |-> pmPath[p].why,
           leases |-> pmPath[p].leases + 1, closes |-> pmPath[p].closes]
  BY <1>1 DEF PmRecords
<1>3. r \in PmRecords /\ RecordOK(r) /\ r.kind = pmPath[p].kind /\ r.state = "ready"
  BY <1>1, <1>2, PathManagerAssumption DEF PmRecords, RecordOK
<1>4. pmPath' = [pmPath EXCEPT ![p] = r]
  OBVIOUS
<1> HIDE DEF r
<1>5. /\ DOMAIN pmPath' = DOMAIN pmPath /\ pmPath'[p] = r
      /\ \A q \in DOMAIN pmPath \ {p} : pmPath'[q] = pmPath[q]
  BY <1>4
<1>6. RecordsOK(pmPath')
  <2>1. pmPath' \in Seq(PmRecords)
    BY <1>3, <1>4, PmFacts, ExceptSeq
  <2> QED
    BY <1>3, <1>5, <2>1, PmFacts DEF RecordsOK
<1> QED
  BY <1>3, <1>5, <1>6, LeasesKeep DEF PmInv, GateOK

LEMMA ReleaseKeeps ==
  ASSUME PmInv, NEW p \in DOMAIN pmPath, PmRelease(p)
  PROVE  PmInv'
<1> DEFINE last == pmPath[p].leases = 1 /\ pmPath[p].state = "draining"
           base == IF last THEN Shut(pmPath, {p}, "normal") ELSE pmPath
<1>1. pmPath[p] \in PmRecords /\ RecordOK(pmPath[p]) /\ pmPath[p].leases > 0
  BY PmFacts DEF PmRelease
<1>2. /\ pmPath' = [base EXCEPT ![p].leases = @ - 1]
      /\ UNCHANGED <<pmSlot, pmDrains, pmProbe, pmGate, pmIndex, pmRevoking>>
  BY DEF PmRelease
<1>3. DOMAIN base = DOMAIN pmPath /\ \A q \in DOMAIN pmPath \ {p} : base[q] = pmPath[q]
  BY DEF Shut
<1>4. base[p] = [kind |-> pmPath[p].kind, caps |-> pmPath[p].caps,
                 state |-> IF last THEN "closed" ELSE pmPath[p].state,
                 why |-> IF last THEN "normal" ELSE pmPath[p].why,
                 leases |-> pmPath[p].leases,
                 closes |-> IF last THEN pmPath[p].closes + 1 ELSE pmPath[p].closes]
  <2>1. CASE last
    <3>1. base[p] = [pmPath[p] EXCEPT !.state = "closed", !.why = "normal", !.closes = pmPath[p].closes + 1]
      BY <2>1 DEF Shut
    <3> QED
      BY <1>1, <2>1, <3>1 DEF PmRecords
  <2>2. CASE ~last
    BY <1>1, <2>2 DEF PmRecords
  <2> QED
    BY <2>1, <2>2
<1>5. /\ DOMAIN pmPath' = DOMAIN pmPath /\ \A q \in DOMAIN pmPath \ {p} : pmPath'[q] = pmPath[q]
      /\ pmPath'[p] = [base[p] EXCEPT !.leases = base[p].leases - 1]
      /\ pmPath' = [q \in DOMAIN pmPath' |-> pmPath'[q]]
  <2> HIDE DEF base
  <2> QED
    BY <1>2, <1>3
<1>6. pmPath'[p] = [kind |-> pmPath[p].kind, caps |-> pmPath[p].caps,
                    state |-> IF last THEN "closed" ELSE pmPath[p].state,
                    why |-> IF last THEN "normal" ELSE pmPath[p].why,
                    leases |-> pmPath[p].leases - 1,
                    closes |-> IF last THEN pmPath[p].closes + 1 ELSE pmPath[p].closes]
  <2> HIDE DEF base
  <2> QED
    BY <1>4, <1>5
<1>7. pmPath'[p] \in PmRecords /\ RecordOK(pmPath'[p])
  <2>1. CASE last
    BY <1>1, <1>6, <2>1, PathManagerAssumption DEF PmRecords, RecordOK
  <2>2. CASE ~last
    BY <1>1, <1>6, <2>2, PathManagerAssumption DEF PmRecords, RecordOK
  <2> QED
    BY <2>1, <2>2
<1>8. RecordsOK(pmPath')
  <2>1. \A q \in DOMAIN pmPath : pmPath'[q] \in PmRecords /\ RecordOK(pmPath'[q])
    BY <1>5, <1>7, PmFacts
  <2>2. pmPath' \in Seq(PmRecords)
    BY <1>5, <2>1, PmFacts, SameLength
  <2> QED
    BY <1>5, <2>1, <2>2 DEF RecordsOK
<1>9. /\ pmPath'[p].kind = pmPath[p].kind
      /\ pmPath'[p].state = pmPath[p].state \/ (pmPath'[p].state = "closed" /\ p \notin pmIndex)
  <2>1. last => p \notin pmIndex
    BY DEF PmInv, IndexIsLive
  <2> QED
    BY <1>6, <2>1
<1> QED
  BY <1>2, <1>5, <1>8, <1>9, LeasesKeep DEF PmInv, GateOK

\* The winner of a race takes the slot and the loser is retired behind it.
LEMMA PublishKeeps ==
  ASSUME PmInv, NEW k \in PmKinds, NEW caps \in PmMasks, PmPublish(k, caps)
  PROVE  PmInv'
<1> DEFINE old == IF InState(pmSlot[k], "ready") THEN pmSlot[k] ELSE 0
           n == Len(pmPath) + 1
           retired == RetirePath(pmPath, {old})
           new == [kind |-> k, caps |-> caps, state |-> "ready", why |-> "none", leases |-> 0, closes |-> 0]
<1>1. /\ pmGate = "open" /\ UNCHANGED <<pmGate, pmRevoking>> /\ Cardinality(pmIndex) < PmMaxReady
      /\ pmPath' = Append(retired, new) /\ pmIndex' = (pmIndex \ {old}) \cup {n}
      /\ pmSlot' = [pmSlot EXCEPT ![k] = n]
      /\ pmDrains' = IF old # 0 /\ retired[old].state = "draining" THEN pmDrains \cup {old} ELSE pmDrains
  BY DEF PmPublish
<1>2. /\ RecordsOK(retired) /\ DOMAIN retired = DOMAIN pmPath
      /\ \A p \in DOMAIN pmPath :
           /\ retired[p].kind = pmPath[p].kind
           /\ p # old => retired[p] = pmPath[p]
           /\ p = old => retired[p].state # "ready"
  BY RetireEffect DEF TakenDown, PmInv
<1>3. /\ old # 0 => old \in DOMAIN pmPath /\ pmSlot[k] = old /\ pmPath[old].kind = k /\ old \notin pmDrains
      /\ pmSlot[k] # old => old = 0 /\ (pmSlot[k] # 0 => pmPath[pmSlot[k]].state # "ready")
  BY DEF InState, PmInv, SlotsOK
<1>4. /\ n \in Nat /\ n # 0 /\ n \notin DOMAIN pmPath /\ DOMAIN pmPath = 1 .. Len(pmPath)
      /\ pmSlot \in [PmKinds -> Nat]
  BY PmFacts DEF PmInv, SlotsOK
<1>5. new \in PmRecords /\ RecordOK(new)
  BY PathManagerAssumption DEF PmRecords, RecordOK
<1>6. retired \in Seq(PmRecords) /\ Len(retired) = Len(pmPath)
  <2>1. retired \in Seq(PmRecords)
    BY <1>2 DEF RecordsOK
  <2>2. DOMAIN retired = 1 .. Len(retired) /\ Len(retired) \in Nat
    BY <2>1, LenProperties
  <2> QED
    BY <1>2, <2>1, <2>2, PmFacts
<1> HIDE DEF old, retired, new
<1>7. /\ pmPath' \in Seq(PmRecords) /\ Len(pmPath') = n /\ DOMAIN pmPath' = DOMAIN pmPath \cup {n}
      /\ pmPath'[n] = new /\ \A p \in DOMAIN pmPath : pmPath'[p] = retired[p]
  <2>1. /\ pmPath' \in Seq(PmRecords) /\ Len(pmPath') = Len(retired) + 1
        /\ \A i \in 1 .. Len(retired) : pmPath'[i] = retired[i]
        /\ pmPath'[Len(retired) + 1] = new
    BY <1>1, <1>5, <1>6, AppendProperties
  <2>2. DOMAIN pmPath' = 1 .. Len(pmPath')
    BY <2>1, LenProperties
  <2> QED
    BY <1>4, <1>6, <2>1, <2>2, PmFacts
<1>8. RecordsOK(pmPath')
  BY <1>2, <1>5, <1>7 DEF RecordsOK
<1> HIDE DEF n
<1>9. new.kind = k /\ new.state = "ready"
  BY DEF new
<1>10. pmSlot'[k] = n /\ \A j \in PmKinds \ {k} : pmSlot'[j] = pmSlot[j]
  BY <1>1, <1>4
<1>11. pmDrains' \subseteq pmDrains \cup {old} /\ (old = 0 => pmDrains' = pmDrains)
  BY <1>1
<1>12. SlotsOK'
  <2>1. pmSlot' \in [PmKinds -> Nat]
    BY <1>1, <1>4
  <2>2. pmDrains \subseteq DOMAIN pmPath /\ pmDrains' \subseteq DOMAIN pmPath
    BY <1>3, <1>11 DEF PmInv, SlotsOK
  <2>3. ASSUME NEW j \in PmKinds, pmSlot'[j] # 0
        PROVE  pmSlot'[j] \in DOMAIN pmPath' /\ pmPath'[pmSlot'[j]].kind = j /\ pmSlot'[j] \notin pmDrains'
    <3>1. CASE j = k
      BY <1>4, <1>7, <1>9, <1>10, <2>2, <3>1
    <3>2. CASE j # k
      <4>1. pmSlot'[j] = pmSlot[j] /\ pmSlot[j] \in DOMAIN pmPath /\ pmPath[pmSlot[j]].kind = j /\ pmSlot[j] \notin pmDrains
        BY <1>10, <2>3, <3>2 DEF PmInv, SlotsOK
      <4>2. pmSlot[j] # old
        BY <1>3, <3>2, <4>1, PmFacts
      <4> QED
        BY <1>2, <1>7, <1>11, <4>1, <4>2
    <3> QED
      BY <3>1, <3>2
  <2> QED
    BY <1>7, <2>1, <2>2, <2>3 DEF SlotsOK
<1>13. IndexOK'
  <2>1. IsFiniteSet(pmIndex \ {old}) /\ Cardinality(pmIndex \ {old}) <= Cardinality(pmIndex)
        /\ Cardinality(pmIndex \ {old}) \in Nat
    BY PmFacts, FS_Subset, FS_CardinalityType
  <2>2. Cardinality(pmIndex') <= Cardinality(pmIndex \ {old}) + 1 /\ Cardinality(pmIndex') \in Nat
    <3>1. /\ IsFiniteSet((pmIndex \ {old}) \cup {n})
          /\ \/ Cardinality((pmIndex \ {old}) \cup {n}) = Cardinality(pmIndex \ {old})
             \/ Cardinality((pmIndex \ {old}) \cup {n}) = Cardinality(pmIndex \ {old}) + 1
      BY <2>1, FS_AddElement
    <3> QED
      BY <1>1, <2>1, <3>1
  <2>3. Cardinality(pmIndex') <= PmMaxReady
    BY <1>1, <2>1, <2>2, PmFacts, PathManagerAssumption
  <2>4. pmIndex' \subseteq DOMAIN pmPath' /\ pmRevoking' \subseteq DOMAIN pmPath' /\ pmRevoking' \cap pmIndex' = {}
    BY <1>1, <1>4, <1>7 DEF PmInv, IndexOK
  <2> QED
    BY <2>3, <2>4 DEF IndexOK
<1>14. \A p \in DOMAIN pmPath' : pmPath'[p].state = "ready" => pmSlot'[pmPath'[p].kind] = p
  <2> SUFFICES ASSUME NEW p \in DOMAIN pmPath, pmPath'[p].state = "ready"
               PROVE  pmSlot'[pmPath'[p].kind] = p
    BY <1>7, <1>9, <1>10
  <2>1. p # old /\ pmPath'[p] = pmPath[p] /\ pmPath[p].kind \in PmKinds
    BY <1>2, <1>7, PmFacts DEF PmRecords
  <2>2. pmSlot[pmPath[p].kind] = p
    BY <2>1 DEF PmInv, TeardownReachesAll
  <2>3. pmPath[p].kind # k
    BY <1>3, <2>1, <2>2, PmFacts
  <2> QED
    BY <1>10, <2>1, <2>2, <2>3
<1>15. TeardownReachesAll'
  <2>1. ASSUME NEW p \in DOMAIN pmPath', pmPath'[p].state = "draining" PROVE p \in pmDrains'
    <3>1. p \in DOMAIN pmPath /\ pmPath'[p] = retired[p]
      BY <1>7, <1>9, <2>1
    <3>2. CASE p = old
      BY <1>1, <2>1, <3>1, <3>2, PmFacts
    <3>3. CASE p # old
      BY <1>1, <1>2, <2>1, <3>1, <3>3 DEF PmInv, TeardownReachesAll
    <3> QED
      BY <3>2, <3>3
  <2> QED
    BY <1>1, <1>14, <2>1 DEF TeardownReachesAll
<1>16. IndexIsLive'
  <2> SUFFICES ASSUME NEW p \in pmIndex' PROVE pmPath'[p].state = "ready" /\ p \in DOMAIN pmPath'
    BY <1>14 DEF IndexIsLive
  <2>1. CASE p = n
    BY <1>7, <1>9, <2>1
  <2>2. CASE p # n
    BY <1>1, <1>2, <1>7, <2>2 DEF PmInv, IndexIsLive, IndexOK
  <2> QED
    BY <2>1, <2>2
<1> QED
  BY <1>1, <1>8, <1>12, <1>13, <1>15, <1>16 DEF PmInv, GateOK

\* The teardown closes every path that is not closed yet.
LEMMA HardCloseKeeps ==
  ASSUME PmInv, HardClose
  PROVE  PmInv'
<1> DEFINE S == ({pmSlot[k] : k \in PmKinds} \ {0}) \cup pmDrains
<1>1. /\ pmPath' = Shut(pmPath, S, "hard") /\ pmIndex' = pmIndex \ S /\ pmGate' = "closed"
      /\ TakeSlots(PmKinds) /\ pmDrains' = {} /\ pmRevoking' = pmRevoking
  BY DEF HardClose, CloseEverything, Unindex
<1>2. TakenDown(pmPath, pmPath', S) /\ \A p \in DOMAIN pmPath : p \in S => pmPath'[p].state = "closed"
  BY <1>1, ShutEffect DEF PmInv
<1>3. \A p \in DOMAIN pmPath : p \notin S => pmPath[p].state = "closed"
  BY PmFacts DEF PmInv, TeardownReachesAll, PmRecords
<1>4. \A p \in DOMAIN pmPath' : pmPath'[p].state = "closed"
  BY <1>2, <1>3 DEF TakenDown
<1>5. pmIndex' = {}
  BY <1>1, <1>3 DEF PmInv, IndexIsLive, IndexOK
<1>6. SlotsOK'
  BY <1>1 DEF SlotsOK, TakeSlots
<1>7. IndexOK'
  <2>1. Cardinality(pmIndex') <= PmMaxReady
    BY <1>5, IndexShrinks
  <2> QED
    BY <1>1, <1>2, <1>5, <2>1 DEF PmInv, IndexOK, TakenDown
<1>8. TeardownReachesAll' /\ IndexIsLive'
  BY <1>4, <1>5 DEF TeardownReachesAll, IndexIsLive
<1>9. RecordsOK(pmPath') /\ GateOK'
  BY <1>1, <1>2 DEF TakenDown, GateOK
<1> QED
  BY <1>6, <1>7, <1>8, <1>9 DEF PmInv

LEMMA RevokeKeeps ==
  ASSUME PmInv, RevokePeer \/ \E p \in DOMAIN pmPath : RevokeOne(p)
  PROVE  PmInv'
<1>1. CASE RevokePeer
  <2>1. /\ pmIndex' = {} /\ pmRevoking' = pmRevoking \cup pmIndex
        /\ UNCHANGED <<pmSlot, pmDrains, pmGate, pmPath>>
    BY <1>1 DEF RevokePeer
  <2>2. IndexOK'
    BY <2>1, IndexShrinks DEF PmInv, IndexOK
  <2> QED
    BY <2>1, <2>2 DEF PmInv, SlotsOK, GateOK, TeardownReachesAll, IndexIsLive
<1>2. ASSUME NEW p \in DOMAIN pmPath, RevokeOne(p) PROVE PmInv'
  <2>1. /\ p \in pmRevoking /\ pmRevoking' = pmRevoking \ {p} /\ pmPath' = Shut(pmPath, {p}, "hard")
        /\ UNCHANGED <<pmSlot, pmDrains, pmGate, pmIndex>>
    BY <1>2 DEF RevokeOne
  <2>2. TakenDown(pmPath, pmPath', {p}) /\ pmPath'[p].state = "closed"
    BY <2>1, ShutEffect DEF PmInv
  <2>3. p \notin pmIndex
    BY <2>1 DEF PmInv, IndexOK
  <2>4. SlotsOK' /\ IndexOK' /\ GateOK'
    BY <2>1, <2>2 DEF PmInv, SlotsOK, IndexOK, TakenDown, GateOK
  <2>5. TeardownReachesAll'
    <3>1. \A q \in DOMAIN pmPath' : q \in DOMAIN pmPath /\ (q # p => pmPath'[q] = pmPath[q])
      BY <2>2 DEF TakenDown
    <3> QED
      BY <2>1, <2>2, <3>1 DEF PmInv, TeardownReachesAll
  <2>6. IndexIsLive'
    <3>1. \A q \in pmIndex : pmPath'[q] = pmPath[q]
      BY <2>2, <2>3 DEF TakenDown, PmInv, IndexOK
    <3> QED
      BY <2>1, <3>1 DEF PmInv, IndexIsLive
  <2> QED
    BY <2>2, <2>4, <2>5, <2>6 DEF PmInv, TakenDown
<1> QED
  BY <1>1, <1>2

LEMMA PmInvStep ==
  ASSUME PmInv, [PathManagerNext]_pmVars
  PROVE  PmInv'
<1>1. ASSUME NEW g, FinishDirectProbe(g) \/ \E need \in PmMasks : EnsureProbe(g, need) PROVE PmInv'
  <2>1. UNCHANGED <<pmSlot, pmDrains, pmGate, pmPath, pmIndex, pmRevoking>>
    BY <1>1 DEF FinishDirectProbe, EnsureProbe
  <2> QED
    BY <2>1, LeasesKeep DEF PmInv, GateOK
<1>2. ASSUME NEW allowed \in SUBSET PmKinds, NEW need \in PmMasks, PmAcquire(allowed, need) PROVE PmInv'
  <2>1. PICK p \in {pmSlot["direct"], pmSlot["relay"]} :
          /\ InState(p, "ready") /\ pmPath[p].leases < PmMaxLeases
          /\ pmPath' = [pmPath EXCEPT ![p].leases = @ + 1]
          /\ UNCHANGED <<pmSlot, pmDrains, pmProbe, pmGate, pmIndex, pmRevoking>>
    BY <1>2 DEF PmAcquire, Acquirable
  <2>2. p \in DOMAIN pmPath /\ pmPath[p].state = "ready"
    BY <2>1 DEF InState, PmInv, SlotsOK, PmKinds
  <2> QED
    BY <2>1, <2>2, BorrowKeeps
<1>3. ASSUME NEW p \in DOMAIN pmPath, NEW need \in PmMasks, SelectCompatible(p, need) PROVE PmInv'
  BY <1>3, BorrowKeeps DEF SelectCompatible, Acquirable, InState
<1>4. ASSUME NEW k \in PmKinds, HardCloseSlot(k) PROVE PmInv'
  BY <1>4, RetireSlotsKeeps DEF HardCloseSlot, PmInv, GateOK
<1>5. ASSUME NEW ks \in SUBSET PmKinds, RetireEphemeral(ks) PROVE PmInv'
  BY <1>5, RetireSlotsKeeps DEF RetireEphemeral, PmInv, GateOK
<1>6. ASSUME NormalDrain PROVE PmInv'
  BY <1>6, RetireSlotsKeeps DEF NormalDrain, PmInv, GateOK
<1>7. CASE UNCHANGED pmVars
  BY <1>7, LeasesKeep DEF pmVars, PmInv, GateOK
<1> QED
  BY <1>1, <1>2, <1>3, <1>4, <1>5, <1>6, <1>7, PublishKeeps, ReleaseKeeps, HardCloseKeeps, RevokeKeeps
  DEF PathManagerNext

\* Whatever publications, probes, retirements, lease releases, revocations and
\* teardowns of one peer interleave: a retired path serves its leases to the end and
\* is closed once, a teardown reaches everything that is still open, and the
\* registry indexes live paths only and not more than it may.
THEOREM ManagerStaysConsistent == PathManagerSpec => []ManagerConsistent
<1>1. PmInv /\ [PathManagerNext]_pmVars => PmInv'
  BY PmInvStep
<1>2. PmInv => ManagerConsistent
  BY PmInvImplies
<1> QED
  BY <1>1, <1>2, PmInvInit, PTL DEF PathManagerSpec

\* Whoever comes late with no more than the Ready path offers does not get its slot:
\* only a publication fills a slot, and over a Ready path it needs a probe that asks
\* for the strict superset it brings.
THEOREM ReadyPathStays == PathManagerSpec => WinnerStays
<1> DEFINE Stays == \A k \in PmKinds : InState(pmSlot[k], "ready") /\ pmSlot'[k] \notin {0, pmSlot[k]} =>
             /\ pmPath[pmSlot[k]].caps \subseteq pmPath'[pmSlot'[k]].caps
             /\ k = "direct" /\ pmProbe.need \subseteq pmPath'[pmSlot'[k]].caps /\ pmProbe # PmIdle
<1>1. ASSUME PmInv, PathManagerNext PROVE Stays
  <2>1. ASSUME NEW j \in PmKinds, NEW caps \in PmMasks, PmPublish(j, caps) PROVE Stays
    <3> SUFFICES ASSUME NEW k \in PmKinds, InState(pmSlot[k], "ready"), pmSlot'[k] \notin {0, pmSlot[k]}
                 PROVE  /\ pmPath[pmSlot[k]].caps \subseteq pmPath'[pmSlot'[k]].caps
                        /\ k = "direct" /\ pmProbe.need \subseteq pmPath'[pmSlot'[k]].caps /\ pmProbe # PmIdle
      OBVIOUS
    <3> DEFINE n == Len(pmPath) + 1
               new == [kind |-> j, caps |-> caps, state |-> "ready", why |-> "none",
                       leases |-> 0, closes |-> 0]
    <3>1. pmSlot \in [PmKinds -> Nat]
      BY <1>1 DEF PmInv, SlotsOK
    <3>2. k = j /\ pmSlot'[k] = n
      <4>1. pmSlot' = [pmSlot EXCEPT ![j] = n]
        BY <2>1 DEF PmPublish
      <4> QED
        BY <3>1, <4>1
    <3>3. pmSlot[k] # 0 /\ Supersedes(k, pmSlot[k], caps)
      <4>1. pmSlot[k] # 0
        BY DEF InState
      <4> QED
        BY <2>1, <3>2, <4>1 DEF PmPublish
    <3>4. pmPath' = Append(RetirePath(pmPath, {pmSlot[k]}), new)
      BY <2>1, <3>2 DEF PmPublish
    <3>5. /\ RetirePath(pmPath, {pmSlot[k]}) \in Seq(PmRecords)
          /\ DOMAIN RetirePath(pmPath, {pmSlot[k]}) = DOMAIN pmPath
      BY <1>1, RetireEffect DEF TakenDown, PmInv, RecordsOK
    <3>6. Len(RetirePath(pmPath, {pmSlot[k]})) = Len(pmPath)
      <4>1. /\ DOMAIN RetirePath(pmPath, {pmSlot[k]}) = 1 .. Len(RetirePath(pmPath, {pmSlot[k]}))
            /\ Len(RetirePath(pmPath, {pmSlot[k]})) \in Nat
        BY <3>5, LenProperties
      <4> QED
        BY <1>1, <3>5, <4>1, PmFacts
    <3>7. new \in PmRecords
      BY PathManagerAssumption DEF PmRecords
    <3> HIDE DEF new
    <3>8. pmPath'[n] = new
      BY <3>4, <3>5, <3>6, <3>7, AppendProperties
    <3>9. pmPath'[pmSlot'[k]].caps = caps
      BY <3>2, <3>8 DEF new
    <3> QED
      BY <3>3, <3>9 DEF Supersedes
  <2>2. ASSUME \A k \in PmKinds : pmSlot'[k] \in {0, pmSlot[k]} PROVE Stays
    BY <2>2
  <2>3. ASSUME NEW ks, TakeSlots(ks) PROVE Stays
    BY <2>2, <2>3 DEF TakeSlots
  <2>4. ASSUME UNCHANGED pmSlot PROVE Stays
    BY <2>2, <2>4
  <2> HIDE DEF Stays
  <2>5. ASSUME \E g \in {1, 2} : FinishDirectProbe(g) \/ \E need \in PmMasks : EnsureProbe(g, need) PROVE Stays
    BY <2>4, <2>5 DEF FinishDirectProbe, EnsureProbe
  <2>6. ASSUME \E allowed \in SUBSET PmKinds, need \in PmMasks : PmAcquire(allowed, need) PROVE Stays
    BY <2>4, <2>6 DEF PmAcquire
  <2>7. ASSUME NEW p \in DOMAIN pmPath,
               PmRelease(p) \/ RevokeOne(p) \/ \E need \in PmMasks : SelectCompatible(p, need) PROVE Stays
    BY <2>4, <2>7 DEF PmRelease, RevokeOne, SelectCompatible
  <2>8. ASSUME \E k \in PmKinds : HardCloseSlot(k) PROVE Stays
    BY <2>3, <2>8 DEF HardCloseSlot, RetireSlots
  <2>9. ASSUME \E ks \in SUBSET PmKinds : RetireEphemeral(ks) PROVE Stays
    BY <2>3, <2>9 DEF RetireEphemeral, RetireSlots
  <2>10. ASSUME NormalDrain \/ HardClose PROVE Stays
    BY <2>3, <2>10 DEF NormalDrain, HardClose, RetireSlots
  <2>11. ASSUME RevokePeer PROVE Stays
    BY <2>4, <2>11 DEF RevokePeer
  <2> QED
    BY <1>1, <2>1, <2>5, <2>6, <2>7, <2>8, <2>9, <2>10, <2>11 DEF PathManagerNext
<1>2. PmInv /\ [PathManagerNext]_pmVars => PmInv'
  BY PmInvStep
<1>3. PmInv /\ [PathManagerNext]_pmVars => [Stays]_pmVars
  BY <1>1
<1> QED
  BY <1>2, <1>3, PmInvInit, PTL DEF PathManagerSpec, WinnerStays
-----------------------------------------------------------------------------
(* SessionPaths: the session of a peer                                     *)

SpCaps == {"message", "stream"}
SpStages == Holding \cup {"idle", "lost", "reserved", "admit", "stale", "wait", "unmap", "displace",
                          "discard", "notify", "fail", "close", "unproject", "retire"}
SpCands == [at : SpStages, id : Nat, owner : BOOLEAN, binding : Bindings \cup {"none"}, armed : BOOLEAN,
            replaced : Nat, manager : Nat, path : Nat, seen : [Kinds -> Nat]]
\* From its admission to the moment it lets the session go, a candidate is the only
\* one that acts for its session id.
SpHolders == Holding \cup {"unmap", "displace", "discard"}
SpNamed == SpHolders \cup {"notify", "fail", "close", "unproject", "retire"}
SpWaiting == {"reserved", "admit", "stale", "wait"}

SessOK ==
  /\ session \in [id : Nat, binding : Bindings \cup {"none"},
                  phase : {"absent", "reserved", "claimed", "authenticated"}]
  /\ issued \in Nat /\ issued <= MaxSessionIds /\ session.id <= issued
  /\ (session.phase \in {"absent", "reserved"}) = (session.binding = "none")
  /\ (session.phase = "absent") = (session.id = 0)
  /\ keys \subseteq 1 .. issued
CandOK ==
  /\ cand \in [Candidates -> SpCands]
  /\ \A c \in Candidates : cand[c].id <= issued /\ (cand[c].at \in SpNamed => cand[c].id # 0)
  /\ \A c \in Outgoing : cand[c].at \in SpWaiting => cand[c].id # 0
HoldersOK ==
  /\ \A c, d \in Candidates : c # d /\ cand[c].at \in SpHolders /\ cand[d].at \in SpHolders
                              => cand[c].id # cand[d].id
  /\ session.phase = "reserved" => \A c \in Candidates : cand[c].at \in SpHolders => cand[c].id # session.id
\* Somebody who lost the session to a claim that is released meanwhile finds the
\* notification still to come, or has seen it.
SleepOK ==
  \A c \in Outgoing :
    \/ cand[c].at = "wait"
    \/ cand[c].at = "stale" /\ cand[c].armed /\ session.id = cand[c].id /\ session.binding = "none"
    => \E d \in Candidates : cand[d].at = "notify"
SessInv == SessOK /\ CandOK /\ HoldersOK /\ SleepOK

\* Managers, paths and projections.
SpPathRecords ==
  [kind : Kinds, caps : SUBSET SpCaps, session : Nat, manager : Nat,
   state : {"ready", "draining", "closed"}, leases : 0 .. MaxLeases, closes : {0, 1}]
SpManagers == [direct : Nat, relay : Nat, probe : SUBSET SpCaps, closed : BOOLEAN]
SpClosers ==
  [at : {"idle", "unmap", "hard", "revoke", "retire", "done"}, how : {"none", "disconnect", "remove"}, id : Nat,
   manager : Nat]
ManagersOK ==
  /\ managers \in Seq(SpManagers) /\ current \in 0 .. Len(managers) /\ closer \in SpClosers
  /\ closer.manager \in 0 .. Len(managers) /\ (closer.at \in {"idle", "unmap"} => closer.manager = 0)
  /\ \A m \in DOMAIN managers : managers[m].direct \in 0 .. Len(paths) /\ managers[m].relay \in 0 .. Len(paths)
SpPathsOK ==
  /\ paths \in Seq(SpPathRecords) /\ CarrierClosedOnce /\ NoLeakedPath
  /\ \A p \in DOMAIN paths : paths[p].manager \in DOMAIN managers
\* What a session shows, and what its failure takes down, are paths made for it.
ProjectionsOK ==
  /\ projected \in [Kinds -> [session : Nat, path : Nat]]
  /\ \A k \in Kinds : projected[k].path # 0 =>
       projected[k].path \in DOMAIN paths /\ paths[projected[k].path].session = projected[k].session
\* What a candidate remembers of managers and paths is still there.
LinkOK(r) ==
  /\ r.at \in {"publish", "project", "close"} => r.manager \in DOMAIN managers
  /\ r.at = "displace" => r.manager \in 0 .. Len(managers)
  /\ r.at = "project" => r.path \in DOMAIN paths /\ paths[r.path].session = r.id
  /\ r.at \in {"close", "unproject"} =>
       \A k \in Kinds : r.seen[k] # 0 => r.seen[k] \in DOMAIN paths /\ paths[r.seen[k]].session = r.id
LinksOK == \A c \in Candidates : LinkOK(cand[c])
PathInv == ManagersOK /\ SpPathsOK /\ ProjectionsOK /\ LinksOK
SpInv == SessInv /\ PathInv

-----------------------------------------------------------------------------
(* What a step of one candidate does to the others                         *)

\* s is r, or what a notification makes of it.
Nudged(r, s) ==
  /\ s.id = r.id /\ s.binding = r.binding /\ s.manager = r.manager /\ s.path = r.path /\ s.seen = r.seen
  /\ s.at = r.at \/ (r.at = "wait" /\ s.at = "reserved")
  /\ s.armed => r.armed
\* Only c moves on by itself.
OnlyMoves(c) ==
  /\ cand' \in [Candidates -> SpCands]
  /\ \A d \in Candidates \ {c} : Nudged(cand[d], cand'[d])

LEMMA WokenNudges ==
  ASSUME NEW cs \in [Candidates -> SpCands]
  PROVE  /\ Woken(cs) \in [Candidates -> SpCands]
         /\ \A c \in Candidates : /\ Nudged(cs[c], Woken(cs)[c]) /\ Woken(cs)[c].at # "wait"
                                  /\ Woken(cs)[c].at = "stale" => ~Woken(cs)[c].armed
<1>1. ASSUME NEW c \in Candidates
      PROVE  /\ Woken(cs)[c] \in SpCands /\ Nudged(cs[c], Woken(cs)[c]) /\ Woken(cs)[c].at # "wait"
             /\ Woken(cs)[c].at = "stale" => ~Woken(cs)[c].armed
  <2>1. cs[c] \in SpCands
    OBVIOUS
  <2>2. CASE cs[c].at = "wait"
    <3>1. Woken(cs)[c] = [cs[c] EXCEPT !.at = "reserved"]
      BY <2>2 DEF Woken
    <3>2. Woken(cs)[c] = [at |-> "reserved", id |-> cs[c].id, owner |-> cs[c].owner, binding |-> cs[c].binding,
                          armed |-> cs[c].armed, replaced |-> cs[c].replaced, manager |-> cs[c].manager,
                          path |-> cs[c].path, seen |-> cs[c].seen]
      BY <2>1, <3>1 DEF SpCands
    <3> QED
      BY <2>1, <2>2, <3>2 DEF SpCands, Nudged, SpStages
  <2>3. CASE cs[c].at # "wait"
    <3>1. Woken(cs)[c] = [cs[c] EXCEPT !.armed = FALSE]
      BY <2>3 DEF Woken
    <3>2. Woken(cs)[c] = [at |-> cs[c].at, id |-> cs[c].id, owner |-> cs[c].owner, binding |-> cs[c].binding,
                          armed |-> FALSE, replaced |-> cs[c].replaced, manager |-> cs[c].manager,
                          path |-> cs[c].path, seen |-> cs[c].seen]
      BY <2>1, <3>1 DEF SpCands
    <3> QED
      BY <2>1, <2>3, <3>2 DEF SpCands, Nudged
  <2> QED
    BY <2>2, <2>3
<1>2. Woken(cs) = [c \in Candidates |-> Woken(cs)[c]]
  BY DEF Woken
<1> QED
  BY <1>1, <1>2

LEMMA NudgedSelf == \A r : Nudged(r, r)
BY DEF Nudged

\* A step that writes the record of one candidate, and perhaps wakes the others.
LEMMA WriteMoves ==
  ASSUME NEW c \in Candidates, cand \in [Candidates -> SpCands], NEW r \in SpCands,
         cand' = [cand EXCEPT ![c] = r] \/ cand' = Woken([cand EXCEPT ![c] = r])
  PROVE  OnlyMoves(c) /\ Nudged(r, cand'[c])
<1> DEFINE cs == [cand EXCEPT ![c] = r]
<1>1. cs \in [Candidates -> SpCands] /\ cs[c] = r /\ \A d \in Candidates \ {c} : cs[d] = cand[d]
  OBVIOUS
<1> HIDE DEF cs
<1>2. CASE cand' = cs
  BY <1>1, <1>2, NudgedSelf DEF OnlyMoves
<1>3. CASE cand' = Woken(cs)
  BY <1>1, <1>3, WokenNudges DEF OnlyMoves
<1> QED
  BY <1>2, <1>3 DEF cs

LEMMA IdleCandType == IdleCand \in SpCands /\ [IdleCand EXCEPT !.at = "lost"] \in SpCands
                      /\ [IdleCand EXCEPT !.at = "lost"].id = 0 /\ [IdleCand EXCEPT !.at = "lost"].at = "lost"
BY DEF IdleCand, SpCands, SpStages

\* To(c, stage)
LEMMA ToMoves ==
  ASSUME NEW c \in Candidates, cand \in [Candidates -> SpCands], NEW stage \in SpStages \ {"wait"},
         To(c, stage) \/ cand' = Woken(At(c, stage))
  PROVE  /\ OnlyMoves(c) /\ cand'[c].at = stage
         /\ stage = "lost" => cand'[c].id = 0
         /\ stage # "lost" => /\ cand'[c].id = cand[c].id /\ cand'[c].binding = cand[c].binding
                              /\ cand'[c].manager = cand[c].manager
                              /\ cand'[c].path = cand[c].path /\ cand'[c].seen = cand[c].seen
<1>1. CASE stage = "lost"
  <2>1. At(c, stage) = [cand EXCEPT ![c] = [IdleCand EXCEPT !.at = "lost"]]
    BY <1>1 DEF At
  <2>2. OnlyMoves(c) /\ Nudged([IdleCand EXCEPT !.at = "lost"], cand'[c])
    BY <2>1, IdleCandType, WriteMoves DEF To
  <2> QED
    BY <1>1, <2>2, IdleCandType DEF Nudged
<1>2. CASE stage # "lost"
  <2> DEFINE r == [cand[c] EXCEPT !.at = stage]
  <2>1. cand[c] \in SpCands
    OBVIOUS
  <2>2. r = [at |-> stage, id |-> cand[c].id, owner |-> cand[c].owner, binding |-> cand[c].binding,
             armed |-> cand[c].armed, replaced |-> cand[c].replaced, manager |-> cand[c].manager,
             path |-> cand[c].path, seen |-> cand[c].seen]
    BY <2>1 DEF SpCands
  <2>3. r \in SpCands
    BY <2>1, <2>2 DEF SpCands
  <2>4. At(c, stage) = [cand EXCEPT ![c] = r]
    BY <1>2 DEF At
  <2>5. r.at = stage /\ r.id = cand[c].id /\ r.binding = cand[c].binding /\ r.manager = cand[c].manager
        /\ r.path = cand[c].path /\ r.seen = cand[c].seen
    BY <2>2
  <2> HIDE DEF r
  <2>6. OnlyMoves(c) /\ Nudged(r, cand'[c])
    BY <2>3, <2>4, WriteMoves DEF To
  <2> QED
    BY <1>2, <2>5, <2>6 DEF Nudged
<1> QED
  BY <1>1, <1>2

\* A candidate moves on without touching the session.
LEMMA QuietKeeps ==
  ASSUME SessInv, NEW c \in Candidates, OnlyMoves(c), UNCHANGED <<session, issued>>,
         keys' \subseteq keys \cup ({cand[c].id} \ {0}),
         cand'[c].id = cand[c].id \/ (cand'[c].id = 0 /\ cand'[c].at = "lost"),
         cand'[c].at \in SpHolders => cand[c].at \in SpHolders,
         cand'[c].at \in SpNamed => cand[c].at \in SpNamed,
         cand'[c].at \in SpWaiting => cand[c].at \in SpWaiting,
         cand'[c].at \notin {"wait", "stale"}, cand[c].at # "notify"
  PROVE  SessInv'
<1> USE DEF SessInv, OnlyMoves
<1>1. "lost" \notin SpNamed /\ "lost" \notin SpWaiting /\ "lost" \notin SpHolders /\ SpHolders \subseteq SpNamed
      /\ "wait" \notin SpNamed /\ "reserved" \notin SpNamed /\ "notify" \notin SpHolders
  BY DEF SpNamed, SpWaiting, SpHolders, Holding
<1>2. \A d \in Candidates : cand[d].id \in Nat /\ cand'[d].id \in Nat
  BY DEF CandOK, SpCands
<1>3. \A d \in Candidates : /\ cand'[d].id = cand[d].id \/ (cand'[d].id = 0 /\ cand'[d].at = "lost")
                            /\ cand'[d].at \in SpHolders => cand[d].at \in SpHolders
                            /\ cand'[d].at \in SpNamed => cand[d].at \in SpNamed
                            /\ cand'[d].at \in SpWaiting => cand[d].at \in SpWaiting
  <2> TAKE d \in Candidates
  <2>1. CASE d = c
    BY <2>1
  <2>2. CASE d # c
    <3>1. Nudged(cand[d], cand'[d])
      BY <2>2
    <3>2. "wait" \in SpWaiting
      BY DEF SpWaiting
    <3> QED
      BY <1>1, <3>1, <3>2 DEF Nudged
  <2> QED
    BY <2>1, <2>2
<1>4. SessOK'
  <2>1. keys' \subseteq 1 .. issued
    BY <1>2 DEF SessOK, CandOK
  <2> QED
    BY <2>1 DEF SessOK
<1>5. CandOK'
  <2>1. \A d \in Candidates : cand'[d].id <= issued /\ (cand'[d].at \in SpNamed => cand'[d].id # 0)
    BY <1>1, <1>3 DEF CandOK, SessOK
  <2>2. \A d \in Outgoing : cand'[d].at \in SpWaiting => cand'[d].id # 0
    BY <1>1, <1>3 DEF CandOK, Candidates
  <2> QED
    BY <2>1, <2>2 DEF CandOK
<1>6. HoldersOK'
  BY <1>1, <1>3 DEF HoldersOK
<1>7. SleepOK'
  <2> SUFFICES ASSUME NEW d \in Outgoing,
                      \/ cand'[d].at = "wait"
                      \/ /\ cand'[d].at = "stale" /\ cand'[d].armed
                         /\ session.id = cand'[d].id /\ session.binding = "none"
               PROVE  \E e \in Candidates : cand'[e].at = "notify"
    BY DEF SleepOK
  <2>1. d \in Candidates /\ d # c /\ Nudged(cand[d], cand'[d])
    BY DEF Candidates
  <2>2. PICK e \in Candidates : cand[e].at = "notify"
    BY <2>1 DEF SleepOK, Nudged
  <2>3. e # c /\ Nudged(cand[e], cand'[e])
    BY <2>2
  <2> QED
    BY <2>2, <2>3 DEF Nudged
<1> QED
  BY <1>4, <1>5, <1>6, <1>7

LEMMA EditMoves ==
  ASSUME NEW c \in Candidates, NEW cs \in [Candidates -> SpCands], \A d \in Candidates \ {c} : cs[d] = cand[d],
         cand' = cs \/ cand' = Woken(cs)
  PROVE  OnlyMoves(c) /\ Nudged(cs[c], cand'[c])
<1>1. CASE cand' = cs
  BY <1>1, NudgedSelf DEF OnlyMoves
<1>2. CASE cand' = Woken(cs)
  BY <1>2, WokenNudges DEF OnlyMoves
<1> QED
  BY <1>1, <1>2

\* The steps of a candidate that leave the session alone.
LEMMA QuietSteps ==
  ASSUME SessInv, NEW c \in Candidates,
         \/ SingleWinner(c) \/ Unmap(c) \/ Displace(c) \/ InstallCheck(c) \/ InstallCrypto(c)
         \/ Attach(c) \/ FindManager(c) \/ Publish(c) \/ Project(c) \/ Recheck(c)
         \/ FailSnapshot(c) \/ FailClose(c) \/ FailUnproject(c),
         managers \in Seq(SpManagers), current \in 0 .. Len(managers), paths \in Seq(SpPathRecords),
         projected \in [Kinds -> [session : Nat, path : Nat]]
  PROVE  SessInv'
<1> USE DEF SpNamed, SpHolders, SpWaiting, Holding
<1>1. cand \in [Candidates -> SpCands] /\ cand[c] \in SpCands
  BY DEF SessInv, CandOK
<1>2. Refused(c) \in {"discard", "fail"} /\ {"discard", "fail"} \subseteq SpStages
  BY DEF Refused, SpStages
<1>3. Len(managers) \in Nat /\ Len(paths) \in Nat /\ current \in Nat
  BY LenProperties
<1>4. CASE SingleWinner(c)
  <2>1. cand[c].at = "reserved" /\ UNCHANGED <<session, issued, keys>>
    BY <1>4 DEF SingleWinner
  <2>2. CASE cand' = At(c, "lost")
    <3>1. OnlyMoves(c) /\ cand'[c].at = "lost" /\ cand'[c].id = 0
      BY <1>1, <2>2, ToMoves DEF To, SpStages
    <3> QED
      BY <2>1, <3>1, QuietKeeps
  <2>3. CASE cand' = [cand EXCEPT ![c].at = "admit", ![c].armed = TRUE]
    <3> DEFINE cs == [cand EXCEPT ![c].at = "admit", ![c].armed = TRUE]
    <3>1. cs \in [Candidates -> SpCands] /\ cs[c].at = "admit" /\ cs[c].id = cand[c].id
          /\ \A d \in Candidates \ {c} : cs[d] = cand[d]
      BY <1>1 DEF SpCands, SpStages
    <3> HIDE DEF cs
    <3>2. OnlyMoves(c) /\ Nudged(cs[c], cand'[c])
      BY <2>3, <3>1, EditMoves DEF cs
    <3>3. cand'[c].at = "admit" /\ cand'[c].id = cand[c].id
      BY <3>1, <3>2 DEF Nudged
    <3> QED
      BY <2>1, <3>2, <3>3, QuietKeeps
  <2> QED
    BY <1>4, <2>2, <2>3 DEF SingleWinner
<1>5. CASE Unmap(c)
  <2> DEFINE cs == [cand EXCEPT ![c].at = "displace", ![c].manager = current]
  <2>1. cs \in [Candidates -> SpCands] /\ cs[c].at = "displace" /\ cs[c].id = cand[c].id
        /\ \A d \in Candidates \ {c} : cs[d] = cand[d]
    BY <1>1, <1>3 DEF SpCands, SpStages
  <2>2. cand[c].at = "unmap" /\ UNCHANGED <<session, issued, keys>> /\ cand' = cs
    BY <1>5 DEF Unmap
  <2> HIDE DEF cs
  <2>3. OnlyMoves(c) /\ cand'[c].at = "displace" /\ cand'[c].id = cand[c].id
    BY <2>1, <2>2, EditMoves
  <2> QED
    BY <2>2, <2>3, QuietKeeps
<1>6. CASE Displace(c)
  <2> DEFINE cs == [cand EXCEPT ![c].at = "admitted", ![c].manager = 0, ![c].replaced = 0]
  <2>1. cs \in [Candidates -> SpCands] /\ cs[c].at = "admitted" /\ cs[c].id = cand[c].id
        /\ \A d \in Candidates \ {c} : cs[d] = cand[d]
    BY <1>1 DEF SpCands, SpStages
  <2>2. cand[c].at = "displace" /\ UNCHANGED <<session, issued>> /\ cand' = Woken(cs) /\ keys' \subseteq keys
    BY <1>6 DEF Displace
  <2> HIDE DEF cs
  <2>3. OnlyMoves(c) /\ Nudged(cs[c], cand'[c])
    BY <2>1, <2>2, EditMoves
  <2>4. cand'[c].at = "admitted" /\ cand'[c].id = cand[c].id
    BY <2>1, <2>3 DEF Nudged
  <2> QED
    BY <2>2, <2>3, <2>4, QuietKeeps
<1>7. CASE InstallCheck(c)
  <2>1. PICK s \in {"install", "fail"} : To(c, s)
    BY <1>7 DEF InstallCheck
  <2>2. OnlyMoves(c) /\ cand'[c].at = s /\ cand'[c].id = cand[c].id
    BY <1>1, <2>1, ToMoves DEF SpStages
  <2>3. cand[c].at = "check" /\ UNCHANGED <<session, issued, keys>>
    BY <1>7 DEF InstallCheck
  <2> QED
    BY <2>2, <2>3, QuietKeeps
<1>8. CASE InstallCrypto(c)
  <2>1. OnlyMoves(c) /\ cand'[c].at = "attach" /\ cand'[c].id = cand[c].id
    BY <1>1, <1>8, ToMoves DEF InstallCrypto, SpStages
  <2>2. cand[c].at = "install" /\ UNCHANGED <<session, issued>> /\ keys' = keys \cup {cand[c].id}
    BY <1>8 DEF InstallCrypto
  <2>3. cand[c].id # 0
    BY <2>2 DEF SessInv, CandOK
  <2> QED
    BY <2>1, <2>2, <2>3, QuietKeeps
<1>9. CASE Attach(c)
  <2>1. PICK s \in {"manager", "discard", "fail"} : To(c, s)
    BY <1>2, <1>9 DEF Attach
  <2>2. OnlyMoves(c) /\ cand'[c].at = s /\ cand'[c].id = cand[c].id
    BY <1>1, <2>1, ToMoves DEF SpStages
  <2>3. cand[c].at = "attach" /\ UNCHANGED <<session, issued, keys>>
    BY <1>9 DEF Attach
  <2> QED
    BY <2>2, <2>3, QuietKeeps
<1>10. CASE FindManager(c)
  <2>1. current' \in Nat
    BY <1>3, <1>10 DEF FindManager
  <2> DEFINE cs == [cand EXCEPT ![c].at = "publish", ![c].manager = current']
  <2>2. cs \in [Candidates -> SpCands] /\ cs[c].at = "publish" /\ cs[c].id = cand[c].id
        /\ \A d \in Candidates \ {c} : cs[d] = cand[d]
    BY <1>1, <2>1 DEF SpCands, SpStages
  <2>3. cand[c].at = "manager" /\ UNCHANGED <<session, issued, keys>> /\ cand' = cs
    BY <1>10 DEF FindManager
  <2> HIDE DEF cs
  <2>4. OnlyMoves(c) /\ cand'[c].at = "publish" /\ cand'[c].id = cand[c].id
    BY <2>2, <2>3, EditMoves
  <2> QED
    BY <2>3, <2>4, QuietKeeps
<1>11. CASE Publish(c)
  <2>1. cand[c].at = "publish" /\ UNCHANGED <<session, issued, keys>>
    BY <1>11 DEF Publish
  <2>2. CASE To(c, Refused(c))
    <3>1. OnlyMoves(c) /\ cand'[c].at = Refused(c) /\ cand'[c].id = cand[c].id
      BY <1>1, <1>2, <2>2, ToMoves
    <3> QED
      BY <1>2, <2>1, <3>1, QuietKeeps
  <2>3. CASE cand' = [cand EXCEPT ![c].at = "project", ![c].path = Len(paths) + 1]
    <3> DEFINE n == Len(paths) + 1
               cs == [cand EXCEPT ![c].at = "project", ![c].path = n]
    <3>0. n \in Nat
      BY <1>3
    <3> HIDE DEF n
    <3>1. cs \in [Candidates -> SpCands] /\ cs[c].at = "project" /\ cs[c].id = cand[c].id
          /\ \A d \in Candidates \ {c} : cs[d] = cand[d]
      BY <1>1, <3>0 DEF SpCands, SpStages
    <3> HIDE DEF cs
    <3>2. OnlyMoves(c) /\ cand'[c].at = "project" /\ cand'[c].id = cand[c].id
      BY <2>3, <3>1, EditMoves DEF cs, n
    <3> QED
      BY <2>1, <3>2, QuietKeeps
  <2> QED
    BY <1>11, <2>2, <2>3 DEF Publish
<1>12. CASE Project(c)
  <2> DEFINE cs == [cand EXCEPT ![c].at = "recheck"]
  <2>1. cs \in [Candidates -> SpCands] /\ cs[c].at = "recheck" /\ cs[c].id = cand[c].id
        /\ \A d \in Candidates \ {c} : cs[d] = cand[d]
    BY <1>1 DEF SpCands, SpStages
  <2>2. cand[c].at = "project" /\ UNCHANGED <<session, issued, keys>> /\ cand' = Woken(cs)
    BY <1>12 DEF Project
  <2> HIDE DEF cs
  <2>3. OnlyMoves(c) /\ Nudged(cs[c], cand'[c])
    BY <2>1, <2>2, EditMoves
  <2>4. cand'[c].at = "recheck" /\ cand'[c].id = cand[c].id
    BY <2>1, <2>3 DEF Nudged
  <2> QED
    BY <2>2, <2>3, <2>4, QuietKeeps
<1>13. CASE Recheck(c)
  <2>1. PICK s \in {"online", "discard", "fail"} : To(c, s)
    BY <1>2, <1>13 DEF Recheck
  <2>2. OnlyMoves(c) /\ cand'[c].at = s /\ cand'[c].id = cand[c].id
    BY <1>1, <2>1, ToMoves DEF SpStages
  <2>3. cand[c].at = "recheck" /\ UNCHANGED <<session, issued, keys>>
    BY <1>13 DEF Recheck
  <2> QED
    BY <2>2, <2>3, QuietKeeps
<1>14. CASE FailSnapshot(c)
  <2> DEFINE next == IF current = 0 THEN "retire" ELSE "close"
             seen == [k \in Kinds |-> IF projected[k].session = cand[c].id THEN projected[k].path ELSE 0]
             cs == [cand EXCEPT ![c].at = next, ![c].manager = current, ![c].seen = seen]
  <2>1. next \in {"retire", "close"} /\ seen \in [Kinds -> Nat]
    OBVIOUS
  <2>2. cand[c].at = "fail" /\ UNCHANGED <<session, issued, keys>> /\ cand' = cs
    BY <1>1, <1>14 DEF FailSnapshot, SpCands
  <2> HIDE DEF next, seen
  <2>3. cs \in [Candidates -> SpCands] /\ cs[c].at = next /\ cs[c].id = cand[c].id
        /\ \A d \in Candidates \ {c} : cs[d] = cand[d]
    BY <1>1, <1>3, <2>1 DEF SpCands, SpStages
  <2> HIDE DEF cs
  <2>4. OnlyMoves(c) /\ cand'[c].at = next /\ cand'[c].id = cand[c].id
    BY <2>2, <2>3, EditMoves
  <2> QED
    BY <2>1, <2>2, <2>4, QuietKeeps
<1>15. CASE FailClose(c)
  <2>1. PICK s \in {"retire", "unproject"} : cand' = [cand EXCEPT ![c].at = s]
    BY <1>15 DEF FailClose
  <2>2. OnlyMoves(c) /\ cand'[c].at = s /\ cand'[c].id = cand[c].id
    BY <1>1, <2>1, ToMoves DEF SpStages, To, At
  <2>3. cand[c].at = "close" /\ UNCHANGED <<session, issued, keys>>
    BY <1>15 DEF FailClose
  <2> QED
    BY <2>2, <2>3, QuietKeeps
<1>16. CASE FailUnproject(c)
  <2>1. OnlyMoves(c) /\ cand'[c].at = "retire" /\ cand'[c].id = cand[c].id
    <3>1. cand' = Woken(At(c, "retire"))
      BY <1>16 DEF FailUnproject, At
    <3> QED
      BY <1>1, <3>1, ToMoves DEF SpStages
  <2>2. cand[c].at = "unproject" /\ UNCHANGED <<session, issued, keys>>
    BY <1>16 DEF FailUnproject
  <2> QED
    BY <2>1, <2>2, QuietKeeps
<1> QED
  BY <1>4, <1>5, <1>6, <1>7, <1>8, <1>9, <1>10, <1>11, <1>12, <1>13, <1>14, <1>15, <1>16

\* The parts of the invariant one by one, for the steps that change the session.
LEMMA CandKeeps ==
  ASSUME SessInv, NEW c \in Candidates, OnlyMoves(c), issued' \in Nat, issued <= issued',
         cand'[c].id <= issued', cand'[c].at \in SpNamed => cand'[c].id # 0,
         c \in Outgoing /\ cand'[c].at \in SpWaiting => cand'[c].id # 0
  PROVE  /\ CandOK'
         /\ \A d \in Candidates \ {c} : /\ cand'[d].id = cand[d].id
                                        /\ cand'[d].at \in SpHolders <=> cand[d].at \in SpHolders
                                        /\ cand[d].id \in Nat /\ cand[d].id <= issued
<1>1. ASSUME NEW d \in Candidates \ {c}
      PROVE  /\ cand'[d].id = cand[d].id /\ cand[d].id \in Nat /\ cand[d].id <= issued
             /\ cand'[d].at \in SpHolders <=> cand[d].at \in SpHolders
             /\ cand'[d].at \in SpNamed <=> cand[d].at \in SpNamed
             /\ cand'[d].at \in SpWaiting <=> cand[d].at \in SpWaiting
  <2>1. Nudged(cand[d], cand'[d])
    BY DEF OnlyMoves
  <2>2. /\ "wait" \notin SpNamed /\ "reserved" \notin SpNamed /\ "wait" \notin SpHolders /\ "reserved" \notin SpHolders
        /\ "wait" \in SpWaiting /\ "reserved" \in SpWaiting
    BY DEF SpNamed, SpWaiting, SpHolders, Holding
  <2>3. cand[d].id \in Nat /\ cand[d].id <= issued
    BY DEF SessInv, CandOK, SpCands
  <2> QED
    BY <2>1, <2>2, <2>3 DEF Nudged
<1>2. issued \in Nat
  BY DEF SessInv, SessOK
<1>3. \A d \in Candidates : cand'[d].id <= issued' /\ (cand'[d].at \in SpNamed => cand'[d].id # 0)
  BY <1>1, <1>2 DEF SessInv, CandOK
<1>4. \A d \in Outgoing : cand'[d].at \in SpWaiting => cand'[d].id # 0
  BY <1>1 DEF SessInv, CandOK, Candidates
<1> QED
  BY <1>1, <1>3, <1>4 DEF CandOK, OnlyMoves

LEMMA HoldersKeep ==
  ASSUME SessInv, NEW c \in Candidates,
         \A d \in Candidates \ {c} : /\ cand'[d].id = cand[d].id
                                     /\ cand'[d].at \in SpHolders <=> cand[d].at \in SpHolders,
         cand'[c].at \in SpHolders => \A d \in Candidates \ {c} : cand[d].at \in SpHolders => cand[d].id # cand'[c].id,
         session'.phase = "reserved" =>
           /\ cand'[c].at \in SpHolders => cand'[c].id # session'.id
           /\ \A d \in Candidates \ {c} : cand[d].at \in SpHolders => cand[d].id # session'.id
  PROVE  HoldersOK'
BY DEF SessInv, HoldersOK

\* Everybody was woken.
LEMMA WokenSleep ==
  ASSUME \A c \in Candidates : cand'[c].at # "wait" /\ (cand'[c].at = "stale" => ~cand'[c].armed)
  PROVE  SleepOK'
BY DEF SleepOK, Candidates

\* The session of a sleeper, if it is still there, did not change.
LEMMA StillSleep ==
  ASSUME SessInv, NEW c \in Candidates, OnlyMoves(c), cand'[c].at \notin {"wait", "stale"}, cand[c].at # "notify",
         session' = session \/ \A d \in Candidates : session'.id # cand[d].id
  PROVE  SleepOK'
<1> SUFFICES ASSUME NEW d \in Outgoing,
                    \/ cand'[d].at = "wait"
                    \/ /\ cand'[d].at = "stale" /\ cand'[d].armed
                       /\ session'.id = cand'[d].id /\ session'.binding = "none"
             PROVE  \E e \in Candidates : cand'[e].at = "notify"
  BY DEF SleepOK
<1>1. d \in Candidates /\ d # c /\ Nudged(cand[d], cand'[d])
  BY DEF Candidates, OnlyMoves
<1>2. PICK e \in Candidates : cand[e].at = "notify"
  BY <1>1 DEF SleepOK, Nudged, SessInv
<1>3. e # c /\ Nudged(cand[e], cand'[e])
  BY <1>2 DEF OnlyMoves
<1> QED
  BY <1>2, <1>3 DEF Nudged

LEMMA BeginKeeps ==
  ASSUME SessInv, NEW c \in Candidates, BeginConnect(c)
  PROVE  SessInv'
<1>1. cand \in [Candidates -> SpCands] /\ cand[c] \in SpCands /\ issued \in Nat /\ session.id \in Nat
  BY DEF SessInv, CandOK, SessOK
<1>2. c \in Outgoing /\ cand[c].at = "idle" /\ keys' = keys
  BY DEF BeginConnect
<1>3. "reserved" \notin SpNamed /\ "reserved" \notin SpHolders /\ "reserved" \in SpStages
  BY DEF SpNamed, SpHolders, Holding, SpStages
<1>4. ASSUME session.phase = "absent", issued < MaxSessionIds, issued' = issued + 1,
             session' = [id |-> issued + 1, binding |-> "none", phase |-> "reserved"],
             cand' = [cand EXCEPT ![c].at = "reserved", ![c].id = issued + 1, ![c].owner = TRUE]
      PROVE  SessInv'
  <2> DEFINE n == issued + 1
             cs == [cand EXCEPT ![c].at = "reserved", ![c].id = n, ![c].owner = TRUE]
  <2>1. n \in Nat /\ n # 0 /\ n > issued /\ issued' = n
    BY <1>1, <1>4
  <2>2. session' = [id |-> n, binding |-> "none", phase |-> "reserved"] /\ cand' = cs /\ n <= MaxSessionIds
    BY <1>1, <1>4, SessionPathsAssumption
  <2> HIDE DEF n
  <2>3. cs \in [Candidates -> SpCands] /\ cs[c].at = "reserved" /\ cs[c].id = n
        /\ \A d \in Candidates \ {c} : cs[d] = cand[d]
    BY <1>1, <1>3, <2>1 DEF SpCands
  <2> HIDE DEF cs
  <2>4. OnlyMoves(c) /\ cand'[c].at = "reserved" /\ cand'[c].id = n
    BY <2>2, <2>3, EditMoves
  <2>5. /\ CandOK'
        /\ \A d \in Candidates \ {c} : /\ cand'[d].id = cand[d].id
                                       /\ cand'[d].at \in SpHolders <=> cand[d].at \in SpHolders
                                       /\ cand[d].id \in Nat /\ cand[d].id <= issued
    BY <1>1, <1>3, <2>1, <2>4, CandKeeps
  <2>6. session'.id = n /\ session'.phase = "reserved" /\ session'.binding = "none"
    BY <2>2
  <2>7. SessOK'
    BY <1>1, <1>2, <2>1, <2>2 DEF SessInv, SessOK
  <2>8. HoldersOK'
    BY <1>1, <1>3, <2>1, <2>4, <2>5, <2>6, HoldersKeep
  <2>9. \A d \in Candidates : session'.id # cand[d].id
    BY <1>1, <2>1, <2>6 DEF SessInv, CandOK, SpCands
  <2>10. SleepOK'
    BY <1>2, <2>4, <2>9, StillSleep
  <2> QED
    BY <2>5, <2>7, <2>8, <2>10 DEF SessInv
<1>5. ASSUME session.phase # "absent", UNCHANGED <<session, issued>>,
             cand' = [cand EXCEPT ![c].at = "reserved", ![c].id = session.id]
      PROVE  SessInv'
  <2> DEFINE cs == [cand EXCEPT ![c].at = "reserved", ![c].id = session.id]
  <2>1. session.id # 0 /\ session.id <= issued
    BY <1>5 DEF SessInv, SessOK
  <2>2. cs \in [Candidates -> SpCands] /\ cs[c].at = "reserved" /\ cs[c].id = session.id
        /\ \A d \in Candidates \ {c} : cs[d] = cand[d]
    BY <1>1, <1>3 DEF SpCands
  <2>3. cand' = cs
    BY <1>5
  <2> HIDE DEF cs
  <2>4. OnlyMoves(c) /\ cand'[c].at = "reserved" /\ cand'[c].id = session.id
    BY <2>2, <2>3, EditMoves
  <2>5. /\ CandOK'
        /\ \A d \in Candidates \ {c} : /\ cand'[d].id = cand[d].id
                                       /\ cand'[d].at \in SpHolders <=> cand[d].at \in SpHolders
    BY <1>1, <1>3, <1>5, <2>1, <2>4, CandKeeps
  <2>6. SessOK'
    BY <1>2, <1>5 DEF SessInv, SessOK
  <2>7. HoldersOK'
    BY <1>3, <1>5, <2>4, <2>5, HoldersKeep DEF SessInv, HoldersOK
  <2>8. SleepOK'
    BY <1>2, <1>5, <2>4, StillSleep
  <2> QED
    BY <2>5, <2>6, <2>7, <2>8 DEF SessInv
<1> QED
  BY <1>4, <1>5 DEF BeginConnect

\* admit_authenticated_session: one claim per session id.
LEMMA AdmitKeeps ==
  ASSUME SessInv, NEW c \in Candidates, NEW b \in Bindings, Admit(c, b)
  PROVE  SessInv'
<1>1. /\ cand \in [Candidates -> SpCands] /\ cand[c] \in SpCands /\ issued \in Nat /\ session.id \in Nat
      /\ session.id <= issued /\ cand[c].at = "admit" /\ keys' = keys /\ b # "none"
  BY SessionPathsAssumption DEF SessInv, CandOK, SessOK, Admit
<1> DEFINE Enter(stage, id, old) == [cand EXCEPT ![c].at = stage, ![c].id = id, ![c].binding = b,
                                                 ![c].replaced = old, ![c].armed = FALSE]
<1>2. ASSUME NEW stage \in SpHolders, NEW id \in Nat, NEW old \in Nat,
             cand' = Enter(stage, id, old) \/ cand' = Woken(Enter(stage, id, old))
      PROVE  OnlyMoves(c) /\ cand'[c].at = stage /\ cand'[c].id = id
  <2> DEFINE cs == Enter(stage, id, old)
  <2>1. stage \in SpStages
    BY DEF SpHolders, SpStages
  <2>2. cs \in [Candidates -> SpCands] /\ cs[c].at = stage /\ cs[c].id = id
        /\ \A d \in Candidates \ {c} : cs[d] = cand[d]
    BY <1>1, <2>1 DEF SpCands
  <2>3. cand' = cs \/ cand' = Woken(cs)
    BY <1>2
  <2> HIDE DEF cs
  <2>4. OnlyMoves(c) /\ Nudged(cs[c], cand'[c])
    BY <2>2, <2>3, EditMoves
  <2>5. stage # "wait"
    BY DEF SpHolders, Holding
  <2> QED
    BY <2>2, <2>4, <2>5 DEF Nudged
<1>3. {"admitted", "unmap"} \subseteq SpHolders /\ SpHolders \subseteq SpNamed /\ SpHolders \cap SpWaiting = {}
      /\ SpHolders \cap {"wait", "stale"} = {}
  BY DEF SpHolders, Holding, SpNamed, SpWaiting
<1>4. ASSUME NEW cs \in [Candidates -> SpCands], cand' = Woken(cs)
      PROVE  SleepOK'
  BY <1>4, WokenNudges, WokenSleep
<1>5. ASSUME To(c, "stale"), session' = session, issued' = issued,
             Taken(b) \/ (c \in Outgoing /\ (cand[c].id # session.id \/ ~(ClaimsReserved(c) \/ Replaces(c))))
      PROVE  SessInv'
  <2>1. OnlyMoves(c) /\ cand'[c].at = "stale" /\ cand'[c].id = cand[c].id
    BY <1>1, <1>5, ToMoves DEF SpStages
  <2>2. "admit" \in SpWaiting /\ "stale" \notin SpNamed /\ "stale" \notin SpHolders
    BY DEF SpWaiting, SpNamed, SpHolders, Holding
  <2>3. cand[c].id \in Nat /\ cand[c].id <= issued /\ (c \in Outgoing => cand[c].id # 0)
    BY <1>1, <2>2 DEF SessInv, CandOK, SpCands
  <2>4. /\ CandOK'
        /\ \A d \in Candidates \ {c} : /\ cand'[d].id = cand[d].id
                                       /\ cand'[d].at \in SpHolders <=> cand[d].at \in SpHolders
    BY <1>1, <1>5, <2>1, <2>2, <2>3, CandKeeps
  <2>5. SessOK'
    BY <1>1, <1>5 DEF SessInv, SessOK
  <2>6. HoldersOK'
    BY <1>5, <2>1, <2>2, <2>4, HoldersKeep DEF SessInv, HoldersOK
  <2>7. SleepOK'
    <3> SUFFICES ASSUME NEW d \in Outgoing,
                        \/ cand'[d].at = "wait"
                        \/ /\ cand'[d].at = "stale" /\ cand'[d].armed
                           /\ session.id = cand'[d].id /\ session.binding = "none"
                 PROVE  \E e \in Candidates : cand'[e].at = "notify"
      BY <1>5 DEF SleepOK
    <3>1. CASE d = c
      <4>1. session.id = cand[c].id /\ session.id # 0 /\ session.binding = "none"
        BY <2>1, <2>3, <3>1
      <4>2. session.phase = "reserved"
        BY <4>1 DEF SessInv, SessOK
      <4> QED
        BY <1>1, <1>5, <4>1, <4>2 DEF Taken, ClaimsReserved
    <3>2. CASE d # c
      <4>1. Nudged(cand[d], cand'[d])
        BY <2>1, <3>2 DEF OnlyMoves, Candidates
      <4>2. PICK e \in Candidates : cand[e].at = "notify"
        BY <4>1 DEF SleepOK, Nudged, SessInv
      <4>3. e # c /\ Nudged(cand[e], cand'[e])
        BY <1>1, <2>1, <4>2 DEF OnlyMoves
      <4> QED
        BY <4>2, <4>3 DEF Nudged
    <3> QED
      BY <3>1, <3>2
  <2> QED
    BY <2>4, <2>5, <2>6, <2>7 DEF SessInv
<1>6. CASE /\ ClaimsReserved(c) /\ session' = [session EXCEPT !.binding = b, !.phase = "claimed"]
           /\ cand' = Woken(Enter("admitted", session.id, 0)) /\ UNCHANGED issued
  <2>1. session.phase = "reserved" /\ session.id # 0
    BY <1>6 DEF ClaimsReserved, SessInv, SessOK
  <2>2. OnlyMoves(c) /\ cand'[c].at = "admitted" /\ cand'[c].id = session.id
    BY <1>1, <1>2, <1>3, <1>6
  <2>3. /\ CandOK'
        /\ \A d \in Candidates \ {c} : /\ cand'[d].id = cand[d].id
                                       /\ cand'[d].at \in SpHolders <=> cand[d].at \in SpHolders
    <3>1. issued' = issued /\ cand'[c].id <= issued' /\ cand'[c].id # 0 /\ cand'[c].at \notin SpWaiting
      BY <1>1, <1>3, <1>6, <2>1, <2>2
    <3> QED
      BY <1>1, <2>2, <3>1, CandKeeps
  <2>4. session' = [id |-> session.id, binding |-> b, phase |-> "claimed"]
    BY <1>6 DEF SessInv, SessOK
  <2>5. SessOK'
    BY <1>1, <1>6, <2>1, <2>4 DEF SessInv, SessOK
  <2>6. HoldersOK'
    BY <1>3, <2>1, <2>2, <2>3, <2>4, HoldersKeep DEF SessInv, HoldersOK
  <2>7. Enter("admitted", session.id, 0) \in [Candidates -> SpCands]
    <3>1. "admitted" \in SpStages /\ 0 \in Nat
      BY DEF SpStages, Holding
    <3> QED
      BY <1>1, <3>1 DEF SpCands
  <2>8. SleepOK'
    BY <1>4, <1>6, <2>7
  <2> QED
    BY <2>3, <2>5, <2>6, <2>8 DEF SessInv
<1>7. ASSUME issued < MaxSessionIds, issued' = issued + 1,
             session' = [id |-> issued + 1, binding |-> b, phase |-> "claimed"],
             \/ cand' = Woken(Enter("admitted", issued + 1, 0))
             \/ cand' = Enter("unmap", issued + 1, session.id)
      PROVE  SessInv'
  <2> DEFINE n == issued + 1
  <2>1. n \in Nat /\ n # 0 /\ n > issued /\ issued' = n /\ n <= MaxSessionIds
    BY <1>1, <1>7, SessionPathsAssumption
  <2>2. session' = [id |-> n, binding |-> b, phase |-> "claimed"]
        /\ (cand' = Woken(Enter("admitted", n, 0)) \/ cand' = Enter("unmap", n, session.id))
    BY <1>7
  <2> HIDE DEF n, Enter
  <2>3. OnlyMoves(c) /\ cand'[c].at \in {"admitted", "unmap"} /\ cand'[c].id = n
    BY <1>1, <1>2, <1>3, <2>1, <2>2
  <2>4. /\ CandOK'
        /\ \A d \in Candidates \ {c} : /\ cand'[d].id = cand[d].id
                                       /\ cand'[d].at \in SpHolders <=> cand[d].at \in SpHolders
                                       /\ cand[d].id \in Nat /\ cand[d].id <= issued
    BY <1>1, <1>3, <2>1, <2>3, CandKeeps
  <2>5. SessOK'
    BY <1>1, <2>1, <2>2 DEF SessInv, SessOK
  <2>6. session'.phase = "claimed" /\ session'.id = n
    BY <2>2
  <2>7. HoldersOK'
    BY <1>1, <1>3, <2>1, <2>3, <2>4, <2>6, HoldersKeep
  <2>8. \A d \in Candidates : session'.id # cand[d].id
    BY <1>1, <2>1, <2>6 DEF SessInv, CandOK, SpCands
  <2>9. SleepOK'
    BY <1>1, <2>3, <2>8, StillSleep
  <2> QED
    BY <2>4, <2>5, <2>7, <2>9 DEF SessInv
<1>8. CASE \/ Taken(b)
           \/ c \in Outgoing /\ (cand[c].id # session.id \/ ~(ClaimsReserved(c) \/ Replaces(c)))
  <2>1. To(c, "stale") /\ session' = session /\ issued' = issued
    BY <1>8 DEF Admit
  <2> QED
    BY <1>5, <1>8, <2>1
<1>9. CASE ~(\/ Taken(b)
             \/ c \in Outgoing /\ (cand[c].id # session.id \/ ~(ClaimsReserved(c) \/ Replaces(c))))
  <2>1. CASE ClaimsReserved(c)
    <3>1. /\ session' = [session EXCEPT !.binding = b, !.phase = "claimed"]
          /\ cand' = Woken(Enter("admitted", session.id, 0)) /\ UNCHANGED issued
      BY <1>9, <2>1 DEF Admit
    <3> QED
      BY <1>6, <2>1, <3>1
  <2>2. CASE ~ClaimsReserved(c)
    <3>1. /\ issued < MaxSessionIds /\ issued' = issued + 1
          /\ session' = [id |-> issued + 1, binding |-> b, phase |-> "claimed"]
          /\ \/ cand' = Woken(Enter("admitted", issued + 1, 0))
             \/ cand' = Enter("unmap", issued + 1, session.id)
      BY <1>9, <2>2 DEF Admit
    <3> QED
      BY <1>7, <3>1
  <2> QED
    BY <2>1, <2>2
<1> QED
  BY <1>8, <1>9

LEMMA RetryKeeps ==
  ASSUME SessInv, NEW c \in Candidates, RetryCheck(c)
  PROVE  SessInv'
<1>1. cand \in [Candidates -> SpCands] /\ cand[c] \in SpCands /\ cand[c].at = "stale"
      /\ UNCHANGED <<session, issued, keys>>
  BY DEF SessInv, CandOK, RetryCheck
<1>2. CASE To(c, "lost") \/ To(c, "reserved")
  <2>1. OnlyMoves(c) /\ (\/ cand'[c].at = "lost" /\ cand'[c].id = 0
                         \/ cand'[c].at = "reserved" /\ cand'[c].id = cand[c].id)
    BY <1>1, <1>2, ToMoves DEF SpStages
  <2>2. {"lost", "reserved"} \cap SpNamed = {} /\ {"lost", "reserved"} \cap SpHolders = {} /\ "stale" \in SpWaiting
    BY DEF SpNamed, SpHolders, Holding, SpWaiting
  <2> QED
    BY <1>1, <2>1, <2>2, QuietKeeps
<1>3. CASE To(c, "wait") /\ c \in Outgoing /\ session.id = cand[c].id /\ session.binding = "none" /\ cand[c].armed
  <2> DEFINE cs == [cand EXCEPT ![c].at = "wait"]
  <2>1. cs \in [Candidates -> SpCands] /\ cs[c].at = "wait" /\ cs[c].id = cand[c].id
        /\ \A d \in Candidates \ {c} : cs[d] = cand[d]
    BY <1>1 DEF SpCands, SpStages
  <2>2. cand' = cs
    BY <1>3 DEF To, At
  <2> HIDE DEF cs
  <2>3. OnlyMoves(c) /\ cand'[c].at = "wait" /\ cand'[c].id = cand[c].id
    BY <2>1, <2>2, EditMoves
  <2>4. "wait" \notin SpNamed /\ "wait" \notin SpHolders /\ "stale" \in SpWaiting
    BY DEF SpNamed, SpHolders, Holding, SpWaiting
  <2>5. issued \in Nat /\ cand[c].id \in Nat /\ cand[c].id <= issued /\ cand[c].id # 0
    BY <1>1, <1>3, <2>4 DEF SessInv, SessOK, CandOK, SpCands
  <2>6. /\ CandOK'
        /\ \A d \in Candidates \ {c} : /\ cand'[d].id = cand[d].id
                                       /\ cand'[d].at \in SpHolders <=> cand[d].at \in SpHolders
    BY <1>1, <2>3, <2>4, <2>5, CandKeeps
  <2>7. SessOK'
    BY <1>1 DEF SessInv, SessOK
  <2>8. HoldersOK'
    BY <1>1, <2>3, <2>4, <2>6, HoldersKeep DEF SessInv, HoldersOK
  <2>9. SleepOK'
    <3>1. PICK e \in Candidates : cand[e].at = "notify"
      BY <1>1, <1>3 DEF SessInv, SleepOK
    <3>2. cand'[e].at = "notify"
      BY <1>1, <2>1, <2>2, <3>1
    <3> QED
      BY <3>2 DEF SleepOK
  <2> QED
    BY <2>6, <2>7, <2>8, <2>9 DEF SessInv
<1> QED
  BY <1>2, <1>3 DEF RetryCheck, Candidates

LEMMA FinalizeKeeps ==
  ASSUME SessInv, NEW c \in Candidates, Finalize(c)
  PROVE  SessInv'
<1>1. cand \in [Candidates -> SpCands] /\ cand[c].at = "admitted" /\ issued' = issued /\ keys' = keys
  BY DEF SessInv, CandOK, Finalize
<1>2. PICK s \in {"check", "lost"} : To(c, s)
  BY DEF Finalize
<1>3. /\ OnlyMoves(c) /\ cand'[c].at = s
      /\ s = "lost" => cand'[c].id = 0
      /\ s = "check" => cand'[c].id = cand[c].id
  BY <1>1, <1>2, ToMoves DEF SpStages, Holding
<1>4. /\ "admitted" \in SpHolders /\ "admitted" \in SpNamed
      /\ "check" \in SpHolders /\ "check" \notin SpWaiting /\ "lost" \notin SpNamed /\ "lost" \notin SpHolders
      /\ "lost" \notin SpWaiting
  BY DEF SpHolders, Holding, SpNamed, SpWaiting
<1>5. CASE session' = session
  BY <1>1, <1>3, <1>4, <1>5, QuietKeeps
<1>6. CASE session.id = cand[c].id /\ session' = [session EXCEPT !.phase = "authenticated"]
  <2>1. session.phase # "reserved" /\ session.id # 0
    BY <1>1, <1>4, <1>6 DEF SessInv, HoldersOK, CandOK
  <2>2. session' = [id |-> session.id, binding |-> session.binding, phase |-> "authenticated"]
    BY <1>6 DEF SessInv, SessOK
  <2>3. issued \in Nat /\ cand[c].id \in Nat /\ cand[c].id <= issued /\ cand[c].id # 0
    BY <1>1, <1>4 DEF SessInv, SessOK, CandOK, SpCands
  <2>4. cand'[c].id <= issued' /\ (cand'[c].at \in SpNamed => cand'[c].id # 0) /\ cand'[c].at \notin SpWaiting
    BY <1>1, <1>3, <1>4, <2>3
  <2>5. /\ CandOK'
        /\ \A d \in Candidates \ {c} : /\ cand'[d].id = cand[d].id
                                       /\ cand'[d].at \in SpHolders <=> cand[d].at \in SpHolders
    BY <1>1, <1>3, <2>3, <2>4, CandKeeps
  <2>6. SessOK'
    BY <1>1, <2>1, <2>2 DEF SessInv, SessOK
  <2>7. HoldersOK'
    BY <1>1, <1>3, <1>4, <2>2, <2>5, HoldersKeep DEF SessInv, HoldersOK
  <2>8. SleepOK'
    <3> SUFFICES ASSUME NEW d \in Outgoing,
                        \/ cand'[d].at = "wait"
                        \/ /\ cand'[d].at = "stale" /\ cand'[d].armed
                           /\ session.id = cand'[d].id /\ session.binding = "none"
                 PROVE  \E e \in Candidates : cand'[e].at = "notify"
      BY <2>2 DEF SleepOK
    <3>1. d \in Candidates /\ d # c /\ Nudged(cand[d], cand'[d])
      BY <1>3 DEF Candidates, OnlyMoves
    <3>2. PICK e \in Candidates : cand[e].at = "notify"
      BY <3>1 DEF SleepOK, Nudged, SessInv
    <3>3. e # c /\ Nudged(cand[e], cand'[e])
      BY <1>1, <1>3, <3>2 DEF OnlyMoves
    <3> QED
      BY <3>2, <3>3 DEF Nudged
  <2> QED
    BY <2>5, <2>6, <2>7, <2>8 DEF SessInv
<1> QED
  BY <1>5, <1>6 DEF Finalize

\* release_claimed_session: the claim goes before the others are notified.
LEMMA DiscardKeeps ==
  ASSUME SessInv, NEW c \in Candidates, Discard(c)
  PROVE  SessInv'
<1>1. /\ cand \in [Candidates -> SpCands] /\ cand[c].at = "discard" /\ issued' = issued
      /\ keys' \subseteq keys /\ session' = Release(c)
  BY DEF SessInv, CandOK, Discard
<1>2. /\ "discard" \in SpHolders /\ "discard" \in SpNamed /\ {"notify", "fail"} \subseteq SpNamed
      /\ {"notify", "fail", "lost"} \cap SpHolders = {} /\ {"notify", "fail", "lost"} \cap SpWaiting = {}
      /\ "lost" \notin SpNamed
  BY DEF SpHolders, Holding, SpNamed, SpWaiting
<1>3. issued \in Nat /\ cand[c].id \in Nat /\ cand[c].id <= issued /\ cand[c].id # 0
  BY <1>1, <1>2 DEF SessInv, SessOK, CandOK, SpCands
<1>4. CASE session' = session
  <2>1. PICK s \in {"fail", "lost"} : To(c, s)
    BY <1>4 DEF Discard
  <2>2. /\ OnlyMoves(c) /\ cand'[c].at = s
        /\ s = "lost" => cand'[c].id = 0
        /\ s = "fail" => cand'[c].id = cand[c].id
    BY <1>1, <2>1, ToMoves DEF SpStages
  <2> QED
    BY <1>1, <1>2, <1>4, <2>2, QuietKeeps
<1>5. CASE session' # session
  <2>1. session.id = cand[c].id /\ session' = [session EXCEPT !.binding = "none", !.phase = "reserved"]
    BY <1>1, <1>5 DEF Release
  <2>2. session' = [id |-> session.id, binding |-> "none", phase |-> "reserved"]
    BY <2>1 DEF SessInv, SessOK
  <2>3. To(c, "notify")
    BY <1>5 DEF Discard
  <2>4. OnlyMoves(c) /\ cand'[c].at = "notify" /\ cand'[c].id = cand[c].id
    BY <1>1, <2>3, ToMoves DEF SpStages
  <2>5. /\ CandOK'
        /\ \A d \in Candidates \ {c} : /\ cand'[d].id = cand[d].id
                                       /\ cand'[d].at \in SpHolders <=> cand[d].at \in SpHolders
    <3>1. cand'[c].id <= issued' /\ cand'[c].id # 0 /\ cand'[c].at \notin SpWaiting
      BY <1>1, <1>2, <1>3, <2>4
    <3> QED
      BY <1>1, <1>3, <2>4, <3>1, CandKeeps
  <2>6. SessOK'
    BY <1>1, <1>3, <2>1, <2>2 DEF SessInv, SessOK
  <2>7. HoldersOK'
    <3>1. \A d \in Candidates \ {c} : cand[d].at \in SpHolders => cand[d].id # session.id
      BY <1>1, <1>2, <2>1 DEF SessInv, HoldersOK
    <3>2. session'.id = session.id /\ cand'[c].at \notin SpHolders
      BY <1>2, <2>2, <2>4
    <3> QED
      BY <2>5, <3>1, <3>2, HoldersKeep
  <2>8. SleepOK'
    BY <2>4 DEF SleepOK
  <2> QED
    BY <2>5, <2>6, <2>7, <2>8 DEF SessInv
<1> QED
  BY <1>4, <1>5

\* A notification together with the end of c's own flow.
LEMMA WakeAndLeave ==
  ASSUME SessInv, NEW c \in Candidates, cand[c].at \in SpNamed, NEW s \in {"lost", "fail"},
         cand' = Woken(At(c, s)), issued' = issued, keys' \subseteq keys,
         session' = session \/ session' = NoSession
  PROVE  SessInv'
<1>1. cand \in [Candidates -> SpCands]
  BY DEF SessInv, CandOK
<1>2. /\ OnlyMoves(c) /\ cand'[c].at = s
      /\ s = "lost" => cand'[c].id = 0
      /\ s = "fail" => cand'[c].id = cand[c].id
  BY <1>1, ToMoves DEF SpStages
<1>3. /\ "fail" \in SpNamed /\ "lost" \notin SpNamed /\ {"fail", "lost"} \cap SpHolders = {}
      /\ {"fail", "lost"} \cap SpWaiting = {}
  BY DEF SpHolders, Holding, SpNamed, SpWaiting
<1>4. issued \in Nat /\ cand[c].id \in Nat /\ cand[c].id <= issued /\ cand[c].id # 0
  BY <1>1 DEF SessInv, SessOK, CandOK, SpCands
<1>5. cand'[c].id <= issued' /\ (cand'[c].at \in SpNamed => cand'[c].id # 0) /\ cand'[c].at \notin SpWaiting
  BY <1>2, <1>3, <1>4
<1>6. /\ CandOK'
      /\ \A d \in Candidates \ {c} : /\ cand'[d].id = cand[d].id
                                     /\ cand'[d].at \in SpHolders <=> cand[d].at \in SpHolders
  BY <1>2, <1>4, <1>5, CandKeeps
<1>7. SessOK'
  <2>1. CASE session' = session
    BY <2>1 DEF SessInv, SessOK
  <2>2. CASE session' = NoSession
    BY <1>4, <2>2 DEF SessInv, SessOK, NoSession
  <2> QED
    BY <2>1, <2>2
<1>8. HoldersOK'
  <2>1. session'.phase = "reserved" => session' = session
    BY DEF NoSession
  <2> QED
    BY <1>2, <1>3, <1>6, <2>1, HoldersKeep DEF SessInv, HoldersOK
<1>9. SleepOK'
  <2>1. At(c, s) \in [Candidates -> SpCands]
    BY <1>1, IdleCandType DEF At, SpCands, SpStages
  <2> QED
    BY <2>1, WokenNudges, WokenSleep
<1> QED
  BY <1>6, <1>7, <1>8, <1>9 DEF SessInv

LEMMA NotifyKeeps ==
  ASSUME SessInv, NEW c \in Candidates, NotifyReleased(c) \/ FailRetire(c)
  PROVE  SessInv'
<1>1. "notify" \in SpNamed /\ "retire" \in SpNamed /\ "lost" \notin SpNamed /\ "lost" \notin SpHolders
      /\ "lost" \notin SpWaiting
  BY DEF SpNamed, SpHolders, Holding, SpWaiting
<1>2. CASE NotifyReleased(c)
  <2>1. PICK s \in {"lost", "fail"} : cand' = Woken(At(c, s))
    BY <1>2 DEF NotifyReleased
  <2> QED
    BY <1>1, <1>2, <2>1, WakeAndLeave DEF NotifyReleased
<1>3. CASE FailRetire(c) /\ session.id = cand[c].id
  BY <1>1, <1>3, WakeAndLeave DEF FailRetire
<1>4. CASE FailRetire(c) /\ session.id # cand[c].id
  <2>1. cand[c].at = "retire" /\ To(c, "lost") /\ UNCHANGED <<session, issued, keys>>
    BY <1>4 DEF FailRetire, To
  <2>2. OnlyMoves(c) /\ cand'[c].at = "lost" /\ cand'[c].id = 0
    BY <2>1, ToMoves DEF SpStages, SessInv, CandOK
  <2> QED
    BY <1>1, <2>1, <2>2, QuietKeeps
<1> QED
  BY <1>2, <1>3, <1>4

\* A notification from outside of the candidates, and the end of the session.
LEMMA NudgeAllKeeps ==
  ASSUME SessInv, cand' = Woken(cand) \/ (cand' = cand /\ session' = session),
         issued' = issued, keys' \subseteq keys, session' = session \/ session' = NoSession
  PROVE  SessInv'
<1>1. cand \in [Candidates -> SpCands] /\ issued \in Nat
  BY DEF SessInv, CandOK, SessOK
<1>2. cand' \in [Candidates -> SpCands] /\ \A d \in Candidates : Nudged(cand[d], cand'[d])
  BY <1>1, WokenNudges, NudgedSelf
<1>3. /\ "wait" \notin SpNamed /\ "reserved" \notin SpNamed /\ "wait" \notin SpHolders /\ "reserved" \notin SpHolders
      /\ "wait" \in SpWaiting
  BY DEF SpNamed, SpWaiting, SpHolders, Holding
<1>4. \A d \in Candidates : /\ cand'[d].id = cand[d].id
                            /\ cand'[d].at \in SpNamed <=> cand[d].at \in SpNamed
                            /\ cand'[d].at \in SpHolders <=> cand[d].at \in SpHolders
                            /\ cand'[d].at \in SpWaiting => cand[d].at \in SpWaiting
  BY <1>2, <1>3 DEF Nudged
<1>5. CandOK'
  BY <1>2, <1>4 DEF SessInv, CandOK, Candidates
<1>6. SessOK'
  <2>1. CASE session' = session
    BY <2>1 DEF SessInv, SessOK
  <2>2. CASE session' = NoSession
    BY <1>1, <2>2 DEF SessInv, SessOK, NoSession
  <2> QED
    BY <2>1, <2>2
<1>7. HoldersOK'
  <2>1. session'.phase = "reserved" => session' = session
    BY DEF NoSession
  <2> QED
    BY <1>4, <2>1 DEF SessInv, HoldersOK
<1>8. SleepOK'
  <2>1. CASE cand' = Woken(cand)
    BY <1>1, <2>1, WokenNudges, WokenSleep
  <2>2. CASE cand' = cand /\ session' = session
    BY <2>2 DEF SessInv, SleepOK
  <2> QED
    BY <2>1, <2>2
<1> QED
  BY <1>5, <1>6, <1>7, <1>8 DEF SessInv

LEMMA AcceptKeeps ==
  ASSUME SessInv, NEW c \in Candidates, Accept(c)
  PROVE  SessInv'
<1>1. /\ cand \in [Candidates -> SpCands] /\ c \in Incoming /\ cand[c].at = "idle"
      /\ UNCHANGED <<session, issued, keys>> /\ To(c, "admit")
  BY DEF SessInv, CandOK, Accept
<1>2. OnlyMoves(c) /\ cand'[c].at = "admit" /\ cand'[c].id = cand[c].id
  BY <1>1, ToMoves DEF SpStages
<1>3. "admit" \notin SpNamed /\ "admit" \notin SpHolders /\ c \notin Outgoing
  BY <1>1, SessionPathsAssumption DEF SpNamed, SpHolders, Holding
<1>4. issued \in Nat /\ cand[c].id <= issued
  BY DEF SessInv, SessOK, CandOK
<1>5. /\ CandOK'
      /\ \A d \in Candidates \ {c} : /\ cand'[d].id = cand[d].id
                                     /\ cand'[d].at \in SpHolders <=> cand[d].at \in SpHolders
  BY <1>1, <1>2, <1>3, <1>4, CandKeeps
<1>6. SessOK'
  BY <1>1 DEF SessInv, SessOK
<1>7. HoldersOK'
  BY <1>1, <1>2, <1>3, <1>5, HoldersKeep DEF SessInv, HoldersOK
<1>8. SleepOK'
  BY <1>1, <1>2, StillSleep
<1> QED
  BY <1>5, <1>6, <1>7, <1>8 DEF SessInv

LEMMA SessStep ==
  ASSUME SpInv, [SessionPathsNext]_spVars
  PROVE  SessInv'
<1>1. /\ SessInv /\ managers \in Seq(SpManagers) /\ current \in 0 .. Len(managers)
      /\ paths \in Seq(SpPathRecords) /\ projected \in [Kinds -> [session : Nat, path : Nat]]
  BY DEF SpInv, PathInv, ManagersOK, SpPathsOK, ProjectionsOK
<1>2. ASSUME NEW c \in Candidates, CandStep(c) PROVE SessInv'
  BY <1>1, <1>2, QuietSteps, AdmitKeeps, RetryKeeps, FinalizeKeeps, DiscardKeeps, NotifyKeeps DEF CandStep
<1>3. ASSUME NEW c \in Candidates, BeginConnect(c) \/ Accept(c) PROVE SessInv'
  BY <1>1, <1>3, BeginKeeps, AcceptKeeps
<1>4. CASE CloserStep
  <2>1. CASE CloseUnmap \/ CloseRevoke
    BY <1>1, <2>1, NudgeAllKeeps DEF CloseUnmap, CloseRevoke, CloserKeeps
  <2>2. CASE CloseHardAll
    BY <1>1, <2>2, NudgeAllKeeps DEF CloseHardAll, CloserKeeps
  <2>3. CASE CloseRetire
    BY <1>1, <2>3, NudgeAllKeeps DEF CloseRetire, CloserKeeps
  <2> QED
    BY <1>4, <2>1, <2>2, <2>3 DEF CloserStep
<1>5. CASE \/ \E how \in {"disconnect", "remove"} : CloseBegin(how)
           \/ \E need \in PathDemands : AcquireLease(need) \/ ArmProbe(need)
           \/ FinishProbe
           \/ \E p \in DOMAIN paths : ReleaseLease(p) \/ LosePath(p) \/ CleanupPath(p)
           \/ UNCHANGED spVars
  <2>1. UNCHANGED <<session, issued, keys, cand>>
    BY <1>5 DEF CloseBegin, AcquireLease, ArmProbe, FinishProbe, ReleaseLease, LosePath, CleanupPath, spVars
  <2> QED
    BY <1>1, <2>1, NudgeAllKeeps
<1> QED
  BY <1>2, <1>3, <1>4, <1>5 DEF SessionPathsNext

-----------------------------------------------------------------------------
(* SessionPaths: managers and paths                                        *)

\* after is before with some of the paths retired, closed or leased.
Fewer(before, after) ==
  /\ after \in Seq(SpPathRecords) /\ DOMAIN after = DOMAIN before
  /\ \A p \in DOMAIN before :
       /\ after[p].kind = before[p].kind /\ after[p].manager = before[p].manager
       /\ after[p].session = before[p].session
       /\ after[p].closes = (IF after[p].state = "closed" THEN 1 ELSE 0)
       /\ after[p].state = "ready" => before[p].state = "ready"
       /\ before[p].state = "closed" => after[p].state = "closed"

ClosesOnce(ps) == \A p \in DOMAIN ps : ps[p].closes = (IF ps[p].state = "closed" THEN 1 ELSE 0)

LEMMA SpSameLength ==
  ASSUME NEW ps \in Seq(SpPathRecords), NEW f, DOMAIN f = DOMAIN ps, f = [p \in DOMAIN f |-> f[p]],
         \A p \in DOMAIN ps : f[p] \in SpPathRecords
  PROVE  f \in Seq(SpPathRecords) /\ Len(f) = Len(ps)
<1>1. DOMAIN ps = 1 .. Len(ps) /\ Len(ps) \in Nat
  BY LenProperties
<1>2. f \in [1 .. Len(ps) -> SpPathRecords]
  BY <1>1
<1>3. f \in Seq(SpPathRecords)
  BY <1>1, <1>2
<1> QED
  BY <1>1, <1>2, <1>3, LenProperties

LEMMA CloseHardEffect ==
  ASSUME NEW ps \in Seq(SpPathRecords), ClosesOnce(ps), NEW S
  PROVE  /\ Fewer(ps, CloseHard(ps, S))
         /\ \A p \in DOMAIN ps : /\ p \in S => CloseHard(ps, S)[p].state = "closed"
                                 /\ p \notin S => CloseHard(ps, S)[p] = ps[p]
                                 /\ ps[p].state = "closed" => CloseHard(ps, S)[p] = ps[p]
<1> DEFINE after == CloseHard(ps, S)
<1>1. DOMAIN after = DOMAIN ps /\ after = [p \in DOMAIN after |-> after[p]]
  BY DEF CloseHard
<1>2. ASSUME NEW p \in DOMAIN ps
      PROVE  /\ after[p] \in SpPathRecords /\ after[p].kind = ps[p].kind /\ after[p].manager = ps[p].manager
             /\ after[p].session = ps[p].session
             /\ after[p].closes = (IF after[p].state = "closed" THEN 1 ELSE 0)
             /\ after[p].state = "ready" => ps[p].state = "ready"
             /\ ps[p].state = "closed" => after[p] = ps[p]
             /\ p \in S => after[p].state = "closed"
             /\ p \notin S => after[p] = ps[p]
  <2>1. ps[p] \in SpPathRecords /\ ps[p].closes = (IF ps[p].state = "closed" THEN 1 ELSE 0)
    BY ElementOfSeq DEF ClosesOnce
  <2>2. CASE p \in S /\ ps[p].state # "closed"
    <3>1. after[p] = [ps[p] EXCEPT !.state = "closed", !.closes = ps[p].closes + 1]
      BY <2>2 DEF CloseHard
    <3>2. after[p] = [kind |-> ps[p].kind, caps |-> ps[p].caps, session |-> ps[p].session,
                      manager |-> ps[p].manager, state |-> "closed", leases |-> ps[p].leases,
                      closes |-> ps[p].closes + 1]
      BY <2>1, <3>1 DEF SpPathRecords
    <3>3. ps[p].closes = 0
      BY <2>1, <2>2
    <3> QED
      BY <2>1, <2>2, <3>2, <3>3 DEF SpPathRecords
  <2>3. CASE ~(p \in S /\ ps[p].state # "closed")
    <3>1. after[p] = ps[p]
      <4>1. CASE p \notin S
        BY <4>1 DEF CloseHard
      <4>2. CASE ps[p].state = "closed"
        BY <4>2 DEF CloseHard
      <4> QED
        BY <2>3, <4>1, <4>2
    <3>2. p \in S => ps[p].state = "closed"
      BY <2>3
    <3> HIDE DEF after
    <3> QED
      BY <2>1, <3>1, <3>2
  <2> QED
    BY <2>2, <2>3
<1>3. after \in Seq(SpPathRecords)
  BY <1>1, <1>2, SpSameLength
<1> HIDE DEF after
<1>4. Fewer(ps, after)
  BY <1>1, <1>2, <1>3 DEF Fewer
<1> QED
  BY <1>2, <1>4 DEF after

LEMMA RetireNormalEffect ==
  ASSUME NEW ps \in Seq(SpPathRecords), ClosesOnce(ps), NEW S
  PROVE  /\ Fewer(ps, RetireNormal(ps, S))
         /\ \A p \in DOMAIN ps : /\ p \in S => RetireNormal(ps, S)[p].state # "ready"
                                 /\ p \notin S => RetireNormal(ps, S)[p] = ps[p]
<1> DEFINE after == RetireNormal(ps, S)
<1>1. DOMAIN after = DOMAIN ps /\ after = [p \in DOMAIN after |-> after[p]]
  BY DEF RetireNormal
<1>2. ASSUME NEW p \in DOMAIN ps
      PROVE  /\ after[p] \in SpPathRecords /\ after[p].kind = ps[p].kind /\ after[p].manager = ps[p].manager
             /\ after[p].session = ps[p].session
             /\ after[p].closes = (IF after[p].state = "closed" THEN 1 ELSE 0)
             /\ after[p].state = "ready" => ps[p].state = "ready"
             /\ ps[p].state = "closed" => after[p].state = "closed"
             /\ p \in S => after[p].state # "ready"
             /\ p \notin S => after[p] = ps[p]
  <2>1. ps[p] \in SpPathRecords /\ ps[p].closes = (IF ps[p].state = "closed" THEN 1 ELSE 0)
    BY ElementOfSeq DEF ClosesOnce
  <2>2. CASE p \in S /\ ps[p].state # "closed" /\ ps[p].leases = 0
    <3>1. after[p] = [ps[p] EXCEPT !.state = "closed", !.closes = ps[p].closes + 1]
      BY <2>2 DEF RetireNormal
    <3>2. after[p] = [kind |-> ps[p].kind, caps |-> ps[p].caps, session |-> ps[p].session,
                      manager |-> ps[p].manager, state |-> "closed", leases |-> ps[p].leases,
                      closes |-> ps[p].closes + 1]
      BY <2>1, <3>1 DEF SpPathRecords
    <3>3. ps[p].closes = 0
      BY <2>1, <2>2
    <3> QED
      BY <2>1, <2>2, <3>2, <3>3 DEF SpPathRecords
  <2>3. CASE p \in S /\ ps[p].state # "closed" /\ ps[p].leases # 0
    <3>1. after[p] = [ps[p] EXCEPT !.state = "draining"]
      BY <2>3 DEF RetireNormal
    <3>2. after[p] = [kind |-> ps[p].kind, caps |-> ps[p].caps, session |-> ps[p].session,
                      manager |-> ps[p].manager, state |-> "draining", leases |-> ps[p].leases, closes |-> 0]
      BY <2>1, <2>3, <3>1 DEF SpPathRecords
    <3> QED
      BY <2>1, <2>3, <3>2 DEF SpPathRecords
  <2>4. CASE ~(p \in S /\ ps[p].state # "closed")
    <3>1. after[p] = ps[p]
      <4>1. CASE p \notin S
        BY <4>1 DEF RetireNormal
      <4>2. CASE ps[p].state = "closed"
        BY <4>2 DEF RetireNormal
      <4> QED
        BY <2>4, <4>1, <4>2
    <3>2. p \in S => ps[p].state = "closed"
      BY <2>4
    <3> HIDE DEF after
    <3> QED
      BY <2>1, <3>1, <3>2
  <2> QED
    BY <2>2, <2>3, <2>4
<1>3. after \in Seq(SpPathRecords)
  BY <1>1, <1>2, SpSameLength
<1> HIDE DEF after
<1>4. Fewer(ps, after)
  BY <1>1, <1>2, <1>3 DEF Fewer
<1> QED
  BY <1>2, <1>4 DEF after

\* A lease more or less; the last one of a draining path closes it.
LEMMA LeaseEffect ==
  ASSUME NEW ps \in Seq(SpPathRecords), ClosesOnce(ps), NEW p \in DOMAIN ps, NEW after,
         \/ ps[p].leases < MaxLeases /\ after = [ps EXCEPT ![p].leases = ps[p].leases + 1]
         \/ ps[p].leases > 0 /\ after = ReleaseOne(ps, p)
  PROVE  Fewer(ps, after) /\ \A q \in DOMAIN ps : after[q].state = "ready" <=> ps[q].state = "ready"
<1>1. ps[p] \in SpPathRecords /\ ps[p].closes = (IF ps[p].state = "closed" THEN 1 ELSE 0)
  BY ElementOfSeq DEF ClosesOnce
<1>2. DOMAIN after = DOMAIN ps /\ after = [q \in DOMAIN after |-> after[q]]
      /\ \A q \in DOMAIN ps \ {p} : after[q] = ps[q]
  BY DEF ReleaseOne
<1>3. \A q \in DOMAIN ps : ps[q] \in SpPathRecords /\ ps[q].closes = (IF ps[q].state = "closed" THEN 1 ELSE 0)
  BY ElementOfSeq DEF ClosesOnce
<1>4. PICK l \in 0 .. MaxLeases, s \in {ps[p].state, "closed"} :
        /\ after[p] = [kind |-> ps[p].kind, caps |-> ps[p].caps, session |-> ps[p].session,
                       manager |-> ps[p].manager, state |-> s, leases |-> l,
                       closes |-> IF s = "closed" THEN 1 ELSE 0]
        /\ s # ps[p].state => ps[p].state = "draining"
  <2>1. CASE ps[p].leases < MaxLeases /\ after = [ps EXCEPT ![p].leases = ps[p].leases + 1]
    <3> DEFINE l == ps[p].leases + 1
    <3>1. l \in 0 .. MaxLeases
      BY <1>1, <2>1, SessionPathsAssumption DEF SpPathRecords
    <3> HIDE DEF l
    <3>2. after[p] = [kind |-> ps[p].kind, caps |-> ps[p].caps, session |-> ps[p].session,
                      manager |-> ps[p].manager, state |-> ps[p].state, leases |-> l, closes |-> ps[p].closes]
      BY <1>1, <2>1 DEF SpPathRecords, l
    <3> QED
      BY <1>1, <3>1, <3>2
  <2>2. CASE ps[p].leases > 0 /\ after = ReleaseOne(ps, p)
    <3> DEFINE l == ps[p].leases - 1
               last == ps[p].leases = 1 /\ ps[p].state = "draining"
               s == IF last THEN "closed" ELSE ps[p].state
               n == IF last THEN ps[p].closes + 1 ELSE ps[p].closes
    <3>1. l \in 0 .. MaxLeases /\ n = (IF s = "closed" THEN 1 ELSE 0) /\ s \in {ps[p].state, "closed"}
          /\ (s # ps[p].state => ps[p].state = "draining")
      BY <1>1, <2>2, SessionPathsAssumption DEF SpPathRecords
    <3>2. after[p] = [kind |-> ps[p].kind, caps |-> ps[p].caps, session |-> ps[p].session,
                      manager |-> ps[p].manager, state |-> s, leases |-> l, closes |-> n]
      BY <1>1, <2>2 DEF SpPathRecords, ReleaseOne
    <3> HIDE DEF l, last, s, n
    <3> QED
      BY <3>1, <3>2
  <2> QED
    BY <2>1, <2>2
<1>5. after[p] \in SpPathRecords /\ after[p].state = s /\ after[p].closes = (IF s = "closed" THEN 1 ELSE 0)
      /\ after[p].kind = ps[p].kind /\ after[p].manager = ps[p].manager /\ after[p].session = ps[p].session
  BY <1>1, <1>4 DEF SpPathRecords
<1>6. after \in Seq(SpPathRecords)
  BY <1>2, <1>3, <1>5, SpSameLength
<1>7. s = "ready" <=> ps[p].state = "ready"
  BY <1>4
<1>8. ps[p].state = "closed" => s = "closed"
  BY <1>4
<1> QED
  BY <1>2, <1>3, <1>5, <1>6, <1>7, <1>8 DEF Fewer

\* A manager that can still be closed: it is registered, somebody who publishes in
\* it or displaces it holds it, or the closer has taken it.
Carrying == {"publish", "project", "displace"}
Linked == Carrying \cup {"close", "unproject"}
Reach(m) ==
  current = m \/ closer.manager = m \/ \E c \in Candidates : cand[c].at \in Carrying /\ cand[c].manager = m
ClosedOff(m) == \A p \in DOMAIN paths : paths[p].manager = m => paths[p].state = "closed"
InSlot(p) == managers[paths[p].manager][paths[p].kind] = p

LEMMA LeakFacts ==
  NoLeakedPath <=> \A p \in DOMAIN paths : /\ paths[p].state = "ready" => InSlot(p)
                                           /\ managers[paths[p].manager].closed => paths[p].state = "closed"
                                           /\ paths[p].state # "closed" => Reach(paths[p].manager)
<1>1. \A m : Reach(m) <=> \/ current = m \/ Held(m, Candidates) \/ closer.manager = m
                          \/ \E c \in Candidates : cand[c].at = "displace" /\ cand[c].manager = m
  BY DEF Reach, Held, Carrying
<1> QED
  BY <1>1 DEF NoLeakedPath, InSlot

LEMMA LeakNext ==
  ASSUME \A p \in DOMAIN paths' : /\ paths'[p].state = "ready" => InSlot(p)'
                                  /\ managers'[paths'[p].manager].closed => paths'[p].state = "closed"
                                  /\ paths'[p].state # "closed" => \E m : m = paths'[p].manager /\ Reach(m)'
  PROVE  NoLeakedPath'
<1>1. ASSUME NEW m, Reach(m)'
      PROVE  \/ current' = m \/ closer'.manager = m
             \/ \E c \in Candidates : cand'[c].at \in {"publish", "project"} /\ cand'[c].manager = m
             \/ \E c \in Candidates : cand'[c].at = "displace" /\ cand'[c].manager = m
  BY <1>1 DEF Reach, Carrying
<1> QED
  BY <1>1 DEF NoLeakedPath, Held, InSlot

\* What the candidates remember outlives a step that only adds managers and paths.
LEMMA LinksKeep ==
  ASSUME LinksOK, \A d \in Candidates : Nudged(cand[d], cand'[d]) \/ LinkOK(cand[d])',
         managers \in Seq(SpManagers), managers' \in Seq(SpManagers), Len(managers) <= Len(managers'),
         \A p \in DOMAIN paths : p \in DOMAIN paths' /\ paths'[p].session = paths[p].session
  PROVE  LinksOK'
<1>1. /\ DOMAIN managers \subseteq DOMAIN managers' /\ 0 .. Len(managers) \subseteq 0 .. Len(managers')
  <2>1. /\ DOMAIN managers = 1 .. Len(managers) /\ Len(managers) \in Nat
        /\ DOMAIN managers' = 1 .. Len(managers') /\ Len(managers') \in Nat
    BY LenProperties
  <2> QED
    BY <2>1
<1>2. ASSUME NEW d \in Candidates, Nudged(cand[d], cand'[d]) PROVE LinkOK(cand[d])'
  <2>1. LinkOK(cand[d])
    BY DEF LinksOK
  <2>2. /\ cand'[d].id = cand[d].id /\ cand'[d].manager = cand[d].manager /\ cand'[d].path = cand[d].path
        /\ cand'[d].seen = cand[d].seen
        /\ \A s \in {"publish", "project", "close", "displace", "unproject"} : cand'[d].at = s => cand[d].at = s
    BY <1>2 DEF Nudged
  <2>3. cand'[d].at \in {"publish", "project", "close"} => cand'[d].manager \in DOMAIN managers'
    BY <1>1, <2>1, <2>2 DEF LinkOK
  <2>4. cand'[d].at = "displace" => cand'[d].manager \in 0 .. Len(managers')
    BY <1>1, <2>1, <2>2 DEF LinkOK
  <2>5. cand'[d].at = "project" => cand'[d].path \in DOMAIN paths' /\ paths'[cand'[d].path].session = cand'[d].id
    BY <2>1, <2>2 DEF LinkOK
  <2>6. cand'[d].at \in {"close", "unproject"} =>
          \A k \in Kinds : cand'[d].seen[k] # 0 => cand'[d].seen[k] \in DOMAIN paths'
                                                   /\ paths'[cand'[d].seen[k]].session = cand'[d].id
    BY <2>1, <2>2 DEF LinkOK
  <2> QED
    BY <2>3, <2>4, <2>5, <2>6 DEF LinkOK
<1> QED
  BY <1>2 DEF LinksOK

\* A step that at most retires or closes paths, empties slots and drops projections.
Shrunk ==
  /\ Fewer(paths, paths') /\ managers' \in Seq(SpManagers) /\ Len(managers') = Len(managers)
  /\ \A m \in DOMAIN managers :
       /\ managers'[m].direct \in {managers[m].direct, 0}
       /\ managers'[m].relay \in {managers[m].relay, 0}
       /\ managers'[m].closed => managers[m].closed \/ ClosedOff(m)'
  /\ \A p \in DOMAIN paths : paths[p].state = "ready" /\ InSlot(p) /\ paths'[p].state = "ready" => InSlot(p)'

\* A projection of a path to the session it was made for.
Shows(r) == r \in [session : Nat, path : Nat] /\ r.path \in DOMAIN paths /\ paths[r.path].session = r.session

LEMMA ShrinkKeeps ==
  ASSUME PathInv, \A d \in Candidates : Nudged(cand[d], cand'[d]) \/ LinkOK(cand[d])', Shrunk,
         \A m \in DOMAIN managers : Reach(m) => Reach(m)' \/ ClosedOff(m)',
         DOMAIN projected' = Kinds, projected' = [k \in Kinds |-> projected'[k]],
         \A k \in Kinds : projected'[k] \in {projected[k], NoProjection} \/ Shows(projected'[k]),
         current' \in 0 .. Len(managers), closer' \in SpClosers, closer'.manager \in 0 .. Len(managers),
         closer'.at \in {"idle", "unmap"} => closer'.manager = 0
  PROVE  PathInv'
<1>a. Fewer(paths, paths') /\ managers' \in Seq(SpManagers) /\ Len(managers') = Len(managers)
  BY DEF Shrunk
<1>b. \A m \in DOMAIN managers : /\ managers'[m].direct \in {managers[m].direct, 0}
                                 /\ managers'[m].relay \in {managers[m].relay, 0}
                                 /\ managers'[m].closed => managers[m].closed \/ ClosedOff(m)'
  BY DEF Shrunk
<1>c. \A p \in DOMAIN paths : paths[p].state = "ready" /\ InSlot(p) /\ paths'[p].state = "ready" => InSlot(p)'
  BY DEF Shrunk
<1> USE <1>a, <1>b, <1>c
<1>1. /\ managers \in Seq(SpManagers) /\ paths \in Seq(SpPathRecords) /\ paths' \in Seq(SpPathRecords)
      /\ DOMAIN paths' = DOMAIN paths
  BY DEF PathInv, ManagersOK, SpPathsOK, Fewer
<1>2. /\ DOMAIN managers = 1 .. Len(managers) /\ Len(managers) \in Nat /\ DOMAIN managers' = DOMAIN managers
      /\ DOMAIN paths = 1 .. Len(paths) /\ Len(paths) \in Nat /\ Len(paths') = Len(paths)
  <2>1. /\ DOMAIN managers = 1 .. Len(managers) /\ Len(managers) \in Nat
        /\ DOMAIN managers' = 1 .. Len(managers')
        /\ DOMAIN paths = 1 .. Len(paths) /\ Len(paths) \in Nat
        /\ DOMAIN paths' = 1 .. Len(paths') /\ Len(paths') \in Nat
    BY <1>1, LenProperties
  <2> QED
    BY <1>1, <2>1
<1>3. ManagersOK'
  <2>1. \A m \in DOMAIN managers : managers[m].direct \in 0 .. Len(paths) /\ managers[m].relay \in 0 .. Len(paths)
    BY DEF PathInv, ManagersOK
  <2>2. \A m \in DOMAIN managers' : managers'[m].direct \in 0 .. Len(paths') /\ managers'[m].relay \in 0 .. Len(paths')
    BY <1>2, <2>1
  <2> QED
    BY <2>2 DEF ManagersOK
<1>4. CarrierClosedOnce'
  BY <1>1 DEF CarrierClosedOnce, Fewer
<1>5. \A p \in DOMAIN paths : /\ paths[p].manager \in DOMAIN managers /\ paths'[p].manager = paths[p].manager
                              /\ paths[p].state = "ready" => InSlot(p)
                              /\ managers[paths[p].manager].closed => paths[p].state = "closed"
                              /\ paths[p].state # "closed" => Reach(paths[p].manager)
                              /\ paths'[p].state = "ready" => paths[p].state = "ready"
                              /\ paths[p].state = "closed" => paths'[p].state = "closed"
                              /\ paths'[p].session = paths[p].session
  BY LeakFacts DEF PathInv, SpPathsOK, Fewer
<1>6. ASSUME NEW p \in DOMAIN paths
      PROVE  /\ paths'[p].state = "ready" => InSlot(p)'
             /\ managers'[paths'[p].manager].closed => paths'[p].state = "closed"
             /\ paths'[p].state # "closed" => Reach(paths[p].manager)'
  <2> DEFINE m == paths[p].manager
  <2>1. m \in DOMAIN managers /\ paths'[p].manager = m
    BY <1>5
  <2>2. paths'[p].state = "ready" => InSlot(p)'
    BY <1>5
  <2>3. ClosedOff(m)' => paths'[p].state = "closed"
    BY <1>1, <2>1 DEF ClosedOff
  <2>4. managers'[m].closed => paths'[p].state = "closed"
    BY <1>5, <2>1, <2>3
  <2>5. paths'[p].state # "closed" => Reach(m)'
    BY <1>5, <2>1, <2>3
  <2> QED
    BY <2>1, <2>2, <2>4, <2>5
<1>7. NoLeakedPath'
  <2> SUFFICES ASSUME NEW p \in DOMAIN paths'
               PROVE  /\ paths'[p].state = "ready" => managers'[paths'[p].manager][paths'[p].kind] = p
                      /\ managers'[paths'[p].manager].closed => paths'[p].state = "closed"
                      /\ paths'[p].state # "closed" =>
                           \/ current' = paths'[p].manager \/ closer'.manager = paths'[p].manager
                           \/ \E c \in Candidates : cand'[c].at \in Carrying /\ cand'[c].manager = paths'[p].manager
    BY DEF NoLeakedPath, Held, Carrying
  <2>2. p \in DOMAIN paths /\ paths'[p].manager = paths[p].manager
    BY <1>1, <1>5
  <2>3. /\ paths'[p].state = "ready" => managers'[paths'[p].manager][paths'[p].kind] = p
        /\ managers'[paths'[p].manager].closed => paths'[p].state = "closed"
    BY <1>6, <2>2 DEF InSlot
  <2>4. paths'[p].state # "closed" => Reach(paths[p].manager)'
    BY <1>6, <2>2
  <2>5. paths'[p].state # "closed" =>
          \/ current' = paths[p].manager' \/ closer'.manager = paths[p].manager'
          \/ \E c \in Candidates : cand'[c].at \in Carrying /\ cand'[c].manager = paths[p].manager'
    BY <2>4 DEF Reach
  <2> QED
    BY <2>3, <2>5
<1>8. SpPathsOK'
  BY <1>1, <1>2, <1>4, <1>5, <1>7 DEF SpPathsOK
<1>9. ProjectionsOK'
  <2>0. NoProjection \in [session : Nat, path : Nat] /\ projected \in [Kinds -> [session : Nat, path : Nat]]
    BY DEF PathInv, ProjectionsOK, NoProjection
  <2>1. \A k \in Kinds : projected'[k] \in [session : Nat, path : Nat]
    BY <2>0 DEF Shows
  <2>2. \A k \in Kinds : projected'[k].path # 0 => projected'[k] = projected[k] \/ Shows(projected'[k])
    BY DEF NoProjection
  <2>3. \A k \in Kinds : projected'[k].path # 0 =>
          projected'[k].path \in DOMAIN paths' /\ paths'[projected'[k].path].session = projected'[k].session
    <3> SUFFICES ASSUME NEW k \in Kinds, projected'[k].path # 0
                 PROVE  projected'[k].path \in DOMAIN paths' /\ paths'[projected'[k].path].session = projected'[k].session
      OBVIOUS
    <3>1. projected'[k].path \in DOMAIN paths /\ paths[projected'[k].path].session = projected'[k].session
      BY <2>2 DEF PathInv, ProjectionsOK, Shows
    <3> QED
      BY <1>1, <1>5, <3>1
  <2> QED
    BY <2>1, <2>3 DEF ProjectionsOK
<1>10. LinksOK'
  <2>1. LinksOK /\ Len(managers) <= Len(managers')
    BY <1>2 DEF PathInv
  <2>2. \A p \in DOMAIN paths : p \in DOMAIN paths' /\ paths'[p].session = paths[p].session
    BY <1>1, <1>5
  <2> QED
    BY <1>1, <2>1, <2>2, LinksKeep
<1> QED
  BY <1>3, <1>8, <1>9, <1>10 DEF PathInv

LEMMA FewerSelf ==
  ASSUME NEW ps \in Seq(SpPathRecords), ClosesOnce(ps)
  PROVE  Fewer(ps, ps)
BY DEF Fewer, ClosesOnce

\* A record that names neither a manager nor a path.
LEMMA UnlinkedOK == ASSUME NEW c, cand'[c].at \notin Linked PROVE LinkOK(cand[c])'
BY DEF LinkOK, Linked, Carrying

\* Whoever holds a manager goes on holding it.
LEMMA ReachKeeps ==
  ASSUME current' = current, closer'.manager = closer.manager,
         \A d \in Candidates : Nudged(cand[d], cand'[d]) \/ cand[d].at \notin Carrying
  PROVE  \A m : Reach(m) => Reach(m)'
<1>1. \A d \in Candidates : cand[d].at \in Carrying => cand'[d].at = cand[d].at /\ cand'[d].manager = cand[d].manager
  BY DEF Nudged, Carrying
<1> QED
  BY <1>1 DEF Reach

\* A step that leaves managers, paths and projections alone.
LEMMA NeutralKeeps ==
  ASSUME PathInv, UNCHANGED <<managers, paths, projected, current>>,
         closer' \in SpClosers, closer'.manager = closer.manager,
         closer'.at \in {"idle", "unmap"} => closer.manager = 0,
         \A d \in Candidates : Nudged(cand[d], cand'[d]) \/ (cand[d].at \notin Carrying /\ LinkOK(cand[d])')
  PROVE  PathInv'
<1>1. Fewer(paths, paths')
  BY FewerSelf DEF PathInv, SpPathsOK, CarrierClosedOnce, ClosesOnce
<1>2. \A m : Reach(m) => Reach(m)'
  BY ReachKeeps
<1>3. /\ managers' \in Seq(SpManagers) /\ projected' \in [Kinds -> [session : Nat, path : Nat]]
      /\ current' \in 0 .. Len(managers) /\ closer'.manager \in 0 .. Len(managers)
  BY DEF PathInv, ManagersOK, ProjectionsOK
<1>4. \A p \in DOMAIN paths : InSlot(p) => InSlot(p)'
  BY DEF InSlot
<1>5. Shrunk
  BY <1>1, <1>3, <1>4 DEF Shrunk
<1> QED
  BY <1>2, <1>3, <1>5, ShrinkKeeps

\* The same for the step of one candidate that is not publishing.
LEMMA NeutralMove ==
  ASSUME PathInv, NEW c \in Candidates, OnlyMoves(c), cand[c].at \notin Carrying, cand'[c].at \notin Linked,
         UNCHANGED <<managers, paths, projected, current, closer>>
  PROVE  PathInv'
<1>1. \A d \in Candidates : Nudged(cand[d], cand'[d]) \/ (cand[d].at \notin Carrying /\ LinkOK(cand[d])')
  BY UnlinkedOK DEF OnlyMoves
<1>2. closer \in SpClosers /\ (closer.at \in {"idle", "unmap"} => closer.manager = 0)
  BY DEF PathInv, ManagersOK
<1> QED
  BY <1>1, <1>2, NeutralKeeps

\* The steps of a candidate before and after publication.
LEMMA NeutralSteps ==
  ASSUME SpInv, NEW c \in Candidates,
         \/ BeginConnect(c) \/ Accept(c) \/ SingleWinner(c) \/ (\E b \in Bindings : Admit(c, b)) \/ RetryCheck(c)
         \/ Finalize(c) \/ InstallCheck(c) \/ InstallCrypto(c) \/ Attach(c) \/ Recheck(c) \/ Discard(c)
         \/ NotifyReleased(c) \/ FailRetire(c)
  PROVE  PathInv'
<1>1. /\ PathInv /\ cand \in [Candidates -> SpCands] /\ cand[c] \in SpCands /\ issued \in Nat /\ session.id \in Nat
  BY DEF SpInv, SessInv, CandOK, SessOK
<1>2. UNCHANGED <<managers, paths, projected, current, closer>>
  BY DEF BeginConnect, Accept, SingleWinner, Admit, RetryCheck, Finalize, InstallCheck, InstallCrypto, Attach,
         Recheck, Discard, NotifyReleased, FailRetire
<1>3. cand[c].at \notin Carrying
  BY DEF BeginConnect, Accept, SingleWinner, Admit, RetryCheck, Finalize, InstallCheck, InstallCrypto, Attach,
         Recheck, Discard, NotifyReleased, FailRetire, Carrying
<1> DEFINE Plain == {"idle", "lost", "reserved", "admit", "stale", "admitted", "check", "install", "attach",
                     "manager", "online", "discard", "notify", "fail"}
<1>4. ASSUME NEW s \in Plain, To(c, s) \/ cand' = Woken(At(c, s))
      PROVE  OnlyMoves(c) /\ cand'[c].at \notin Linked
  <2>1. s \in SpStages \ {"wait"} /\ s \notin Linked
    BY DEF SpStages, Holding, Linked, Carrying
  <2> QED
    BY <1>1, <1>4, <2>1, ToMoves
<1>5. ASSUME NEW cs \in [Candidates -> SpCands], \A d \in Candidates \ {c} : cs[d] = cand[d],
             cs[c].at \in Plain \cup {"wait", "unmap"}, cand' = cs \/ cand' = Woken(cs)
      PROVE  OnlyMoves(c) /\ cand'[c].at \notin Linked
  <2>1. OnlyMoves(c) /\ Nudged(cs[c], cand'[c])
    BY <1>5, EditMoves
  <2> QED
    BY <1>5, <2>1 DEF Nudged, Linked, Carrying
<1>6. Refused(c) \in Plain
  BY DEF Refused
<1>7. CASE \/ Accept(c) \/ Finalize(c) \/ InstallCheck(c) \/ InstallCrypto(c) \/ Attach(c) \/ Recheck(c)
           \/ Discard(c) \/ NotifyReleased(c) \/ FailRetire(c)
  <2>1. PICK s \in Plain : To(c, s) \/ cand' = Woken(At(c, s))
    <3>1. CASE Accept(c) \/ Finalize(c) \/ InstallCheck(c) \/ InstallCrypto(c)
      BY <3>1 DEF Accept, Finalize, InstallCheck, InstallCrypto
    <3>2. CASE Attach(c) \/ Recheck(c)
      BY <1>6, <3>2 DEF Attach, Recheck
    <3>3. CASE Discard(c) \/ NotifyReleased(c) \/ FailRetire(c)
      BY <3>3 DEF Discard, NotifyReleased, FailRetire, To
    <3> QED
      BY <1>7, <3>1, <3>2, <3>3
  <2> QED
    BY <1>1, <1>2, <1>3, <1>4, <2>1, NeutralMove
<1>8. CASE BeginConnect(c)
  <2>1. PICK n \in Nat, o \in BOOLEAN : cand' = [cand EXCEPT ![c].at = "reserved", ![c].id = n, ![c].owner = o]
    <3>1. CASE cand' = [cand EXCEPT ![c].at = "reserved", ![c].id = issued + 1, ![c].owner = TRUE]
      <4> DEFINE n == issued + 1
      <4>1. n \in Nat
        BY <1>1
      <4>2. cand' = [cand EXCEPT ![c].at = "reserved", ![c].id = n, ![c].owner = TRUE]
        BY <3>1
      <4> HIDE DEF n
      <4> QED
        BY <4>1, <4>2
    <3>2. CASE cand' = [cand EXCEPT ![c].at = "reserved", ![c].id = session.id]
      <4>1. cand[c].owner \in BOOLEAN
        BY <1>1 DEF SpCands
      <4>2. cand' = [cand EXCEPT ![c].at = "reserved", ![c].id = session.id, ![c].owner = cand[c].owner]
        BY <1>1, <3>2 DEF SpCands
      <4> QED
        BY <1>1, <4>1, <4>2
    <3> QED
      BY <1>8, <3>1, <3>2 DEF BeginConnect
  <2> DEFINE cs == [cand EXCEPT ![c].at = "reserved", ![c].id = n, ![c].owner = o]
  <2>2. cs \in [Candidates -> SpCands] /\ cs[c].at = "reserved" /\ \A d \in Candidates \ {c} : cs[d] = cand[d]
    BY <1>1 DEF SpCands, SpStages
  <2>3. cand' = cs
    BY <2>1
  <2> HIDE DEF cs
  <2> QED
    BY <1>1, <1>2, <1>3, <1>5, <2>2, <2>3, NeutralMove
<1>9. CASE SingleWinner(c)
  <2>1. CASE cand' = At(c, "lost")
    BY <1>1, <1>2, <1>3, <1>4, <2>1, NeutralMove DEF To
  <2>2. CASE cand' = [cand EXCEPT ![c].at = "admit", ![c].armed = TRUE]
    <3> DEFINE cs == [cand EXCEPT ![c].at = "admit", ![c].armed = TRUE]
    <3>1. cs \in [Candidates -> SpCands] /\ cs[c].at = "admit" /\ \A d \in Candidates \ {c} : cs[d] = cand[d]
      BY <1>1 DEF SpCands, SpStages
    <3>2. cand' = cs
      BY <2>2
    <3> HIDE DEF cs
    <3> QED
      BY <1>1, <1>2, <1>3, <1>5, <3>1, <3>2, NeutralMove
  <2> QED
    BY <1>9, <2>1, <2>2 DEF SingleWinner
<1>10. ASSUME NEW b \in Bindings, Admit(c, b) PROVE PathInv'
  <2> DEFINE Enter(stage, id, old) == [cand EXCEPT ![c].at = stage, ![c].id = id, ![c].binding = b,
                                                   ![c].replaced = old, ![c].armed = FALSE]
  <2>1. ASSUME NEW s \in {"admitted", "unmap"}, NEW id \in Nat, NEW old \in Nat,
               cand' = Enter(s, id, old) \/ cand' = Woken(Enter(s, id, old))
        PROVE  PathInv'
    <3> DEFINE cs == Enter(s, id, old)
    <3>1. cs \in [Candidates -> SpCands] /\ cs[c].at = s /\ \A d \in Candidates \ {c} : cs[d] = cand[d]
      BY <1>1 DEF SpCands, SpStages, Holding
    <3>2. cand' = cs \/ cand' = Woken(cs)
      BY <2>1
    <3> HIDE DEF cs
    <3> QED
      BY <1>1, <1>2, <1>3, <1>5, <3>1, <3>2, NeutralMove
  <2>2. CASE To(c, "stale")
    BY <1>1, <1>2, <1>3, <1>4, <2>2, NeutralMove
  <2>3. CASE cand' = Woken(Enter("admitted", session.id, 0))
    BY <1>1, <2>1, <2>3
  <2>4. CASE cand' = Woken(Enter("admitted", issued + 1, 0)) \/ cand' = Enter("unmap", issued + 1, session.id)
    <3>1. issued + 1 \in Nat
      BY <1>1
    <3> QED
      BY <1>1, <2>1, <2>4, <3>1, Zenon
  <2> HIDE DEF Enter
  <2>5. To(c, "stale") \/ cand' = Woken(Enter("admitted", session.id, 0))
        \/ cand' = Woken(Enter("admitted", issued + 1, 0)) \/ cand' = Enter("unmap", issued + 1, session.id)
    BY <1>10 DEF Admit, Enter
  <2> QED
    BY <2>2, <2>3, <2>4, <2>5
<1>11. CASE RetryCheck(c)
  <2>1. CASE To(c, "lost") \/ To(c, "reserved")
    BY <1>1, <1>2, <1>3, <1>4, <2>1, NeutralMove
  <2>2. CASE To(c, "wait")
    <3> DEFINE cs == [cand EXCEPT ![c].at = "wait"]
    <3>1. cs \in [Candidates -> SpCands] /\ cs[c].at = "wait" /\ \A d \in Candidates \ {c} : cs[d] = cand[d]
      BY <1>1 DEF SpCands, SpStages
    <3>2. cand' = cs
      BY <2>2 DEF To, At
    <3> HIDE DEF cs
    <3> QED
      BY <1>1, <1>2, <1>3, <1>5, <3>1, <3>2, NeutralMove
  <2> QED
    BY <1>11, <2>1, <2>2 DEF RetryCheck
<1> QED
  BY <1>7, <1>8, <1>9, <1>10, <1>11

LEMMA PathFacts ==
  ASSUME PathInv
  PROVE  /\ paths \in Seq(SpPathRecords) /\ ClosesOnce(paths) /\ Len(paths) \in Nat /\ DOMAIN paths = 1 .. Len(paths)
         /\ managers \in Seq(SpManagers) /\ Len(managers) \in Nat /\ DOMAIN managers = 1 .. Len(managers)
         /\ \A m \in DOMAIN managers : managers[m] \in SpManagers
         /\ \A p \in DOMAIN paths : paths[p] \in SpPathRecords /\ paths[p].manager \in DOMAIN managers
         /\ projected \in [Kinds -> [session : Nat, path : Nat]]
         /\ current \in 0 .. Len(managers) /\ closer.manager \in 0 .. Len(managers)
         /\ closer.at \in {"idle", "unmap"} => closer.manager = 0
         /\ closer \in SpClosers
<1>1. /\ paths \in Seq(SpPathRecords) /\ managers \in Seq(SpManagers) /\ CarrierClosedOnce
      /\ \A p \in DOMAIN paths : paths[p].manager \in DOMAIN managers
      /\ projected \in [Kinds -> [session : Nat, path : Nat]]
      /\ current \in 0 .. Len(managers) /\ closer.manager \in 0 .. Len(managers)
      /\ closer.at \in {"idle", "unmap"} => closer.manager = 0
      /\ closer \in SpClosers
  BY DEF PathInv, SpPathsOK, ManagersOK, ProjectionsOK
<1>2. ClosesOnce(paths)
  BY <1>1 DEF CarrierClosedOnce, ClosesOnce
<1>3. /\ Len(paths) \in Nat /\ DOMAIN paths = 1 .. Len(paths)
      /\ Len(managers) \in Nat /\ DOMAIN managers = 1 .. Len(managers)
  BY <1>1, LenProperties
<1>4. /\ \A m \in DOMAIN managers : managers[m] \in SpManagers
      /\ \A p \in DOMAIN paths : paths[p] \in SpPathRecords
  BY <1>1, <1>3, ElementOfSeq
<1> QED
  BY <1>1, <1>2, <1>3, <1>4

LEMMA ManagerWritten ==
  ASSUME managers \in Seq(SpManagers), NEW m \in DOMAIN managers, NEW r \in SpManagers,
         managers' = [managers EXCEPT ![m] = r]
  PROVE  /\ managers' \in Seq(SpManagers) /\ Len(managers') = Len(managers) /\ DOMAIN managers' = DOMAIN managers
         /\ managers'[m] = r /\ \A n \in DOMAIN managers \ {m} : managers'[n] = managers[n]
<1>1. DOMAIN managers = 1 .. Len(managers) /\ Len(managers) \in Nat
  BY LenProperties
<1>2. managers' \in [1 .. Len(managers) -> SpManagers]
  BY <1>1, ElementOfSeq
<1>3. managers' \in Seq(SpManagers)
  BY <1>1, <1>2
<1> QED
  BY <1>1, <1>2, <1>3, LenProperties

\* hard_close of a manager
LEMMA ManagerDropped ==
  ASSUME PathInv, NEW m \in DOMAIN managers, managers' = [managers EXCEPT ![m] = ClosedManager],
         NEW S, PathsOf(m) \subseteq S, paths' = CloseHard(paths, S)
  PROVE  Shrunk /\ ClosedOff(m)'
<1>1. /\ ClosedManager \in SpManagers /\ ClosedManager.direct = 0 /\ ClosedManager.relay = 0
  BY DEF ClosedManager, FreshManager, SpManagers, NoProbe
<1>2. /\ managers' \in Seq(SpManagers) /\ Len(managers') = Len(managers) /\ DOMAIN managers' = DOMAIN managers
      /\ managers'[m] = ClosedManager /\ \A n \in DOMAIN managers \ {m} : managers'[n] = managers[n]
  BY <1>1, ManagerWritten, PathFacts
<1>3. /\ Fewer(paths, paths')
      /\ \A p \in DOMAIN paths : p \in S => paths'[p].state = "closed"
  BY PathFacts, CloseHardEffect
<1>4. DOMAIN paths' = DOMAIN paths /\ \A p \in DOMAIN paths : paths'[p].manager = paths[p].manager /\ paths'[p].kind = paths[p].kind
  BY <1>3 DEF Fewer
<1>5. ClosedOff(m)'
  BY <1>3, <1>4 DEF ClosedOff, PathsOf
<1>6. ASSUME NEW p \in DOMAIN paths, InSlot(p), paths'[p].state = "ready" PROVE InSlot(p)'
  <2>1. p \notin PathsOf(m)
    BY <1>3, <1>6
  <2>2. paths[p].manager \in DOMAIN managers \ {m}
    BY <2>1, PathFacts DEF PathsOf
  <2> QED
    BY <1>2, <1>4, <1>6, <2>2 DEF InSlot
<1>7. \A n \in DOMAIN managers : /\ managers'[n].direct \in {managers[n].direct, 0}
                                 /\ managers'[n].relay \in {managers[n].relay, 0}
                                 /\ managers'[n].closed => managers[n].closed \/ ClosedOff(n)'
  BY <1>1, <1>2, <1>5
<1> QED
  BY <1>2, <1>3, <1>5, <1>6, <1>7 DEF Shrunk

\* Paths go and the slots stay.
LEMMA PathsTaken ==
  ASSUME PathInv, managers' = managers, Fewer(paths, paths')
  PROVE  Shrunk
<1>1. DOMAIN paths' = DOMAIN paths /\ \A p \in DOMAIN paths : paths'[p].manager = paths[p].manager /\ paths'[p].kind = paths[p].kind
  BY DEF Fewer
<1>2. \A p \in DOMAIN paths : InSlot(p) => InSlot(p)'
  BY <1>1 DEF InSlot
<1> QED
  BY <1>2, PathFacts DEF Shrunk

\* The steps of whoever disconnects or removes the peer.
LEMMA CloserPaths ==
  ASSUME SpInv, CloserStep \/ \E how \in {"disconnect", "remove"} : CloseBegin(how)
  PROVE  PathInv'
<1>1. PathInv /\ session.id \in Nat /\ cand \in [Candidates -> SpCands]
  BY DEF SpInv, SessInv, SessOK, CandOK
<1>2. /\ closer \in SpClosers /\ closer.manager \in 0 .. Len(managers) /\ current \in 0 .. Len(managers)
      /\ closer.at \in {"idle", "unmap"} => closer.manager = 0
      /\ Len(managers) \in Nat /\ DOMAIN managers = 1 .. Len(managers)
      /\ projected \in [Kinds -> [session : Nat, path : Nat]]
      /\ paths \in Seq(SpPathRecords) /\ ClosesOnce(paths)
  BY <1>1, PathFacts
<1>3. \A d \in Candidates : Nudged(cand[d], cand'[d])
  BY <1>1, WokenNudges, NudgedSelf DEF CloserStep, CloseUnmap, CloseHardAll, CloseRevoke, CloseRetire, CloseBegin
<1>4. CASE \E how \in {"disconnect", "remove"} : CloseBegin(how)
  <2>1. closer' \in SpClosers /\ closer'.manager = closer.manager /\ closer.manager = 0
    BY <1>1, <1>2, <1>4 DEF CloseBegin, SpClosers
  <2>2. UNCHANGED <<managers, paths, projected, current>>
    BY <1>4 DEF CloseBegin
  <2> QED
    BY <1>1, <1>3, <2>1, <2>2, NeutralKeeps
<1>5. CASE CloseRetire
  <2>1. closer' \in SpClosers /\ closer'.manager = closer.manager /\ closer'.at = "done"
    BY <1>2, <1>5 DEF CloseRetire, SpClosers
  <2>2. UNCHANGED <<managers, paths, projected, current>>
    BY <1>5 DEF CloseRetire
  <2> QED
    BY <1>1, <1>3, <2>1, <2>2, NeutralKeeps
<1>6. CASE CloseUnmap
  <2>0. current \in Nat /\ closer' = [closer EXCEPT !.at = "hard", !.manager = current] /\ current' = 0
    BY <1>2, <1>6 DEF CloseUnmap
  <2>1. closer' \in SpClosers /\ closer'.manager = current /\ closer'.at = "hard" /\ current' = 0
    BY <1>2, <2>0 DEF SpClosers
  <2>2. UNCHANGED <<managers, paths, projected, cand>> /\ closer.manager = 0
    BY <1>2, <1>6 DEF CloseUnmap
  <2>3. Shrunk
    BY <1>1, <1>2, <2>2, FewerSelf, PathsTaken
  <2>4. \A m \in DOMAIN managers : Reach(m) => Reach(m)'
    BY <1>2, <2>1, <2>2 DEF Reach
  <2> QED
    BY <1>1, <1>2, <1>3, <2>1, <2>2, <2>3, <2>4, ShrinkKeeps
<1>7. CASE CloseHardAll
  <2>1. closer' \in SpClosers /\ closer'.manager = closer.manager /\ closer'.at \notin {"idle", "unmap"}
    BY <1>2, <1>7 DEF CloseHardAll, SpClosers
  <2>2. UNCHANGED current /\ projected' = [k \in Kinds |-> NoProjection]
    BY <1>7 DEF CloseHardAll
  <2>3. Shrunk
    <3>1. CASE closer.manager = 0
      BY <1>1, <1>2, <1>7, <3>1, CloseHardEffect, PathsTaken DEF CloseHardAll
    <3>2. CASE closer.manager # 0
      <4>1. closer.manager \in DOMAIN managers
        BY <1>2, <3>2
      <4> QED
        BY <1>1, <1>7, <3>2, <4>1, ManagerDropped DEF CloseHardAll
    <3> QED
      BY <3>1, <3>2
  <2>4. \A m \in DOMAIN managers : Reach(m) => Reach(m)'
    BY <1>3, <2>1, <2>2, ReachKeeps
  <2> QED
    BY <1>1, <1>2, <1>3, <2>1, <2>2, <2>3, <2>4, ShrinkKeeps
<1>8. CASE CloseRevoke
  <2>1. closer' \in SpClosers /\ closer'.manager = closer.manager /\ closer'.at = "retire" /\ current' = 0
    BY <1>1, <1>2, <1>8 DEF CloseRevoke, SpClosers
  <2>2. UNCHANGED <<projected, cand>>
    BY <1>8 DEF CloseRevoke
  <2>3. CASE current # 0 /\ ~Held(current, Candidates)
    <3>1. current \in DOMAIN managers
      BY <1>2, <2>3
    <3>2. Shrunk /\ \A m \in DOMAIN managers : m = current => ClosedOff(m)'
      <4> DEFINE S == {p \in DOMAIN paths : paths[p].state = "ready"} \cup PathsOf(current)
      <4>1. managers' = [managers EXCEPT ![current] = ClosedManager] /\ paths' = CloseHard(paths, S)
        BY <1>8, <2>3 DEF CloseRevoke
      <4>2. PathsOf(current) \subseteq S
        OBVIOUS
      <4> HIDE DEF S
      <4>3. \A m \in DOMAIN managers : m = current => Shrunk /\ ClosedOff(m)'
        BY <1>1, <4>1, <4>2, ManagerDropped
      <4>4. Shrunk
        BY <3>1, <4>3
      <4> QED
        BY <4>3, <4>4
    <3>3. \A m \in DOMAIN managers : Reach(m) => Reach(m)' \/ m = current
      BY <2>1, <2>2 DEF Reach
    <3>4. \A m \in DOMAIN managers : Reach(m) => Reach(m)' \/ ClosedOff(m)'
      BY <3>2, <3>3
    <3> QED
      BY <1>1, <1>2, <1>3, <2>1, <2>2, <3>2, <3>4, ShrinkKeeps
  <2>4. CASE current = 0 \/ Held(current, Candidates)
    <3>1. Shrunk
      BY <1>1, <1>2, <1>8, <2>4, CloseHardEffect, PathsTaken DEF CloseRevoke
    <3>2. \A m \in DOMAIN managers : Reach(m) => Reach(m)'
      BY <1>2, <2>1, <2>2, <2>4 DEF Reach, Held, Carrying
    <3> QED
      BY <1>1, <1>2, <1>3, <2>1, <2>2, <3>1, <3>2, ShrinkKeeps
  <2> QED
    BY <2>3, <2>4
<1> QED
  BY <1>4, <1>5, <1>6, <1>7, <1>8 DEF CloserStep

LEMMA ManagerEdits ==
  ASSUME NEW mg \in SpManagers, NEW x, NEW y, NEW z
  PROVE  /\ [mg EXCEPT !.direct = x, !.probe = z] = [direct |-> x, relay |-> mg.relay, probe |-> z, closed |-> mg.closed]
         /\ [mg EXCEPT !.relay = y, !.probe = z] = [direct |-> mg.direct, relay |-> y, probe |-> z, closed |-> mg.closed]
<1>1. mg = [direct |-> mg.direct, relay |-> mg.relay, probe |-> mg.probe, closed |-> mg.closed]
  BY DEF SpManagers
<1>2. [mg EXCEPT !.direct = x] = [direct |-> x, relay |-> mg.relay, probe |-> mg.probe, closed |-> mg.closed]
  BY <1>1
<1>3. [mg EXCEPT !.relay = y] = [direct |-> mg.direct, relay |-> y, probe |-> mg.probe, closed |-> mg.closed]
  BY <1>1
<1>4. ASSUME NEW f, NEW a, NEW b, NEW c, NEW d, f = [direct |-> a, relay |-> b, probe |-> c, closed |-> d]
      PROVE  [f EXCEPT !.probe = z] = [direct |-> a, relay |-> b, probe |-> z, closed |-> d]
  BY <1>4
<1> DEFINE f == [mg EXCEPT !.direct = x]  g == [mg EXCEPT !.relay = y]
<1>5. [f EXCEPT !.probe = z] = [direct |-> x, relay |-> mg.relay, probe |-> z, closed |-> mg.closed]
  <2>1. f = [direct |-> x, relay |-> mg.relay, probe |-> mg.probe, closed |-> mg.closed]
    BY <1>2
  <2> HIDE DEF f
  <2> QED
    BY <1>4, <2>1
<1>6. [g EXCEPT !.probe = z] = [direct |-> mg.direct, relay |-> y, probe |-> z, closed |-> mg.closed]
  <2>1. g = [direct |-> mg.direct, relay |-> y, probe |-> mg.probe, closed |-> mg.closed]
    BY <1>3
  <2> HIDE DEF g
  <2> QED
    BY <1>4, <2>1
<1> QED
  BY <1>5, <1>6

\* Slots of one manager are emptied together with the paths they hold.
LEMMA SlotsEmptied ==
  ASSUME PathInv, NEW m \in DOMAIN managers, NEW r \in SpManagers, managers' = [managers EXCEPT ![m] = r],
         r.direct \in {managers[m].direct, 0}, r.relay \in {managers[m].relay, 0}, r.closed = managers[m].closed,
         Fewer(paths, paths'),
         \A p \in DOMAIN paths : paths'[p].state = "ready" => /\ p = managers[m].direct => r.direct = p
                                                              /\ p = managers[m].relay => r.relay = p
  PROVE  Shrunk
<1>1. /\ managers' \in Seq(SpManagers) /\ Len(managers') = Len(managers) /\ DOMAIN managers' = DOMAIN managers
      /\ managers'[m] = r /\ \A n \in DOMAIN managers \ {m} : managers'[n] = managers[n]
  BY ManagerWritten, PathFacts
<1>2. DOMAIN paths' = DOMAIN paths /\ \A p \in DOMAIN paths : paths'[p].manager = paths[p].manager /\ paths'[p].kind = paths[p].kind
  BY DEF Fewer
<1>3. \A n \in DOMAIN managers : /\ managers'[n].direct \in {managers[n].direct, 0}
                                 /\ managers'[n].relay \in {managers[n].relay, 0}
                                 /\ managers'[n].closed => managers[n].closed \/ ClosedOff(n)'
  BY <1>1
<1>4. ASSUME NEW p \in DOMAIN paths, InSlot(p), paths'[p].state = "ready" PROVE InSlot(p)'
  <2>1. paths[p].kind \in {"direct", "relay"} /\ paths[p].manager \in DOMAIN managers
    BY PathFacts DEF SpPathRecords, Kinds
  <2>2. CASE paths[p].manager # m
    BY <1>1, <1>2, <1>4, <2>1, <2>2 DEF InSlot
  <2>3. CASE paths[p].manager = m /\ paths[p].kind = "direct"
    <3>1. managers[m].direct = p
      BY <1>4, <2>3 DEF InSlot
    <3>2. managers'[m].direct = p
      BY <1>1, <1>4, <3>1
    <3> QED
      BY <1>2, <2>3, <3>2 DEF InSlot
  <2>4. CASE paths[p].manager = m /\ paths[p].kind = "relay"
    <3>1. managers[m].relay = p
      BY <1>4, <2>4 DEF InSlot
    <3>2. managers'[m].relay = p
      BY <1>1, <1>4, <3>1
    <3> QED
      BY <1>2, <2>4, <3>2 DEF InSlot
  <2> QED
    BY <2>1, <2>2, <2>3, <2>4
<1> QED
  BY <1>1, <1>3, <1>4 DEF Shrunk

\* Whatever shrinks while candidates and closer rest.
LEMMA RestKeeps ==
  ASSUME PathInv, Shrunk, UNCHANGED <<cand, closer, current>>,
         DOMAIN projected' = Kinds, projected' = [k \in Kinds |-> projected'[k]],
         \A k \in Kinds : projected'[k] \in {projected[k], NoProjection}
  PROVE  PathInv'
<1>1. \A d \in Candidates : Nudged(cand[d], cand'[d])
  BY NudgedSelf
<1>2. \A m : Reach(m) => Reach(m)'
  BY DEF Reach
<1>3. /\ closer' \in SpClosers /\ closer'.manager \in 0 .. Len(managers) /\ current' \in 0 .. Len(managers)
      /\ closer'.at \in {"idle", "unmap"} => closer'.manager = 0
  BY PathFacts
<1> QED
  BY <1>1, <1>2, <1>3, ShrinkKeeps

\* Leases, probes, losses and their clean-up.
LEMMA UseKeeps ==
  ASSUME PathInv,
         \/ \E need \in PathDemands : AcquireLease(need) \/ ArmProbe(need)
         \/ FinishProbe
         \/ \E p \in DOMAIN paths : ReleaseLease(p) \/ LosePath(p) \/ CleanupPath(p)
         \/ UNCHANGED spVars
  PROVE  PathInv'
<1>1. /\ projected \in [Kinds -> [session : Nat, path : Nat]] /\ paths \in Seq(SpPathRecords) /\ ClosesOnce(paths)
      /\ DOMAIN managers = 1 .. Len(managers) /\ current \in 0 .. Len(managers) /\ Len(managers) \in Nat
      /\ DOMAIN paths = 1 .. Len(paths) /\ Len(paths) \in Nat
      /\ \A m \in DOMAIN managers : managers[m] \in SpManagers
      /\ \A p \in DOMAIN paths : paths[p] \in SpPathRecords
  BY PathFacts
<1>2. UNCHANGED <<cand, closer, current>>
  BY DEF AcquireLease, ArmProbe, FinishProbe, ReleaseLease, LosePath, CleanupPath, spVars
<1>3. current # 0 => current \in DOMAIN managers
  BY <1>1
<1>4. \A m \in DOMAIN managers : managers[m].direct \in 0 .. Len(paths) /\ managers[m].relay \in 0 .. Len(paths)
  BY DEF PathInv, ManagersOK
<1>5. ASSUME managers' = managers, Fewer(paths, paths'), projected' = projected PROVE PathInv'
  <2>1. Shrunk
    BY <1>5, PathsTaken
  <2> QED
    BY <1>1, <1>2, <1>5, <2>1, RestKeeps
<1>6. ASSUME NEW need \in PathDemands, AcquireLease(need) PROVE PathInv'
  <2> DEFINE Fits(p) == IsReady(p) /\ need \subseteq paths[p].caps
             q == IF Fits(managers[current].direct) THEN managers[current].direct ELSE managers[current].relay
  <2>1. /\ current # 0 /\ Fits(q) /\ paths[q].leases < MaxLeases
        /\ paths' = [paths EXCEPT ![q].leases = paths[q].leases + 1] /\ managers' = managers /\ projected' = projected
    BY <1>6 DEF AcquireLease
  <2>2. q \in {managers[current].direct, managers[current].relay} /\ q # 0
    BY <2>1 DEF IsReady
  <2> HIDE DEF q, Fits
  <2>3. q \in DOMAIN paths
    BY <1>1, <1>3, <1>4, <2>1, <2>2
  <2>4. Fewer(paths, paths')
    BY <1>1, <2>1, <2>3, LeaseEffect
  <2> QED
    BY <1>5, <2>1, <2>4
<1>7. ASSUME NEW p \in DOMAIN paths, ReleaseLease(p) PROVE PathInv'
  <2>1. paths[p].leases > 0 /\ paths' = ReleaseOne(paths, p) /\ managers' = managers /\ projected' = projected
    BY <1>7 DEF ReleaseLease
  <2>2. Fewer(paths, paths')
    BY <1>1, <2>1, LeaseEffect
  <2> QED
    BY <1>5, <2>1, <2>2
<1>8. ASSUME NEW probe \in SUBSET SpCaps, current # 0, managers' = [managers EXCEPT ![current].probe = probe],
             paths' = paths, projected' = projected
      PROVE  PathInv'
  <2> DEFINE mg == managers[current]
             r == [direct |-> mg.direct, relay |-> mg.relay, probe |-> probe, closed |-> mg.closed]
  <2>1. mg \in SpManagers
    BY <1>1, <1>3, <1>8
  <2>2. r \in SpManagers
    BY <2>1 DEF SpManagers
  <2>3. managers' = [managers EXCEPT ![current] = r]
    <3>1. [managers[current] EXCEPT !.probe = probe] = r
      BY <2>1 DEF SpManagers
    <3>2. managers' = [managers EXCEPT ![current] = [managers[current] EXCEPT !.probe = probe]]
      BY <1>8
    <3> QED
      BY <3>1, <3>2
  <2>4. r.direct = managers[current].direct /\ r.relay = managers[current].relay /\ r.closed = managers[current].closed
    OBVIOUS
  <2>5. Fewer(paths, paths')
    BY <1>1, <1>8, FewerSelf
  <2> HIDE DEF r
  <2>6. Shrunk
    BY <1>3, <1>8, <2>2, <2>3, <2>4, <2>5, SlotsEmptied
  <2> QED
    BY <1>1, <1>2, <1>8, <2>6, RestKeeps
<1>9. ASSUME NEW need \in PathDemands, ArmProbe(need) PROVE PathInv'
  <2>1. need \in SUBSET SpCaps
    BY DEF PathDemands, SpCaps
  <2> QED
    BY <1>8, <1>9, <2>1 DEF ArmProbe
<1>10. CASE FinishProbe
  <2>1. /\ current # 0 /\ managers' = [managers EXCEPT ![current].probe = {}]
        /\ paths' = paths /\ projected' = projected
    BY <1>10 DEF FinishProbe, NoProbe
  <2>2. {} \in SUBSET SpCaps
    OBVIOUS
  <2> QED
    BY <1>8, <2>1, <2>2
<1>11. ASSUME NEW p \in DOMAIN paths, CleanupPath(p) PROVE PathInv'
  <2>1. Shrunk
    BY <1>1, <1>11, FewerSelf, PathsTaken DEF CleanupPath
  <2>2. DOMAIN projected' = Kinds /\ projected' = [k \in Kinds |-> projected'[k]]
        /\ \A k \in Kinds : projected'[k] \in {projected[k], NoProjection}
    BY <1>11 DEF CleanupPath
  <2> QED
    BY <1>2, <2>1, <2>2, RestKeeps
<1>12. ASSUME NEW p \in DOMAIN paths, LosePath(p) PROVE PathInv'
  <2>1. /\ current # 0 /\ current \in DOMAIN managers /\ managers[current][paths[p].kind] = p
        /\ paths' = CloseHard(paths, {p}) /\ projected' = projected
    BY <1>3, <1>12 DEF LosePath
  <2>2. paths[p].kind \in {"direct", "relay"}
    BY <1>1 DEF SpPathRecords, Kinds
  <2>3. /\ Fewer(paths, paths')
        /\ paths'[p].state = "closed"
    BY <1>1, <2>1, CloseHardEffect
  <2> DEFINE mg == managers[current]
  <2>4. mg \in SpManagers
    BY <1>1, <2>1
  <2>5. CASE paths[p].kind = "direct"
    <3> DEFINE r == [direct |-> 0, relay |-> mg.relay, probe |-> NoProbe, closed |-> mg.closed]
    <3>1. managers' = [managers EXCEPT ![current] = r]
      <4>1. [mg EXCEPT !.direct = 0, !.probe = NoProbe] = r
        BY <2>4, ManagerEdits
      <4>2. managers' = [managers EXCEPT ![current] = [mg EXCEPT !.direct = 0, !.probe = NoProbe]]
        BY <1>12, <2>1, <2>5 DEF LosePath
      <4> QED
        BY <4>1, <4>2
    <3>2. r \in SpManagers /\ r.direct = 0 /\ r.relay = mg.relay /\ r.closed = mg.closed /\ mg.direct = p
      BY <2>1, <2>4, <2>5 DEF SpManagers, NoProbe
    <3> HIDE DEF r
    <3>3. Shrunk
      BY <2>1, <2>3, <3>1, <3>2, SlotsEmptied
    <3> QED
      BY <1>1, <1>2, <2>1, <3>3, RestKeeps
  <2>6. CASE paths[p].kind = "relay"
    <3> DEFINE r == [direct |-> mg.direct, relay |-> 0, probe |-> mg.probe, closed |-> mg.closed]
    <3>1. managers' = [managers EXCEPT ![current] = r]
      <4>1. [mg EXCEPT !.relay = 0, !.probe = mg.probe] = r
        BY <2>4, ManagerEdits
      <4>2. managers' = [managers EXCEPT ![current] = [mg EXCEPT !.relay = 0, !.probe = mg.probe]]
        BY <1>12, <2>1, <2>6 DEF LosePath
      <4> QED
        BY <4>1, <4>2
    <3>2. r \in SpManagers /\ r.direct = mg.direct /\ r.relay = 0 /\ r.closed = mg.closed /\ mg.relay = p
      BY <2>1, <2>4, <2>6 DEF SpManagers, NoProbe
    <3> HIDE DEF r
    <3>3. Shrunk
      BY <2>1, <2>3, <3>1, <3>2, SlotsEmptied
    <3> QED
      BY <1>1, <1>2, <2>1, <3>3, RestKeeps
  <2> QED
    BY <2>2, <2>5, <2>6
<1>13. CASE UNCHANGED spVars
  BY <1>1, <1>5, <1>13, FewerSelf DEF spVars
<1> QED
  BY <1>6, <1>7, <1>9, <1>10, <1>11, <1>12, <1>13

LEMMA OthersReach ==
  ASSUME NEW c \in Candidates, OnlyMoves(c), closer' = closer, NEW m, Reach(m)
  PROVE  Reach(m)' \/ current = m \/ (cand[c].at \in Carrying /\ cand[c].manager = m)
<1>1. \A d \in Candidates \ {c} :
        cand[d].at \in Carrying => cand'[d].at = cand[d].at /\ cand'[d].manager = cand[d].manager
  BY DEF Nudged, Carrying, OnlyMoves
<1> QED
  BY <1>1 DEF Reach

LEMMA LastReach ==
  ASSUME NEW c \in Candidates, OnlyMoves(c), current' = current, closer' = closer, ~LastHolder(c),
         NEW m, Reach(m)
  PROVE  Reach(m)'
<1>1. Reach(m)' \/ current = m \/ cand[c].manager = m
  BY OthersReach
<1>2. current = m => Reach(m)'
  BY DEF Reach
<1>3. ASSUME cand[c].manager = m, current # m PROVE Reach(m)'
  <2>1. PICK d \in Candidates \ {c} : cand[d].at \in {"publish", "project"} /\ cand[d].manager = m
    BY <1>3 DEF LastHolder, Held
  <2>2. cand'[d].at \in Carrying /\ cand'[d].manager = m
    BY <2>1 DEF OnlyMoves, Nudged, Carrying
  <2> QED
    BY <2>2 DEF Reach
<1> QED
  BY <1>1, <1>2, <1>3

\* The steps of a candidate that only take down.
LEMMA TakeDownSteps ==
  ASSUME SpInv, NEW c \in Candidates, Unmap(c) \/ Displace(c) \/ FailUnproject(c)
  PROVE  PathInv'
<1>1. PathInv /\ cand \in [Candidates -> SpCands] /\ cand[c] \in SpCands
  BY DEF SpInv, SessInv, CandOK
<1>2. /\ closer \in SpClosers /\ closer.manager \in 0 .. Len(managers) /\ current \in 0 .. Len(managers)
      /\ closer.at \in {"idle", "unmap"} => closer.manager = 0
      /\ Len(managers) \in Nat /\ DOMAIN managers = 1 .. Len(managers)
      /\ projected \in [Kinds -> [session : Nat, path : Nat]]
      /\ paths \in Seq(SpPathRecords) /\ ClosesOnce(paths) /\ Fewer(paths, paths)
  BY <1>1, PathFacts, FewerSelf
<1>3. UNCHANGED closer
  BY DEF Unmap, Displace, FailUnproject
<1>4. CASE Unmap(c)
  <2> DEFINE cs == [cand EXCEPT ![c].at = "displace", ![c].manager = current]
  <2>1. current \in Nat
    BY <1>2
  <2>2. cs \in [Candidates -> SpCands] /\ cs[c].at = "displace" /\ cs[c].manager = current
        /\ \A d \in Candidates \ {c} : cs[d] = cand[d]
    BY <1>1, <2>1 DEF SpCands, SpStages
  <2>3. cand[c].at = "unmap" /\ current' = 0 /\ UNCHANGED <<managers, paths, projected>> /\ cand' = cs
    BY <1>4 DEF Unmap
  <2> HIDE DEF cs
  <2>4. OnlyMoves(c) /\ cand'[c].at = "displace" /\ cand'[c].manager = current
    BY <2>2, <2>3, EditMoves
  <2>5. LinkOK(cand[c])'
    BY <1>2, <2>3, <2>4 DEF LinkOK
  <2>6. Shrunk
    BY <1>1, <1>2, <2>3, PathsTaken
  <2>7. ASSUME NEW m, Reach(m) PROVE Reach(m)'
    <3>1. Reach(m)' \/ current = m
      BY <1>3, <2>3, <2>4, <2>7, OthersReach DEF Carrying
    <3>2. current = m => Reach(m)'
      BY <2>4 DEF Reach, Carrying
    <3> QED
      BY <3>1, <3>2
  <2>8. \A d \in Candidates : Nudged(cand[d], cand'[d]) \/ LinkOK(cand[d])'
    BY <2>4, <2>5 DEF OnlyMoves
  <2> QED
    BY <1>1, <1>2, <1>3, <2>3, <2>6, <2>7, <2>8, ShrinkKeeps
<1>5. CASE Displace(c)
  <2> DEFINE cs == [cand EXCEPT ![c].at = "admitted", ![c].manager = 0, ![c].replaced = 0]
             m == cand[c].manager
  <2>1. cs \in [Candidates -> SpCands] /\ cs[c].at = "admitted" /\ \A d \in Candidates \ {c} : cs[d] = cand[d]
    BY <1>1 DEF SpCands, SpStages, Holding
  <2>2. /\ cand[c].at = "displace" /\ current' = current /\ cand' = Woken(cs)
        /\ projected' = [k \in Kinds |-> NoProjection]
    BY <1>5 DEF Displace
  <2> HIDE DEF cs
  <2>3. OnlyMoves(c) /\ Nudged(cs[c], cand'[c])
    BY <2>1, <2>2, EditMoves
  <2>4. cand'[c].at = "admitted"
    BY <2>1, <2>3 DEF Nudged
  <2>5. \A d \in Candidates : Nudged(cand[d], cand'[d]) \/ LinkOK(cand[d])'
    BY <2>3, <2>4, UnlinkedOK DEF OnlyMoves, Linked, Carrying
  <2>6. m \in 0 .. Len(managers)
    BY <1>1, <2>2 DEF PathInv, LinksOK, LinkOK
  <2>7. Shrunk /\ \A n \in DOMAIN managers : n = m => ClosedOff(n)'
    <3>1. CASE m = 0
      <4>1. managers' = managers /\ paths' = CloseHard(paths, {})
        BY <1>5, <3>1 DEF Displace
      <4> QED
        BY <1>1, <1>2, <3>1, <4>1, CloseHardEffect, PathsTaken
    <3>2. CASE m # 0
      <4>1. m \in DOMAIN managers
        BY <1>2, <2>6, <3>2
      <4>2. managers' = [managers EXCEPT ![m] = ClosedManager] /\ paths' = CloseHard(paths, PathsOf(m))
        BY <1>5, <3>2 DEF Displace
      <4> HIDE DEF m
      <4>3. ASSUME NEW n \in DOMAIN managers, n = m PROVE Shrunk /\ ClosedOff(n)'
        BY <1>1, <4>2, <4>3, ManagerDropped
      <4> QED
        BY <4>1, <4>3
    <3> QED
      BY <3>1, <3>2
  <2>8. \A n \in DOMAIN managers : Reach(n) => Reach(n)' \/ ClosedOff(n)'
    <3> TAKE n \in DOMAIN managers
    <3> HAVE Reach(n)
    <3>1. Reach(n)' \/ current = n \/ n = m
      BY <1>3, <2>3, OthersReach
    <3>2. current = n => Reach(n)'
      BY <2>2 DEF Reach
    <3> QED
      BY <2>7, <3>1, <3>2
  <2> HIDE DEF m
  <2> QED
    BY <1>1, <1>2, <1>3, <2>2, <2>5, <2>7, <2>8, ShrinkKeeps
<1>6. CASE FailUnproject(c)
  <2>1. cand[c].at = "unproject" /\ UNCHANGED <<current, managers, paths>> /\ cand' = Woken(At(c, "retire"))
    BY <1>6 DEF FailUnproject, At
  <2>2. OnlyMoves(c) /\ cand'[c].at = "retire"
    BY <1>1, <2>1, ToMoves DEF SpStages
  <2>3. \A d \in Candidates : Nudged(cand[d], cand'[d]) \/ (cand[d].at \notin Carrying /\ LinkOK(cand[d])')
    BY <2>1, <2>2, UnlinkedOK DEF OnlyMoves, Linked, Carrying
  <2>4. Shrunk
    BY <1>1, <1>2, <2>1, PathsTaken
  <2>5. \A m : Reach(m) => Reach(m)'
    BY <1>3, <2>1, <2>3, ReachKeeps
  <2>6. DOMAIN projected' = Kinds /\ projected' = [k \in Kinds |-> projected'[k]]
        /\ \A k \in Kinds : projected'[k] \in {projected[k], NoProjection}
    BY <1>6 DEF FailUnproject
  <2> QED
    BY <1>1, <1>2, <1>3, <2>1, <2>3, <2>4, <2>5, <2>6, ShrinkKeeps
<1> QED
  BY <1>4, <1>5, <1>6

\* A failed session takes down what it found of its own.
LEMMA SnapshotKeeps ==
  ASSUME SpInv, NEW c \in Candidates, FailSnapshot(c)
  PROVE  PathInv'
<1>1. PathInv /\ cand \in [Candidates -> SpCands] /\ cand[c] \in SpCands
  BY DEF SpInv, SessInv, CandOK
<1>2. /\ closer \in SpClosers /\ current \in 0 .. Len(managers) /\ Len(managers) \in Nat
      /\ closer.at \in {"idle", "unmap"} => closer.manager = 0
      /\ DOMAIN managers = 1 .. Len(managers) /\ projected \in [Kinds -> [session : Nat, path : Nat]]
  BY <1>1, PathFacts
<1> DEFINE next == IF current = 0 THEN "retire" ELSE "close"
           seen == [k \in Kinds |-> IF projected[k].session = cand[c].id THEN projected[k].path ELSE 0]
           cs == [cand EXCEPT ![c].at = next, ![c].manager = current, ![c].seen = seen]
<1>3. next \in {"retire", "close"} /\ seen \in [Kinds -> Nat] /\ current \in Nat /\ (next = "close" => current # 0)
  BY <1>2
<1>4. /\ cand[c].at = "fail" /\ cand' = cs
      /\ UNCHANGED <<managers, paths, projected, current, closer>>
  BY <1>1 DEF FailSnapshot, SpCands
<1>5. \A k \in Kinds : seen[k] # 0 => seen[k] \in DOMAIN paths /\ paths[seen[k]].session = cand[c].id
  BY <1>1 DEF PathInv, ProjectionsOK
<1> HIDE DEF next, seen
<1>6. cs \in [Candidates -> SpCands] /\ cs[c].at = next /\ cs[c].id = cand[c].id
      /\ cs[c].manager = current /\ cs[c].seen = seen /\ \A d \in Candidates \ {c} : cs[d] = cand[d]
  BY <1>1, <1>3 DEF SpCands, SpStages
<1> HIDE DEF cs
<1>7. OnlyMoves(c)
  BY <1>4, <1>6, EditMoves
<1>8. LinkOK(cand[c])'
  <2>1. cand'[c].at \in {"publish", "project", "close"} => cand'[c].manager \in DOMAIN managers'
    BY <1>2, <1>3, <1>4, <1>6
  <2>2. cand'[c].at # "displace" /\ cand'[c].at # "project"
    BY <1>3, <1>4, <1>6
  <2>3. \A k \in Kinds : cand'[c].seen[k] # 0 => cand'[c].seen[k] \in DOMAIN paths'
                                                 /\ paths'[cand'[c].seen[k]].session = cand'[c].id
    BY <1>4, <1>5, <1>6
  <2> QED
    BY <2>1, <2>2, <2>3 DEF LinkOK
<1>9. \A d \in Candidates : Nudged(cand[d], cand'[d]) \/ (cand[d].at \notin Carrying /\ LinkOK(cand[d])')
  BY <1>4, <1>7, <1>8 DEF OnlyMoves, Carrying
<1> QED
  BY <1>1, <1>2, <1>4, <1>9, NeutralKeeps

LEMMA FailCloseKeeps ==
  ASSUME SpInv, NEW c \in Candidates, FailClose(c)
  PROVE  PathInv'
<1>1. PathInv /\ cand \in [Candidates -> SpCands] /\ cand[c] \in SpCands
  BY DEF SpInv, SessInv, CandOK
<1>2. /\ closer \in SpClosers /\ closer.manager \in 0 .. Len(managers) /\ current \in 0 .. Len(managers)
      /\ closer.at \in {"idle", "unmap"} => closer.manager = 0
      /\ projected \in [Kinds -> [session : Nat, path : Nat]]
      /\ paths \in Seq(SpPathRecords) /\ ClosesOnce(paths)
      /\ \A m \in DOMAIN managers : managers[m] \in SpManagers
  BY <1>1, PathFacts
<1> DEFINE m == cand[c].manager
           ks == SlotsSeen(c, m)
           mg == managers[m]
           taken == {managers[m][k] : k \in ks}
           r == [direct |-> IF "direct" \in ks THEN 0 ELSE mg.direct, relay |-> IF "relay" \in ks THEN 0 ELSE mg.relay,
                 probe |-> IF "direct" \in ks THEN NoProbe ELSE mg.probe, closed |-> mg.closed]
<1>3. /\ cand[c].at = "close" /\ paths' = CloseHard(paths, taken)
      /\ UNCHANGED <<projected, current, closer>>
  BY DEF FailClose
<1>4. m \in DOMAIN managers /\ mg \in SpManagers
  BY <1>1, <1>2, <1>3 DEF PathInv, LinksOK, LinkOK
<1>5. r \in SpManagers
  BY <1>4 DEF SpManagers, NoProbe
<1>6. managers' = [managers EXCEPT ![m] = r]
  <2> DEFINE a == IF "direct" \in ks THEN 0 ELSE mg.direct
             b == IF "relay" \in ks THEN 0 ELSE mg.relay
             q == IF "direct" \in ks THEN NoProbe ELSE mg.probe
  <2>1. managers' = [managers EXCEPT ![m].direct = a, ![m].relay = b, ![m].probe = q]
    BY DEF FailClose
  <2> HIDE DEF a, b, q, m
  <2>2. managers' = [managers EXCEPT ![m] = [[[mg EXCEPT !.direct = a] EXCEPT !.relay = b] EXCEPT !.probe = q]]
    BY <1>4, <2>1
  <2>3. [mg EXCEPT !.direct = a] = [direct |-> a, relay |-> mg.relay, probe |-> mg.probe, closed |-> mg.closed]
    BY <1>4 DEF SpManagers
  <2> DEFINE f == [mg EXCEPT !.direct = a]
  <2>4. [f EXCEPT !.relay = b] = [direct |-> a, relay |-> b, probe |-> mg.probe, closed |-> mg.closed]
    <3>1. f = [direct |-> a, relay |-> mg.relay, probe |-> mg.probe, closed |-> mg.closed]
      BY <2>3
    <3> HIDE DEF f
    <3> QED
      BY <3>1
  <2> DEFINE g == [f EXCEPT !.relay = b]
  <2>5. [g EXCEPT !.probe = q] = [direct |-> a, relay |-> b, probe |-> q, closed |-> mg.closed]
    <3>1. g = [direct |-> a, relay |-> b, probe |-> mg.probe, closed |-> mg.closed]
      BY <2>4
    <3> HIDE DEF g
    <3> QED
      BY <3>1
  <2>6. r = [direct |-> a, relay |-> b, probe |-> q, closed |-> mg.closed]
    BY DEF a, b, q
  <2> HIDE DEF r
  <2> QED
    BY <2>2, <2>5, <2>6
<1>7. /\ Fewer(paths, paths')
      /\ \A p \in DOMAIN paths : p \in taken => paths'[p].state = "closed"
  BY <1>2, <1>3, CloseHardEffect
<1>8. /\ "direct" \in ks => mg.direct \in taken
      /\ "relay" \in ks => mg.relay \in taken
  OBVIOUS
<1>9. /\ r.direct \in {mg.direct, 0} /\ r.relay \in {mg.relay, 0} /\ r.closed = mg.closed
      /\ "direct" \notin ks => r.direct = mg.direct
      /\ "relay" \notin ks => r.relay = mg.relay
  OBVIOUS
<1> HIDE DEF r, ks, taken
<1>10. Shrunk
  <2>1. \A p \in DOMAIN paths : paths'[p].state = "ready" => /\ p = mg.direct => r.direct = p
                                                             /\ p = mg.relay => r.relay = p
    BY <1>7, <1>8, <1>9
  <2> HIDE DEF m
  <2> QED
    BY <1>1, <1>4, <1>5, <1>6, <1>7, <1>9, <2>1, SlotsEmptied
<1>11. PICK s \in {"retire", "unproject"} : cand' = [cand EXCEPT ![c].at = s]
  BY DEF FailClose
<1>12. OnlyMoves(c) /\ cand'[c].at = s /\ cand'[c].id = cand[c].id /\ cand'[c].seen = cand[c].seen
  BY <1>1, <1>11, ToMoves DEF SpStages, To, At
<1>13. LinkOK(cand[c])'
  <2>1. LinkOK(cand[c])
    BY <1>1 DEF PathInv, LinksOK
  <2>2. \A k \in Kinds : cand[c].seen[k] # 0 => cand[c].seen[k] \in DOMAIN paths
                                                /\ paths[cand[c].seen[k]].session = cand[c].id
    BY <1>3, <2>1 DEF LinkOK
  <2>3. \A k \in Kinds : cand'[c].seen[k] # 0 => cand'[c].seen[k] \in DOMAIN paths'
                                                 /\ paths'[cand'[c].seen[k]].session = cand'[c].id
    BY <1>7, <1>12, <2>2 DEF Fewer
  <2> QED
    BY <1>12, <2>3 DEF LinkOK
<1>14. \A d \in Candidates : Nudged(cand[d], cand'[d]) \/ (cand[d].at \notin Carrying /\ LinkOK(cand[d])')
  BY <1>3, <1>12, <1>13 DEF OnlyMoves, Carrying
<1>15. \A n : Reach(n) => Reach(n)'
  BY <1>3, <1>14, ReachKeeps
<1> QED
  BY <1>1, <1>2, <1>3, <1>10, <1>14, <1>15, ShrinkKeeps

\* A publisher lets its manager go; the last one takes an unregistered manager along.
LEMMA LeaveManager ==
  ASSUME PathInv, NEW c \in Candidates, cand[c].at \in {"publish", "project"}, OnlyMoves(c),
         UNCHANGED <<current, closer>>,
         managers' = IF LastHolder(c) THEN [managers EXCEPT ![cand[c].manager] = ClosedManager] ELSE managers,
         paths' = IF LastHolder(c) THEN CloseHard(paths, PathsOf(cand[c].manager)) ELSE paths
  PROVE  Shrunk /\ \A n \in DOMAIN managers : Reach(n) => Reach(n)' \/ ClosedOff(n)'
<1>1. cand[c].manager \in DOMAIN managers
  BY DEF PathInv, LinksOK, LinkOK
<1>2. CASE LastHolder(c)
  <2> DEFINE m == cand[c].manager
  <2>1. managers' = [managers EXCEPT ![m] = ClosedManager] /\ paths' = CloseHard(paths, PathsOf(m))
    BY <1>2
  <2>2. m \in DOMAIN managers
    BY <1>1
  <2>3. ASSUME NEW n, Reach(n) PROVE Reach(n)' \/ n = m
    <3>1. Reach(n)' \/ current = n \/ n = m
      BY <2>3, OthersReach
    <3>2. current = n => Reach(n)'
      BY DEF Reach
    <3> QED
      BY <3>1, <3>2
  <2> HIDE DEF m
  <2>4. ASSUME NEW n \in DOMAIN managers, n = m PROVE Shrunk /\ ClosedOff(n)'
    BY <2>1, <2>4, ManagerDropped
  <2> QED
    BY <2>2, <2>3, <2>4
<1>3. CASE ~LastHolder(c)
  <2>1. Shrunk
    BY <1>3, PathFacts, FewerSelf, PathsTaken
  <2>2. \A n : Reach(n) => Reach(n)'
    BY <1>3, LastReach
  <2> QED
    BY <2>1, <2>2
<1> QED
  BY <1>2, <1>3

LEMMA ProjectKeeps ==
  ASSUME SpInv, NEW c \in Candidates, Project(c)
  PROVE  PathInv'
<1>1. PathInv /\ cand \in [Candidates -> SpCands] /\ cand[c] \in SpCands
  BY DEF SpInv, SessInv, CandOK
<1>2. /\ closer \in SpClosers /\ closer.manager \in 0 .. Len(managers) /\ current \in 0 .. Len(managers)
      /\ closer.at \in {"idle", "unmap"} => closer.manager = 0
      /\ projected \in [Kinds -> [session : Nat, path : Nat]]
  BY <1>1, PathFacts
<1> DEFINE cs == [cand EXCEPT ![c].at = "recheck"]
           shown == [session |-> cand[c].id, path |-> cand[c].path]
<1>3. cs \in [Candidates -> SpCands] /\ cs[c].at = "recheck" /\ \A d \in Candidates \ {c} : cs[d] = cand[d]
  BY <1>1 DEF SpCands, SpStages, Holding
<1>4. /\ cand[c].at = "project" /\ cand' = Woken(cs) /\ UNCHANGED <<current, closer>>
      /\ projected' = [projected EXCEPT ![KindOf(c)] = shown]
      /\ managers' = IF LastHolder(c) THEN [managers EXCEPT ![cand[c].manager] = ClosedManager] ELSE managers
      /\ paths' = IF LastHolder(c) THEN CloseHard(paths, PathsOf(cand[c].manager)) ELSE paths
  BY DEF Project
<1> HIDE DEF cs
<1>5. OnlyMoves(c) /\ Nudged(cs[c], cand'[c])
  BY <1>3, <1>4, EditMoves
<1>6. cand'[c].at = "recheck"
  BY <1>3, <1>5 DEF Nudged
<1>7. \A d \in Candidates : Nudged(cand[d], cand'[d]) \/ LinkOK(cand[d])'
  BY <1>5, <1>6, UnlinkedOK DEF OnlyMoves, Linked, Carrying
<1>8. Shrunk /\ \A n \in DOMAIN managers : Reach(n) => Reach(n)' \/ ClosedOff(n)'
  BY <1>1, <1>4, <1>5, LeaveManager
<1>9. Shows(shown)
  <2>1. cand[c].path \in DOMAIN paths /\ paths[cand[c].path].session = cand[c].id
    BY <1>1, <1>4 DEF PathInv, LinksOK, LinkOK
  <2>2. cand[c].id \in Nat /\ cand[c].path \in Nat
    BY <1>1 DEF SpCands
  <2> QED
    BY <2>1, <2>2 DEF Shows
<1> HIDE DEF shown
<1>10. /\ DOMAIN projected' = Kinds /\ projected' = [k \in Kinds |-> projected'[k]]
       /\ \A k \in Kinds : projected'[k] = projected[k] \/ projected'[k] = shown
  BY <1>2, <1>4
<1>11. \A k \in Kinds : projected'[k] \in {projected[k], NoProjection} \/ Shows(projected'[k])
  BY <1>9, <1>10
<1> QED
  BY <1>1, <1>2, <1>4, <1>7, <1>8, <1>10, <1>11, ShrinkKeeps

LEMMA FindKeeps ==
  ASSUME SpInv, NEW c \in Candidates, FindManager(c)
  PROVE  PathInv'
<1>1. PathInv /\ cand \in [Candidates -> SpCands] /\ cand[c] \in SpCands
  BY DEF SpInv, SessInv, CandOK
<1>2. /\ closer \in SpClosers /\ closer.manager \in 0 .. Len(managers) /\ current \in 0 .. Len(managers)
      /\ closer.at \in {"idle", "unmap"} => closer.manager = 0
      /\ projected \in [Kinds -> [session : Nat, path : Nat]]
      /\ paths \in Seq(SpPathRecords) /\ ClosesOnce(paths) /\ managers \in Seq(SpManagers)
      /\ DOMAIN managers = 1 .. Len(managers) /\ Len(managers) \in Nat
      /\ \A p \in DOMAIN paths : paths[p].manager \in DOMAIN managers
  BY <1>1, PathFacts
<1>3. FreshManager \in SpManagers /\ FreshManager.direct = 0 /\ FreshManager.relay = 0
  BY DEF FreshManager, SpManagers, NoProbe
<1>4. /\ cand[c].at = "manager" /\ UNCHANGED <<paths, projected, closer>>
      /\ cand' = [cand EXCEPT ![c].at = "publish", ![c].manager = current']
      /\ managers' = IF current = 0 THEN Append(managers, FreshManager) ELSE managers
      /\ current' = IF current = 0 THEN Len(managers) + 1 ELSE current
  BY DEF FindManager
<1>5. /\ managers' \in Seq(SpManagers) /\ Len(managers) <= Len(managers') /\ Len(managers') \in Nat
      /\ DOMAIN managers' = 1 .. Len(managers') /\ current' \in DOMAIN managers'
      /\ \A m \in DOMAIN managers : m \in DOMAIN managers' /\ managers'[m] = managers[m]
      /\ \A m \in DOMAIN managers' : managers'[m] = FreshManager \/ (m \in DOMAIN managers /\ managers'[m] = managers[m])
  <2>1. CASE current = 0
    <3>1. managers' = Append(managers, FreshManager) /\ current' = Len(managers) + 1
      BY <1>4, <2>1
    <3>2. /\ managers' \in Seq(SpManagers) /\ Len(managers') = Len(managers) + 1
          /\ \A m \in 1 .. Len(managers) : managers'[m] = managers[m]
          /\ managers'[Len(managers) + 1] = FreshManager
      BY <1>2, <1>3, <3>1, AppendProperties
    <3>3. DOMAIN managers' = 1 .. Len(managers')
      BY <3>2, LenProperties
    <3>4. \A m \in 1 .. Len(managers) + 1 : m \in 1 .. Len(managers) \/ m = Len(managers) + 1
      BY <1>2
    <3> QED
      BY <1>2, <3>1, <3>2, <3>3, <3>4
  <2>2. CASE current # 0
    BY <1>2, <1>4, <2>2
  <2> QED
    BY <2>1, <2>2
<1> DEFINE cs == [cand EXCEPT ![c].at = "publish", ![c].manager = current']
<1>6. current' \in Nat
  BY <1>5
<1>7. cs \in [Candidates -> SpCands] /\ cs[c].at = "publish" /\ cs[c].manager = current'
      /\ \A d \in Candidates \ {c} : cs[d] = cand[d]
  BY <1>1, <1>6 DEF SpCands, SpStages, Holding
<1>8. cand' = cs
  BY <1>4
<1> HIDE DEF cs
<1>9. OnlyMoves(c) /\ cand'[c].at = "publish" /\ cand'[c].manager = current'
  BY <1>7, <1>8, EditMoves
<1>10. LinksOK'
  <2>1. LinkOK(cand[c])'
    BY <1>5, <1>9 DEF LinkOK
  <2>2. LinksOK /\ \A d \in Candidates : Nudged(cand[d], cand'[d]) \/ LinkOK(cand[d])'
    BY <1>1, <1>9, <2>1 DEF OnlyMoves, PathInv
  <2>3. \A p \in DOMAIN paths : p \in DOMAIN paths' /\ paths'[p].session = paths[p].session
    BY <1>4
  <2> QED
    BY <1>2, <1>5, <2>2, <2>3, LinksKeep
<1>11. ManagersOK'
  <2>1. \A m \in DOMAIN managers : managers[m].direct \in 0 .. Len(paths) /\ managers[m].relay \in 0 .. Len(paths)
    BY <1>1 DEF PathInv, ManagersOK
  <2>2. Len(paths) \in Nat
    BY <1>2, LenProperties
  <2>3. \A m \in DOMAIN managers' : managers'[m].direct \in 0 .. Len(paths) /\ managers'[m].relay \in 0 .. Len(paths)
    BY <1>3, <1>5, <2>1, <2>2
  <2>4. current' \in 0 .. Len(managers') /\ closer'.manager \in 0 .. Len(managers')
    BY <1>2, <1>4, <1>5
  <2>5. closer' \in SpClosers /\ (closer'.at \in {"idle", "unmap"} => closer'.manager = 0)
    BY <1>2, <1>4
  <2> QED
    BY <1>4, <1>5, <2>3, <2>4, <2>5 DEF ManagersOK
<1>12. ProjectionsOK'
  BY <1>1, <1>4 DEF PathInv, ProjectionsOK
<1>13. \A m \in DOMAIN managers : Reach(m) => Reach(m)'
  <2> TAKE m \in DOMAIN managers
  <2> HAVE Reach(m)
  <2>1. Reach(m)' \/ current = m
    BY <1>4, <1>9, OthersReach DEF Carrying
  <2>2. current = m => current' = m
    BY <1>2, <1>4
  <2>3. current' = m => Reach(m)'
    BY DEF Reach
  <2> QED
    BY <2>1, <2>2, <2>3
<1>14. NoLeakedPath'
  <2>1. ASSUME NEW p \in DOMAIN paths
        PROVE  /\ paths[p].state = "ready" => InSlot(p)'
               /\ managers'[paths[p].manager].closed => paths[p].state = "closed"
               /\ paths[p].state # "closed" => \E m : m = paths[p].manager /\ Reach(m)'
    <3>1. paths[p].manager \in DOMAIN managers /\ managers'[paths[p].manager] = managers[paths[p].manager]
      BY <1>2, <1>5
    <3>2. /\ paths[p].state = "ready" => InSlot(p)
          /\ managers[paths[p].manager].closed => paths[p].state = "closed"
          /\ paths[p].state # "closed" => Reach(paths[p].manager)
      BY <1>1, LeakFacts DEF PathInv, SpPathsOK
    <3>3. InSlot(p) => InSlot(p)'
      BY <1>4, <3>1 DEF InSlot
    <3> QED
      BY <1>13, <3>1, <3>2, <3>3
  <2> QED
    BY <1>4, <2>1, LeakNext
<1>15. SpPathsOK'
  BY <1>1, <1>2, <1>4, <1>5, <1>14 DEF PathInv, SpPathsOK, CarrierClosedOnce
<1> QED
  BY <1>10, <1>11, <1>12, <1>15 DEF PathInv

LEMMA PublishRefused ==
  ASSUME SpInv, NEW c \in Candidates, cand[c].at = "publish", To(c, Refused(c)),
         UNCHANGED <<current, closer, projected>>,
         managers' = IF LastHolder(c) THEN [managers EXCEPT ![cand[c].manager] = ClosedManager] ELSE managers,
         paths' = IF LastHolder(c) THEN CloseHard(paths, PathsOf(cand[c].manager)) ELSE paths
  PROVE  PathInv'
<1>1. PathInv /\ cand \in [Candidates -> SpCands]
  BY DEF SpInv, SessInv, CandOK
<1>2. /\ closer \in SpClosers /\ closer.manager \in 0 .. Len(managers) /\ current \in 0 .. Len(managers)
      /\ closer.at \in {"idle", "unmap"} => closer.manager = 0
      /\ projected \in [Kinds -> [session : Nat, path : Nat]]
  BY <1>1, PathFacts
<1>3. Refused(c) \in SpStages \ {"wait"} /\ Refused(c) \notin Linked
  BY DEF Refused, SpStages, Linked, Carrying
<1>4. OnlyMoves(c) /\ cand'[c].at = Refused(c)
  BY <1>1, <1>3, ToMoves
<1>5. \A d \in Candidates : Nudged(cand[d], cand'[d]) \/ LinkOK(cand[d])'
  BY <1>3, <1>4, UnlinkedOK DEF OnlyMoves
<1>6. Shrunk /\ \A n \in DOMAIN managers : Reach(n) => Reach(n)' \/ ClosedOff(n)'
  BY <1>1, <1>4, LeaveManager
<1> QED
  BY <1>1, <1>2, <1>5, <1>6, ShrinkKeeps

\* A path is published: the old one of its kind, if it was Ready, is retired.
NewPath(c) == [kind |-> KindOf(c), caps |-> CarrierCaps(c), session |-> cand[c].id, manager |-> cand[c].manager,
               state |-> "ready", leases |-> 0, closes |-> 0]
OldPath(c) == LET slot == managers[cand[c].manager][KindOf(c)] IN IF IsReady(slot) THEN slot ELSE 0
Published(c) ==
  LET m == cand[c].manager  k == KindOf(c) IN
  /\ ~managers[m].closed /\ paths' = Append(RetireNormal(paths, {OldPath(c)}), NewPath(c))
  /\ managers' = [managers EXCEPT ![m][k] = Len(paths) + 1, ![m].probe = IF k = "direct" THEN NoProbe ELSE @]
  /\ cand' = [cand EXCEPT ![c].at = "project", ![c].path = Len(paths) + 1]

LEMMA PublishDone ==
  ASSUME SpInv, NEW c \in Candidates, cand[c].at = "publish", UNCHANGED <<current, closer, projected>>, Published(c)
  PROVE  PathInv'
<1>a. PICK m, k, n, old, new : m = cand[c].manager /\ k = KindOf(c) /\ n = Len(paths) + 1 /\ old = OldPath(c)
                                /\ new = NewPath(c)
  OBVIOUS
<1>b. /\ paths' = Append(RetireNormal(paths, {old}), new)
      /\ managers' = [managers EXCEPT ![m][k] = n, ![m].probe = IF k = "direct" THEN NoProbe ELSE @]
      /\ cand' = [cand EXCEPT ![c].at = "project", ![c].path = n]
  BY <1>a DEF Published
<1>c. ~managers[m].closed
  BY <1>a DEF Published
<1>1. PathInv /\ cand \in [Candidates -> SpCands] /\ cand[c] \in SpCands
  BY DEF SpInv, SessInv, CandOK
<1>2. /\ closer \in SpClosers /\ closer.manager \in 0 .. Len(managers) /\ current \in 0 .. Len(managers)
      /\ closer.at \in {"idle", "unmap"} => closer.manager = 0
      /\ projected \in [Kinds -> [session : Nat, path : Nat]]
      /\ paths \in Seq(SpPathRecords) /\ ClosesOnce(paths) /\ managers \in Seq(SpManagers)
      /\ Len(managers) \in Nat /\ DOMAIN paths = 1 .. Len(paths) /\ Len(paths) \in Nat
      /\ \A x \in DOMAIN managers : managers[x] \in SpManagers
      /\ \A p \in DOMAIN paths : paths[p].manager \in DOMAIN managers /\ paths[p] \in SpPathRecords
  BY <1>1, PathFacts
<1>3. m \in DOMAIN managers /\ managers[m] \in SpManagers
  BY <1>1, <1>2, <1>a DEF PathInv, LinksOK, LinkOK
<1>4. k \in Kinds /\ k \in {"direct", "relay"}
  BY <1>a DEF KindOf, Kinds
<1>5. /\ new \in SpPathRecords
      /\ new.kind = k /\ new.session = cand[c].id /\ new.manager = m /\ new.state = "ready" /\ new.closes = 0
  <2>1. new = [kind |-> k, caps |-> CarrierCaps(c), session |-> cand[c].id, manager |-> m,
               state |-> "ready", leases |-> 0, closes |-> 0]
    BY <1>a DEF NewPath
  <2>2. CarrierCaps(c) \in SUBSET SpCaps /\ cand[c].id \in Nat /\ m \in Nat /\ 0 \in 0 .. MaxLeases
    BY <1>1, <1>a, SessionPathsAssumption DEF CarrierCaps, SpCaps, SpCands
  <2> QED
    BY <1>4, <2>1, <2>2 DEF SpPathRecords
<1> DEFINE ret == RetireNormal(paths, {old})
<1>6. /\ Fewer(paths, ret)
      /\ \A p \in DOMAIN paths : p = old => ret[p].state # "ready"
  BY <1>2, RetireNormalEffect
<1>7. paths' = Append(ret, new)
  BY <1>b
<1> HIDE DEF ret
<1>8. ret \in Seq(SpPathRecords) /\ DOMAIN ret = DOMAIN paths
  BY <1>6 DEF Fewer
<1>9. DOMAIN ret = 1 .. Len(ret) /\ Len(ret) \in Nat /\ Len(ret) = Len(paths)
  BY <1>2, <1>8, LenProperties
<1>10. /\ paths' \in Seq(SpPathRecords) /\ Len(paths') = n /\ n \in Nat /\ n # 0 /\ DOMAIN paths' = 1 .. n
       /\ \A p \in DOMAIN paths : p \in DOMAIN paths' /\ paths'[p] = ret[p] /\ p # n
       /\ paths'[n] = new /\ n \in DOMAIN paths'
       /\ \A p \in DOMAIN paths' : p \in DOMAIN paths \/ p = n
  <2>1. /\ paths' \in Seq(SpPathRecords) /\ Len(paths') = Len(ret) + 1
        /\ \A p \in 1 .. Len(ret) : paths'[p] = ret[p]
        /\ paths'[Len(ret) + 1] = new
    BY <1>5, <1>7, <1>8, AppendProperties
  <2>2. DOMAIN paths' = 1 .. Len(paths')
    BY <2>1, LenProperties
  <2>3. \A p \in 1 .. Len(ret) + 1 : p \in 1 .. Len(ret) \/ p = Len(ret) + 1
    BY <1>9
  <2> QED
    BY <1>2, <1>9, <1>a, <2>1, <2>2, <2>3
<1>11. \A p \in DOMAIN paths :
         /\ paths'[p].kind = paths[p].kind /\ paths'[p].manager = paths[p].manager
         /\ paths'[p].session = paths[p].session
         /\ paths'[p].closes = (IF paths'[p].state = "closed" THEN 1 ELSE 0)
         /\ paths'[p].state = "ready" => paths[p].state = "ready" /\ p # old
         /\ paths[p].state = "closed" => paths'[p].state = "closed"
  BY <1>6, <1>10 DEF Fewer
<1> DEFINE mg == managers[m]
           r == [direct |-> IF k = "direct" THEN n ELSE mg.direct, relay |-> IF k = "relay" THEN n ELSE mg.relay,
                 probe |-> IF k = "direct" THEN NoProbe ELSE mg.probe, closed |-> mg.closed]
<1>12. r \in SpManagers
  BY <1>3, <1>10 DEF SpManagers, NoProbe
<1>13. managers' = [managers EXCEPT ![m] = r]
  <2>1. CASE k = "direct"
    <3>1. managers' = [managers EXCEPT ![m] = [mg EXCEPT !.direct = n, !.probe = NoProbe]]
      BY <1>3, <1>b, <2>1
    <3>2. [mg EXCEPT !.direct = n, !.probe = NoProbe] = r
      BY <1>3, <2>1, ManagerEdits
    <3> QED
      BY <3>1, <3>2
  <2>2. CASE k = "relay"
    <3>1. managers' = [managers EXCEPT ![m] = [mg EXCEPT !.relay = n, !.probe = mg.probe]]
      BY <1>3, <1>b, <2>2
    <3>2. [mg EXCEPT !.relay = n, !.probe = mg.probe] = r
      BY <1>3, <2>2, ManagerEdits
    <3> QED
      BY <3>1, <3>2
  <2> QED
    BY <1>4, <2>1, <2>2
<1>14. /\ r.direct \in {mg.direct, n} /\ r.relay \in {mg.relay, n} /\ r.closed = mg.closed /\ r[k] = n
       /\ \A j \in Kinds : j # k => r[j] = mg[j]
  BY <1>4 DEF Kinds
<1> HIDE DEF r
<1>15. /\ managers' \in Seq(SpManagers) /\ Len(managers') = Len(managers) /\ DOMAIN managers' = DOMAIN managers
       /\ managers'[m] = r /\ \A x \in DOMAIN managers \ {m} : managers'[x] = managers[x]
  BY <1>2, <1>3, <1>12, <1>13, ManagerWritten
<1>16. ManagersOK'
  <2>1. \A x \in DOMAIN managers : managers[x].direct \in 0 .. Len(paths) /\ managers[x].relay \in 0 .. Len(paths)
    BY <1>1 DEF PathInv, ManagersOK
  <2>2. \A x \in DOMAIN managers' : managers'[x].direct \in 0 .. n /\ managers'[x].relay \in 0 .. n
    <3> TAKE x \in DOMAIN managers'
    <3>1. x \in DOMAIN managers
      BY <1>15
    <3>2. CASE x = m
      BY <1>2, <1>3, <1>10, <1>14, <1>15, <2>1, <3>2
    <3>3. CASE x # m
      <4>1. managers'[x] = managers[x]
        BY <1>15, <3>1, <3>3
      <4> QED
        BY <1>2, <1>a, <2>1, <3>1, <4>1
    <3> QED
      BY <3>2, <3>3
  <2>3. \A x \in DOMAIN managers' : managers'[x].direct \in 0 .. Len(paths') /\ managers'[x].relay \in 0 .. Len(paths')
    BY <1>10, <2>2
  <2> QED
    BY <1>2, <1>15, <2>3 DEF ManagersOK
<1> DEFINE cs == [cand EXCEPT ![c].at = "project", ![c].path = n]
<1>17. cs \in [Candidates -> SpCands] /\ cs[c].at = "project" /\ cs[c].path = n /\ cs[c].id = cand[c].id
       /\ cs[c].manager = m /\ \A d \in Candidates \ {c} : cs[d] = cand[d]
  BY <1>1, <1>10, <1>a DEF SpCands, SpStages, Holding
<1>18. cand' = cs
  BY <1>b
<1> HIDE DEF cs
<1>19. OnlyMoves(c) /\ cand'[c].at = "project" /\ cand'[c].path = n /\ cand'[c].id = cand[c].id /\ cand'[c].manager = m
  BY <1>17, <1>18, EditMoves
<1>20. LinksOK'
  <2>1. LinkOK(cand[c])'
    BY <1>3, <1>5, <1>10, <1>15, <1>19 DEF LinkOK
  <2>2. LinksOK /\ \A d \in Candidates : Nudged(cand[d], cand'[d]) \/ LinkOK(cand[d])'
    BY <1>1, <1>19, <2>1 DEF OnlyMoves, PathInv
  <2>3. \A p \in DOMAIN paths : p \in DOMAIN paths' /\ paths'[p].session = paths[p].session
    BY <1>10, <1>11
  <2>4. Len(managers) <= Len(managers')
    BY <1>2, <1>15
  <2> QED
    BY <1>2, <1>15, <2>2, <2>3, <2>4, LinksKeep
<1>21. ProjectionsOK'
  BY <1>1, <1>10, <1>11 DEF PathInv, ProjectionsOK
<1>22. \A x : Reach(x) => Reach(x)'
  <2> TAKE x
  <2> HAVE Reach(x)
  <2>1. Reach(x)' \/ current = x \/ x = m
    BY <1>19, <1>a, OthersReach
  <2>2. current = x => Reach(x)'
    BY DEF Reach
  <2>3. x = m => Reach(x)'
    BY <1>19 DEF Reach, Carrying
  <2> QED
    BY <2>1, <2>2, <2>3
<1>23. ASSUME NEW p \in DOMAIN paths
       PROVE  /\ paths'[p].state = "ready" => InSlot(p)'
              /\ managers'[paths'[p].manager].closed => paths'[p].state = "closed"
              /\ paths'[p].state # "closed" => \E x : x = paths'[p].manager /\ Reach(x)'
  <2>1. /\ paths[p].state = "ready" => InSlot(p)
        /\ managers[paths[p].manager].closed => paths[p].state = "closed"
        /\ paths[p].state # "closed" => Reach(paths[p].manager)
    BY <1>1, LeakFacts DEF PathInv, SpPathsOK
  <2>2. paths[p].manager \in DOMAIN managers /\ paths[p].kind \in Kinds
    BY <1>2 DEF SpPathRecords
  <2>3. managers'[paths[p].manager].closed = managers[paths[p].manager].closed
    BY <1>14, <1>15, <2>2
  <2>4. ASSUME paths'[p].state = "ready" PROVE InSlot(p)'
    <3>1. paths[p].state = "ready" /\ p # old /\ managers[paths[p].manager][paths[p].kind] = p /\ p # 0
      BY <1>2, <1>11, <2>1, <2>4 DEF InSlot
    <3>2. ~(paths[p].manager = m /\ paths[p].kind = k)
      BY <1>a, <3>1 DEF IsReady, OldPath
    <3>3. managers'[paths[p].manager][paths[p].kind] = p
      BY <1>14, <1>15, <2>2, <3>1, <3>2
    <3> QED
      BY <1>11, <3>3 DEF InSlot
  <2> QED
    BY <1>11, <1>22, <2>1, <2>3, <2>4
<1>24. /\ InSlot(n)' /\ ~managers'[m].closed /\ paths'[n].manager = m /\ Reach(m)'
  BY <1>5, <1>10, <1>14, <1>15, <1>19, <1>c DEF InSlot, Reach, Carrying
<1>25. NoLeakedPath'
  BY <1>10, <1>23, <1>24, LeakNext
<1>26. CarrierClosedOnce'
  BY <1>5, <1>10, <1>11 DEF CarrierClosedOnce
<1>27. SpPathsOK'
  BY <1>2, <1>3, <1>5, <1>10, <1>11, <1>15, <1>25, <1>26 DEF SpPathsOK
<1> QED
  BY <1>16, <1>20, <1>21, <1>27 DEF PathInv

LEMMA PublishPathKeeps ==
  ASSUME SpInv, NEW c \in Candidates, Publish(c)
  PROVE  PathInv'
<1>1. cand[c].at = "publish" /\ UNCHANGED <<current, closer, projected>>
  BY DEF Publish
<1>2. \/ /\ To(c, Refused(c))
         /\ managers' = IF LastHolder(c) THEN [managers EXCEPT ![cand[c].manager] = ClosedManager] ELSE managers
         /\ paths' = IF LastHolder(c) THEN CloseHard(paths, PathsOf(cand[c].manager)) ELSE paths
      \/ Published(c)
  BY DEF Publish, MayPublish, Published, OldPath, NewPath
<1> QED
  BY <1>1, <1>2, PublishRefused, PublishDone

-----------------------------------------------------------------------------
(* SessionPaths: the theorems                                              *)

LEMMA SpInvInit == SessionPathsInit => SpInv
<1> SUFFICES ASSUME SessionPathsInit PROVE SpInv
  OBVIOUS
<1>1. /\ session = NoSession /\ issued = 0 /\ keys = {} /\ current = 0 /\ managers = <<>> /\ paths = <<>>
      /\ projected = [k \in Kinds |-> NoProjection] /\ cand = [c \in Candidates |-> IdleCand]
      /\ closer = [at |-> "idle", how |-> "none", id |-> 0, manager |-> 0]
  BY DEF SessionPathsInit
<1>2. \A c \in Candidates : cand[c].at = "idle" /\ cand[c].id = 0
  BY <1>1 DEF IdleCand
<1>3. SessOK
  BY <1>1, SessionPathsAssumption DEF SessOK, NoSession
<1>4. CandOK
  <2>1. cand \in [Candidates -> SpCands]
    BY <1>1, IdleCandType
  <2>2. "idle" \notin SpNamed /\ "idle" \notin SpWaiting
    BY DEF SpNamed, SpWaiting, SpHolders, Holding
  <2> QED
    BY <1>1, <1>2, <2>1, <2>2 DEF CandOK, Candidates
<1>5. HoldersOK
  BY <1>1, <1>2 DEF HoldersOK, SpHolders, Holding, NoSession
<1>6. SleepOK
  BY <1>2 DEF SleepOK, Candidates
<1>7. /\ managers \in Seq(SpManagers) /\ paths \in Seq(SpPathRecords) /\ Len(managers) = 0
      /\ DOMAIN managers = {} /\ DOMAIN paths = {}
  BY <1>1
<1>8. ManagersOK
  <2>1. closer \in SpClosers /\ closer.manager = 0
    BY <1>1 DEF SpClosers
  <2> QED
    BY <1>1, <1>7, <2>1 DEF ManagersOK
<1>9. SpPathsOK
  BY <1>7 DEF SpPathsOK, CarrierClosedOnce, NoLeakedPath
<1>10. ProjectionsOK
  BY <1>1 DEF ProjectionsOK, NoProjection
<1>11. LinksOK
  BY <1>2 DEF LinksOK, LinkOK
<1> QED
  BY <1>3, <1>4, <1>5, <1>6, <1>8, <1>9, <1>10, <1>11 DEF SpInv, SessInv, PathInv

LEMMA PathStep ==
  ASSUME SpInv, [SessionPathsNext]_spVars
  PROVE  PathInv'
<1>1. PathInv
  BY DEF SpInv
<1>2. ASSUME NEW c \in Candidates, BeginConnect(c) \/ Accept(c) \/ CandStep(c) PROVE PathInv'
  BY <1>2, NeutralSteps, TakeDownSteps, SnapshotKeeps, FailCloseKeeps, ProjectKeeps, FindKeeps, PublishPathKeeps
  DEF CandStep
<1>3. CASE CloserStep \/ \E how \in {"disconnect", "remove"} : CloseBegin(how)
  BY <1>3, CloserPaths
<1>4. CASE \/ \E need \in PathDemands : AcquireLease(need) \/ ArmProbe(need)
           \/ FinishProbe
           \/ \E p \in DOMAIN paths : ReleaseLease(p) \/ LosePath(p) \/ CleanupPath(p)
           \/ UNCHANGED spVars
  BY <1>1, <1>4, UseKeeps
<1> QED
  BY <1>2, <1>3, <1>4 DEF SessionPathsNext

LEMMA SpInvStep == SpInv /\ [SessionPathsNext]_spVars => SpInv'
<1> SUFFICES ASSUME SpInv, [SessionPathsNext]_spVars PROVE SpInv'
  OBVIOUS
<1>1. SessInv' /\ PathInv'
  BY SessStep, PathStep
<1> QED
  BY <1>1 DEF SpInv

LEMMA SpInvImplies == SpInv => PathsOwned /\ SleeperIsWoken
<1> SUFFICES ASSUME SpInv PROVE PathsOwned /\ SleeperIsWoken
  OBVIOUS
<1>1. SessOK /\ CandOK /\ HoldersOK /\ SleepOK /\ PathInv /\ SpPathsOK
  BY DEF SpInv, SessInv, PathInv
<1>2. OneHolder
  BY <1>1 DEF OneHolder, HoldersOK, SpHolders
<1>3. SleeperIsWoken
  BY <1>1 DEF SleepOK, SleeperIsWoken
<1>4. SessionPathsTypeOK
  <2>1. /\ session.phase \in {"absent", "reserved", "claimed", "authenticated"}
        /\ session.id \in 0 .. issued /\ issued <= MaxSessionIds
        /\ (session.phase \in {"absent", "reserved"}) = (session.binding = "none") /\ keys \subseteq 1 .. issued
    BY <1>1 DEF SessOK
  <2>2. current \in 0 .. Len(managers)
    BY <1>1, PathFacts
  <2>3. \A p \in DOMAIN paths : paths[p].state \in {"ready", "draining", "closed"} /\ paths[p].leases \in 0 .. MaxLeases
    BY <1>1, PathFacts DEF SpPathRecords
  <2>4. \A k \in Kinds : projected[k].path \in 0 .. Len(paths)
    <3>1. \A k \in Kinds : projected[k].path # 0 => projected[k].path \in 1 .. Len(paths)
      BY <1>1, PathFacts DEF PathInv, ProjectionsOK
    <3>2. Len(paths) \in Nat
      BY <1>1, PathFacts
    <3> QED
      BY <3>1, <3>2
  <2> QED
    BY <2>1, <2>2, <2>3, <2>4 DEF SessionPathsTypeOK
<1> QED
  BY <1>1, <1>2, <1>3, <1>4 DEF PathsOwned, SpPathsOK

\* Whatever admissions, publications, losses, failures and teardowns interleave, for
\* any number of candidates: at most one of them holds a session id, every carrier is
\* closed exactly when its path is, a Ready path sits in the slot of its manager, and a
\* path that is not closed is reachable by whoever must close it.
THEOREM PathsStayOwned == SessionPathsSpec => []PathsOwned
<1>1. SpInv => PathsOwned
  BY SpInvImplies
<1> QED
  BY <1>1, SpInvInit, SpInvStep, PTL DEF SessionPathsSpec

\* A loser of admit_single_winner sleeps only while the notification that wakes it is
\* still to come.
THEOREM SleepersAreWoken == SessionPathsSpec => []SleeperIsWoken
<1>1. SpInv => SleeperIsWoken
  BY SpInvImplies
<1> QED
  BY <1>1, SpInvInit, SpInvStep, PTL DEF SessionPathsSpec

\* fail_session closes paths of its own session only, however late it runs.
THEOREM FailureIsLocal == SessionPathsSpec => FailureSparesOthers
<1> DEFINE Spares == \A c \in Candidates : FailClose(c) =>
             \A p \in DOMAIN paths : paths'[p].state # paths[p].state => paths[p].session = cand[c].id
<1>1. SpInv => Spares
  <2> SUFFICES ASSUME SpInv, NEW c \in Candidates, FailClose(c), NEW p \in DOMAIN paths,
                      paths'[p].state # paths[p].state
               PROVE  paths[p].session = cand[c].id
    OBVIOUS
  <2>1. PathInv /\ paths \in Seq(SpPathRecords) /\ ClosesOnce(paths)
    BY PathFacts DEF SpInv
  <2> DEFINE taken == {managers[cand[c].manager][k] : k \in SlotsSeen(c, cand[c].manager)}
  <2>2. cand[c].at = "close" /\ paths' = CloseHard(paths, taken)
    BY DEF FailClose
  <2> HIDE DEF taken
  <2>3. p \in taken
    BY <2>1, <2>2, CloseHardEffect
  <2>4. PICK k \in Kinds : cand[c].seen[k] # 0 /\ p = cand[c].seen[k]
    BY <2>3 DEF taken, SlotsSeen
  <2>5. LinkOK(cand[c])
    BY <2>1 DEF PathInv, LinksOK
  <2> QED
    BY <2>2, <2>4, <2>5 DEF LinkOK
<1>2. SpInv /\ [SessionPathsNext]_spVars => [Spares]_spVars
  BY <1>1
<1> QED
  BY <1>2, SpInvInit, SpInvStep, PTL DEF SessionPathsSpec, FailureSparesOthers
=============================================================================
