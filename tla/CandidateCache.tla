--------------------------- MODULE CandidateCache ---------------------------
(***************************************************************************)
(* What a device remembers of the candidates of one peer:                   *)
(* ResolvedCandidateCache (network-nat/src/candidate_v2.rs), which outlives  *)
(* the attempts, and the remote view of one ConnectivityAttempt              *)
(* (network-nat/src/attempt.rs).                                             *)
(*                                                                         *)
(* A snapshot is [epoch, rev, content]: epochs are opaque and only compared  *)
(* for equality, revisions are ordered within an epoch, and the content      *)
(* stands for the normalised candidates and their fingerprint.  The learning *)
(* point and its time to live become one flag, fresh.  Snapshots are taken   *)
(* as well formed: a malformed one is an error before anything changes.      *)
(***************************************************************************)
EXTENDS Naturals, FiniteSets

CONSTANT CcMaxRetired  \* MAX_RETIRED_EPOCHS

ASSUME CandidateCacheAssumption == CcMaxRetired \in Nat \ {0}

CcNoEpoch == 0
CcNone == [epoch |-> CcNoEpoch, rev |-> 0, content |-> 0, fresh |-> FALSE,
           retired |-> {}, expected |-> CcNoEpoch]
CcHas(c) == c.epoch # CcNoEpoch

CcFromSnapshot(s) ==
  [epoch |-> s.epoch, rev |-> s.rev, content |-> s.content, fresh |-> TRUE,
   retired |-> {}, expected |-> CcNoEpoch]

\* Mutant: an epoch that was replaced is not remembered.
CcForget(retired, e) == {retired}
\* retire_epoch: a full set first loses an arbitrary member.
CcRetire(retired, e) ==
  IF e \in retired THEN {retired}
  ELSE IF Cardinality(retired) < CcMaxRetired THEN {retired \cup {e}}
  ELSE {(retired \ {x}) \cup {e} : x \in retired}

\* apply: the caches that may result.
CcApply(c, s) ==
  IF ~CcHas(c) THEN {CcFromSnapshot(s)}
  ELSE IF s.epoch \in c.retired THEN {c}
  ELSE LET lifted == {[c EXCEPT !.expected = CcNoEpoch, !.retired = r] : r \in
                        IF c.expected \in {CcNoEpoch, s.epoch} THEN {c.retired}
                        ELSE CcRetire(c.retired, c.expected)} IN
       IF s.epoch = c.epoch /\ s.rev < c.rev THEN lifted
       ELSE IF s.epoch = c.epoch /\ s.rev = c.rev
         THEN {[d EXCEPT !.fresh = @ \/ s.content = c.content] : d \in lifted}
       ELSE UNION {{[CcFromSnapshot(s) EXCEPT !.retired = r] : r \in CcRetire(d.retired, c.epoch)} :
                     d \in lifted}

\* invalidate_for_remote_epoch: the candidates go at once; the epoch of the
\* hint is awaited.
CcInvalidate(c, e) ==
  IF ~CcHas(c) \/ e = c.epoch THEN {c}
  ELSE {[c EXCEPT !.retired = r, !.expected = e, !.content = 0, !.fresh = FALSE] :
          r \in CcRetire(c.retired, c.epoch)}

\* apply_remote_candidates_unchecked: another epoch replaces the view, within an
\* epoch only a smaller revision is stale.
CcAnswerApplies(view, s) == s.epoch # view.epoch \/ s.rev >= view.rev
=============================================================================
