--------------------------- MODULE TransferManager --------------------------
(***************************************************************************)
(* One file transfer between two devices: the entry each side's            *)
(* TransferManager keeps for its id, and the files of the receiver.  The   *)
(* tasks that drive a transfer are in Transfers.                           *)
(*                                                                         *)
(* A file is a sequence of TrChunks chunks; a chunk is the version of the  *)
(* source it was read from.  The offered manifest is that of version 0, so *)
(* a content hashes to the manifest exactly when it is Whole.  Both sides  *)
(* always offer the same manifest under the id: requests for a different   *)
(* one are refused wherever the code compares them.                        *)
(***************************************************************************)
EXTENDS Naturals, Sequences, FiniteSets

CONSTANTS TrChunks, TrMaxAttempts, TrBudget, TrRoutes
ASSUME TransferAssumption ==
  /\ {TrChunks, TrMaxAttempts, TrBudget} \subseteq Nat \ {0}
  /\ TrRoutes \subseteq {"quic", "relay"}

Attempts == 1..TrMaxAttempts
Whole == [i \in 1..TrChunks |-> 0]
\* No version of the source is 2 or 3, so neither is a content that was ever sent.
NoFile == <<2>>
Other == <<3>>            \* a file of the same name with another content

States == {"offering", "waiting", "transferring", "resuming", "verifying", "paused", "cancelled"}
Running == {"offering", "waiting", "transferring", "resuming", "verifying"}
NoTransfer == [st |-> "absent", off |-> 0, tok |-> 0]
Known(e) == e.st # "absent"
NewTransfer(st, tok) == [st |-> st, off |-> 0, tok |-> tok]

\* Completed and Failed entries are removed in the step that makes them.
CanRegisterIncoming(e) == e.st \in {"absent", "paused"}
RegisterIncoming(e, tok) ==
  IF e.st = "paused" THEN [e EXCEPT !.st = "waiting"] ELSE NewTransfer("waiting", tok)
\* take_resumable_for_peer, claim_incoming_resume
CanResume(e) == e.st = "paused"
CanMarkTransferring(e) == e.st \in {"offering", "waiting", "resuming"}
CanMarkVerifying(e) == e.st = "transferring"
CanMarkCompleted(e) == e.st \in {"transferring", "verifying"}
CanFail(e) == e.st \in Running \cup {"paused"}
To(e, st) == [e EXCEPT !.st = st]
\* update_progress
Progress(e, n) == IF e.st \in Running THEN [e EXCEPT !.off = n] ELSE e
\* Mutant: a transfer that is being verified is not paused.
PauseUnlessVerifying(e) == IF e.st \in Running \ {"verifying"} THEN To(e, "paused") ELSE e
\* pause_for_network, pause_peer_transfers
Pause(e) == IF e.st \in Running THEN To(e, "paused") ELSE e
=============================================================================
