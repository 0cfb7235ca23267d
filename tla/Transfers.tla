------------------------------ MODULE Transfers -----------------------------
(***************************************************************************)
(* The tasks that send and receive one file (transfer_operations/,         *)
(* relay_transfer/, network-transfer): the sender's attempts over a QUIC   *)
(* path or a relay reservation, the receiver's task of a QUIC stream, the  *)
(* relay envelope handlers, approval, cancellation, resumption, loss of a  *)
(* path and the teardown of its session on either side.                    *)
(*                                                                         *)
(* An attempt is one run of send_file or send_file_over_relay.  Its wire   *)
(* is a FIFO each way.  A handler of one envelope is one step, except that *)
(* a cancellation answers the waiting task and drops the entry separately. *)
(***************************************************************************)
EXTENDS TransferManager

VARIABLES
  trS, trR,       \* the entries of the sender and of the receiver
  trAtt,          \* attempt -> the sender's task
  trRecv,         \* attempt -> the receiver's task of its QUIC stream
  trToR, trToS,   \* attempt -> envelopes under way
  trUp,           \* attempt -> is its path up
  trEnd,          \* attempt -> sides that have paused ("s", "r") and aborted ("sx", "rx") for its loss
  trCan,          \* tokens that have been cancelled
  trDec,          \* incoming_decisions: the waiting task, or 0
  trPend, trAct,  \* pending_incoming and active_incoming of the relay
  trTimer,        \* attempts whose relay-approval-timeout is running
  trAcc, trComp,  \* acceptances and completions: the waiting attempt, or 0
  trPart, trFinal, trSrc,  \* X.part, the destination, the version of the source
  trApproved,     \* the user has accepted the receiver's entry
  trDone, trErr,  \* completed events per side, and what error events reported
  trSpent

trVars == <<trS, trR, trAtt, trRecv, trToR, trToS, trUp, trEnd, trCan, trDec, trPend, trAct, trTimer,
            trAcc, trComp, trPart, trFinal, trSrc, trApproved, trDone, trErr, trSpent>>
trSender == <<trS, trAtt, trAcc, trComp, trSrc>>
trReceiver == <<trR, trRecv, trDec, trPend, trAct, trTimer, trPart, trFinal, trApproved>>
trOutcome == <<trDone, trErr>>

NoAttempt == [route |-> "none", pc |-> "idle", off |-> 0, tok |-> 0, got |-> "none"]
NoReceive == [pc |-> "idle", off |-> 0, tok |-> 0, ino |-> 0, dec |-> "none"]
NoPart == [ino |-> 0, data |-> <<>>]
Inactive == [a |-> 0, data |-> <<>>, ino |-> 0, done |-> FALSE]

TransfersInit ==
  /\ trS = NoTransfer /\ trR = NoTransfer
  /\ trAtt = [a \in Attempts |-> NoAttempt] /\ trRecv = [a \in Attempts |-> NoReceive]
  /\ trToR = [a \in Attempts |-> <<>>] /\ trToS = [a \in Attempts |-> <<>>]
  /\ trUp = [a \in Attempts |-> TRUE] /\ trEnd = [a \in Attempts |-> {}]
  /\ trCan = {} /\ trDec = 0 /\ trPend = 0 /\ trAct = Inactive /\ trTimer = {}
  /\ trAcc = 0 /\ trComp = 0
  /\ trPart = NoPart /\ trFinal \in {NoFile, Other} /\ trSrc = 0
  /\ trApproved = FALSE /\ trDone = [s |-> 0, r |-> 0] /\ trErr = {} /\ trSpent = 0

TrHappens == trSpent < TrBudget /\ trSpent' = trSpent + 1
ToReceiver(a, m) == trToR' = [trToR EXCEPT ![a] = IF trUp[a] THEN Append(@, m) ELSE @]
ToSender(a, m) == trToS' = [trToS EXCEPT ![a] = IF trUp[a] THEN Append(@, m) ELSE @]
Msg(k) == [k |-> k, n |-> 0]
HeadIs(q, k) == q # <<>> /\ Head(q).k = k

-----------------------------------------------------------------------------
(* The end of an attempt                                                   *)

SetAttempt(a, r) == trAtt' = [trAtt EXCEPT ![a] = r]
EndAttempt(a) == SetAttempt(a, [trAtt[a] EXCEPT !.pc = "done", !.got = "none"])
\* fail_transfer, the error event and remove_transfer, unless the entry is gone or terminal.
FailEntry(why) ==
  IF CanFail(trS) THEN trS' = NoTransfer /\ trErr' = trErr \cup {why} ELSE UNCHANGED <<trS, trErr>>

\* A transport error pauses the entry; one that cannot be paused any more is failed.
LoseAttempt(a) ==
  /\ EndAttempt(a)
  /\ IF trS.st \in Running THEN trS' = Pause(trS) /\ UNCHANGED trErr ELSE FailEntry("network")
\* Any other error fails it; over a relay the receiver is told, and a cancelled entry is removed.
FailAttempt(a, why) ==
  /\ EndAttempt(a) /\ FailEntry(why)
  /\ IF trAtt[a].route = "relay" THEN ToReceiver(a, Msg("cancel")) ELSE UNCHANGED trToR
StaleAttempt(a) == EndAttempt(a) /\ UNCHANGED <<trS, trErr>>
CompleteAttempt(a) == EndAttempt(a) /\ trS' = NoTransfer /\ trDone' = [trDone EXCEPT !.s = @ + 1]

-----------------------------------------------------------------------------
(* The sender                                                              *)

NextAttempt(a) == trAtt[a].pc = "idle" /\ \A b \in Attempts : b < a => trAtt[b].pc # "idle"
Dispatch(a, route, off) ==
  SetAttempt(a, [NoAttempt EXCEPT !.route = route, !.pc = "offer", !.off = off])
\* select_attempt: a path that carries reliable streams, when there is one.
SelectRoutes == TrRoutes
\* start_file_send
SendFile(a, route) ==
  /\ NextAttempt(a) /\ ~Known(trS) /\ TrHappens
  /\ trS' = NewTransfer("offering", a) /\ Dispatch(a, route, 0)
  /\ UNCHANGED <<trReceiver, trOutcome, trToR, trToS, trUp, trEnd, trCan, trAcc, trComp, trSrc>>
\* Resumption between the pause and the abort of one teardown is left out.
TornDown == \A a \in Attempts : "s" \in trEnd[a] => "sx" \in trEnd[a]
\* resume_transfers_for_peer: the paused entry is claimed for a new attempt.
ResumeTransfer(a, route) ==
  /\ NextAttempt(a) /\ CanResume(trS) /\ TornDown
  /\ trS' = To(trS, "resuming") /\ Dispatch(a, route, trS.off)
  /\ UNCHANGED <<trReceiver, trOutcome, trToR, trToS, trUp, trEnd, trCan, trAcc, trComp, trSrc, trSpent>>
\* The same when the supervisor refuses the task: nobody drives the claimed entry.
ResumeRefused ==
  /\ CanResume(trS) /\ TornDown /\ TrHappens /\ trS' = To(trS, "resuming")
  /\ UNCHANGED <<trReceiver, trOutcome, trAtt, trToR, trToS, trUp, trEnd, trCan, trAcc, trComp, trSrc>>
\* The user edits the source.
SourceChanges ==
  /\ trSrc = 0 /\ \E a \in Attempts : trAtt[a].pc \in {"decision", "accept", "stream"}
  /\ TrHappens /\ trSrc' = 1
  /\ UNCHANGED <<trReceiver, trOutcome, trS, trAtt, trAcc, trComp, trToR, trToS, trUp, trEnd, trCan>>

SenderMoves == UNCHANGED <<trReceiver, trUp, trEnd, trCan, trSrc, trSpent>>
\* The manifest is built again and compared, then offered.
OfferOverQuic(a) ==
  /\ trAtt[a].pc = "offer" /\ trAtt[a].route = "quic" /\ trUp[a] /\ SenderMoves
  /\ IF trSrc # 0 THEN FailAttempt(a, "source")
     ELSE /\ ToReceiver(a, Msg("offer")) /\ UNCHANGED <<trS, trErr>>
          /\ SetAttempt(a, [trAtt[a] EXCEPT !.pc = "decision"])
  /\ UNCHANGED <<trDone, trToS, trAcc, trComp>>
\* Over a relay the waiter for the acceptance is registered first.
OfferOverRelay(a) ==
  /\ trAtt[a].pc = "offer" /\ trAtt[a].route = "relay" /\ trUp[a] /\ SenderMoves
  /\ IF trSrc # 0 THEN FailAttempt(a, "source") /\ UNCHANGED trAcc
     ELSE /\ trAcc' = a /\ ToReceiver(a, Msg("offer")) /\ UNCHANGED <<trS, trErr>>
          /\ SetAttempt(a, [trAtt[a] EXCEPT !.pc = "accept"])
  /\ UNCHANGED <<trDone, trToS, trComp>>

BeginStream(a, off) ==
  /\ trS' = Progress(To(trS, "transferring"), off)
  /\ SetAttempt(a, [trAtt[a] EXCEPT !.pc = "stream", !.off = off, !.tok = trS.tok, !.got = "none"])
\* read_file_decision
ReadDecision(a) ==
  /\ trAtt[a].pc = "decision" /\ HeadIs(trToS[a], "decision")
  /\ trToS' = [trToS EXCEPT ![a] = Tail(@)]
  /\ LET d == Head(trToS[a]) IN
     IF d.n = 0 \/ ~CanMarkTransferring(trS)
       THEN FailAttempt(a, IF d.n = 0 THEN "rejected" ELSE "protocol")
       ELSE BeginStream(a, d.n - 1) /\ UNCHANGED <<trErr, trToR>>
  /\ SenderMoves /\ UNCHANGED <<trDone, trAcc, trComp>>

Cancelled(t) == t.tok \in trCan
Chunk(a) == [k |-> "chunk", n |-> trAtt[a].off, src |-> trSrc]
Streaming(a, route) == trAtt[a].pc = "stream" /\ trAtt[a].route = route /\ trUp[a] /\ SenderMoves
\* stream_send_file_cancellable: one chunk.
ChunkOverQuic(a) ==
  /\ Streaming(a, "quic") /\ trAtt[a].off < TrChunks
  /\ IF Cancelled(trAtt[a]) THEN FailAttempt(a, "cancelled")
     ELSE ToReceiver(a, Chunk(a)) /\ SetAttempt(a, [trAtt[a] EXCEPT !.off = @ + 1]) /\ UNCHANGED <<trS, trErr>>
  /\ UNCHANGED <<trDone, trToS, trAcc, trComp>>
\* Over a relay what was written counts as confirmed.
ChunkOverRelay(a) ==
  /\ Streaming(a, "relay") /\ trAtt[a].off < TrChunks
  /\ IF Cancelled(trAtt[a]) THEN FailAttempt(a, "cancelled")
     ELSE /\ ToReceiver(a, Chunk(a)) /\ SetAttempt(a, [trAtt[a] EXCEPT !.off = @ + 1])
          /\ trS' = Progress(trS, trAtt[a].off + 1) /\ UNCHANGED trErr
  /\ UNCHANGED <<trDone, trToS, trAcc, trComp>>
\* The stream is finished and the entry waits for the receiver's verification.
EndOverQuic(a) ==
  /\ Streaming(a, "quic") /\ trAtt[a].off = TrChunks
  /\ IF Cancelled(trAtt[a]) THEN FailAttempt(a, "cancelled")
     ELSE /\ UNCHANGED <<trErr, trToR>>
          /\ IF CanMarkVerifying(trS)
               THEN trS' = To(trS, "verifying") /\ SetAttempt(a, [trAtt[a] EXCEPT !.pc = "verify"])
               ELSE EndAttempt(a) /\ UNCHANGED trS
  /\ UNCHANGED <<trDone, trToS, trAcc, trComp>>
\* FILE_COMPLETE, after its waiter is registered.
EndOverRelay(a) ==
  /\ Streaming(a, "relay") /\ trAtt[a].off = TrChunks
  /\ IF Cancelled(trAtt[a]) THEN FailAttempt(a, "cancelled") /\ UNCHANGED trComp
     ELSE /\ trComp' = a /\ ToReceiver(a, Msg("complete")) /\ UNCHANGED <<trS, trErr>>
          /\ SetAttempt(a, [trAtt[a] EXCEPT !.pc = "complete"])
  /\ UNCHANGED <<trDone, trToS, trAcc>>
\* read_file_completion
ReadCompletion(a) ==
  /\ trAtt[a].pc = "verify" /\ HeadIs(trToS[a], "completion")
  /\ trToS' = [trToS EXCEPT ![a] = Tail(@)]
  /\ IF CanMarkCompleted(trS) THEN CompleteAttempt(a) /\ UNCHANGED trErr
     ELSE StaleAttempt(a) /\ UNCHANGED trDone
  /\ UNCHANGED <<trReceiver, trToR, trUp, trEnd, trCan, trAcc, trComp, trSrc, trSpent>>

\* The waiters of an attempt over a relay are removed by id when it stops waiting.
LeaveWait(a) ==
  /\ trAcc' = IF trAtt[a].pc = "accept" THEN 0 ELSE trAcc
  /\ trComp' = IF trAtt[a].pc = "complete" THEN 0 ELSE trComp
\* Mutant: a stream the peer has dropped is not noticed.
BrokenPath(a) == ~trUp[a]
\* The peer's end of a QUIC stream is gone, or the path is.
Broken(a) ==
  \/ ~trUp[a]
  \/ trAtt[a].route = "quic" /\ trRecv[a].pc = "done" /\ trAtt[a].pc \in {"decision", "stream", "verify"}
     /\ trToS[a] = <<>>
\* The errors that count as transient: a broken stream or path, and the timed waits.
QuicTransient(a) ==
  trAtt[a].route = "quic" /\ (trAtt[a].pc = "verify" \/ (trAtt[a].pc \notin {"idle", "done"} /\ Broken(a)))
RelayTransient(a) ==
  trAtt[a].route = "relay" /\ (trAtt[a].pc \in {"accept", "complete"} \/ (trAtt[a].pc \in {"offer", "stream"} /\ Broken(a)))
AttemptLost(a) ==
  /\ QuicTransient(a) \/ RelayTransient(a)
  /\ LoseAttempt(a) /\ LeaveWait(a) /\ SenderMoves /\ UNCHANGED <<trDone, trToR, trToS>>

\* Relay envelopes at the sender: the waiter is answered, then the task goes on.
RelayAnswer(a) ==
  /\ trToS[a] # <<>> /\ trAtt[a].route = "relay" /\ trUp[a]
  /\ LET m == Head(trToS[a])
         Tell(b, got) == IF b = 0 THEN trAtt ELSE [trAtt EXCEPT ![b].got = got]
     IN \/ /\ m.k = "accept" /\ trAcc' = 0 /\ trToS' = [trToS EXCEPT ![a] = Tail(@)]
           /\ trAtt' = IF trAcc = 0 THEN trAtt ELSE [trAtt EXCEPT ![trAcc].got = "accept", ![trAcc].tok = m.n]
           /\ UNCHANGED <<trS, trComp, trCan>>
        \/ /\ m.k = "ack" /\ trComp' = 0 /\ trToS' = [trToS EXCEPT ![a] = Tail(@)]
           /\ trAtt' = Tell(trComp, "ack") /\ UNCHANGED <<trS, trAcc, trCan>>
        \/ /\ m.k = "cancel" /\ trAcc' = 0 /\ trComp' = 0
           /\ trAtt' = [b \in Attempts |-> IF b # 0 /\ b \in {trAcc, trComp}
                                             THEN [trAtt[b] EXCEPT !.got = IF b = trAcc THEN "reject" ELSE "nack"]
                                             ELSE trAtt[b]]
           /\ trToS' = [trToS EXCEPT ![a] = <<Msg("drop")>> \o Tail(@)] /\ UNCHANGED <<trS, trCan>>
        \/ /\ m.k = "drop" /\ trToS' = [trToS EXCEPT ![a] = Tail(@)]
           /\ trS' = NoTransfer /\ trCan' = IF CanFail(trS) THEN trCan \cup {trS.tok} ELSE trCan
           /\ UNCHANGED <<trAtt, trAcc, trComp>>
  /\ UNCHANGED <<trReceiver, trOutcome, trToR, trUp, trEnd, trSrc, trSpent>>
\* The task goes on with the acceptance (tok holds its offset) or with the refusal.
RelayAccepted(a) ==
  /\ trAtt[a].got \in {"accept", "reject"} /\ LeaveWait(a) /\ SenderMoves
  /\ IF trAtt[a].got = "accept" /\ trAtt[a].tok >= trAtt[a].off /\ CanMarkTransferring(trS)
       THEN BeginStream(a, trAtt[a].tok) /\ UNCHANGED <<trErr, trToR>>
       ELSE FailAttempt(a, IF trAtt[a].got = "accept" THEN "protocol" ELSE "rejected")
  /\ UNCHANGED <<trDone, trToS>>
\* With the acknowledgement of the completion, or with a cancellation taken for a timeout.
RelayCompleted(a) ==
  /\ trAtt[a].got \in {"ack", "nack"} /\ LeaveWait(a) /\ SenderMoves
  /\ \/ trAtt[a].got = "nack" /\ LoseAttempt(a) /\ UNCHANGED trDone
     \/ trAtt[a].got = "ack" /\ CanMarkCompleted(trS) /\ CompleteAttempt(a) /\ UNCHANGED trErr
     \/ trAtt[a].got = "ack" /\ ~CanMarkCompleted(trS) /\ EndAttempt(a) /\ trS' = NoTransfer /\ UNCHANGED <<trDone, trErr>>
  /\ UNCHANGED <<trToR, trToS>>

-----------------------------------------------------------------------------
(* The receiver over QUIC                                                  *)

SetRecv(a, r) == trRecv' = [trRecv EXCEPT ![a] = r]
EndRecv(a) == SetRecv(a, [NoReceive EXCEPT !.pc = "done"])
\* Any error but a transport error: the entry and X.part are removed, whoever they belong to by now.
DiscardRecv(a) == EndRecv(a) /\ trR' = NoTransfer /\ trPart' = NoPart
\* Mutant: the checkpoint is deleted and its offset kept.
LoseCheckpoint(a) == EndRecv(a) /\ trR' = Pause(trR) /\ trPart' = NoPart
LoseRecv(a) == EndRecv(a) /\ trR' = Pause(trR) /\ UNCHANGED trPart
\* Mutant: a file of that name counts, whatever its hash.
NameExists == trFinal # NoFile
\* existing_completed_file, existing_partial_offset
AlreadyStored == trFinal = Whole
PartOffset == IF Len(trPart.data) <= TrChunks THEN Len(trPart.data) ELSE 0

\* handle_incoming_file_after_offer up to the wait for a decision; full: too many are pending.
ReceiveOffer(a) ==
  /\ trAtt[a].route = "quic" /\ HeadIs(trToR[a], "offer") /\ trRecv[a].pc = "idle" /\ trUp[a]
  /\ trToR' = [trToR EXCEPT ![a] = Tail(@)]
  /\ \/ /\ ~CanRegisterIncoming(trR) /\ EndRecv(a) /\ UNCHANGED <<trR, trPart, trDec, trApproved, trSpent>>
     \/ /\ CanRegisterIncoming(trR) /\ trDec = 0 /\ UNCHANGED <<trPart, trSpent>>
        /\ trR' = RegisterIncoming(trR, a) /\ trDec' = a
        /\ trApproved' = (trApproved /\ trR.st = "paused")
        /\ SetRecv(a, [NoReceive EXCEPT !.pc = "wait"])
     \/ /\ CanRegisterIncoming(trR) /\ trDec' = 0 /\ DiscardRecv(a) /\ trApproved' = FALSE
        /\ \/ trDec # 0 /\ UNCHANGED trSpent
           \/ trDec = 0 /\ TrHappens
  /\ UNCHANGED <<trSender, trOutcome, trToS, trUp, trEnd, trCan, trPend, trAct, trTimer, trFinal>>

\* The decision or the timeout; write_file_decision fails when the path is down.
Decided(a) ==
  /\ trRecv[a].pc = "wait" /\ trDec' = 0
  /\ \/ /\ trRecv[a].dec # "accept" /\ UNCHANGED <<trPart, trDone>>    \* refused, or nobody answered
        /\ IF trUp[a] THEN EndRecv(a) /\ trR' = NoTransfer /\ trToS' = [trToS EXCEPT ![a] = Append(@, [k |-> "decision", n |-> 0])]
                           /\ trCan' = IF CanFail(trR) THEN trCan \cup {trR.tok} ELSE trCan
           ELSE LoseRecv(a) /\ UNCHANGED <<trToS, trCan>>
     \/ /\ trRecv[a].dec = "accept" /\ ~trUp[a] /\ LoseRecv(a) /\ UNCHANGED <<trToS, trCan, trDone>>
     \/ /\ trRecv[a].dec = "accept" /\ trUp[a] /\ AlreadyStored /\ UNCHANGED trCan
        /\ IF CanMarkTransferring(trR)
             THEN /\ trToS' = [trToS EXCEPT ![a] = @ \o <<[k |-> "decision", n |-> TrChunks + 1], Msg("completion")>>]
                  /\ trDone' = [trDone EXCEPT !.r = @ + 1]
                  /\ EndRecv(a) /\ trR' = NoTransfer /\ UNCHANGED trPart
             ELSE /\ trToS' = [trToS EXCEPT ![a] = Append(@, [k |-> "decision", n |-> TrChunks + 1])]
                  /\ DiscardRecv(a) /\ UNCHANGED trDone
     \/ /\ trRecv[a].dec = "accept" /\ trUp[a] /\ ~AlreadyStored /\ UNCHANGED <<trCan, trDone>>
        /\ trToS' = [trToS EXCEPT ![a] = Append(@, [k |-> "decision", n |-> PartOffset + 1])]
        /\ IF CanMarkTransferring(trR)
             THEN /\ trR' = Progress(To(trR, "transferring"), PartOffset)
                  /\ trPart' = IF PartOffset = 0 THEN [ino |-> a, data |-> <<>>] ELSE trPart
                  /\ SetRecv(a, [pc |-> "recv", off |-> PartOffset, tok |-> trR.tok,
                                 ino |-> trPart'.ino, dec |-> "none"])
             ELSE DiscardRecv(a)
  /\ UNCHANGED <<trSender, trErr, trToR, trUp, trEnd, trPend, trAct, trTimer, trFinal, trApproved, trSpent>>

\* A write through a handle on the file that has the name now.
Written(ino, off, c) ==
  IF ino # trPart.ino THEN trPart
  ELSE [trPart EXCEPT !.data = IF off < Len(@) THEN [@ EXCEPT ![off + 1] = c] ELSE Append(@, c)]
\* The progress task may lag behind the file when the entry stops running.
ForwardProgress(e, n) == {e, Progress(e, n)}
\* stream_receive_file_cancellable: one chunk.
ReceiveChunk(a) ==
  /\ trRecv[a].pc = "recv" /\ trRecv[a].off < TrChunks /\ UNCHANGED trSpent
  /\ \/ /\ Cancelled(trRecv[a]) /\ DiscardRecv(a) /\ UNCHANGED trToR
     \/ /\ ~Cancelled(trRecv[a]) /\ HeadIs(trToR[a], "chunk") /\ trUp[a]
        /\ trToR' = [trToR EXCEPT ![a] = Tail(@)]
        /\ trPart' = Written(trRecv[a].ino, trRecv[a].off, Head(trToR[a]).src)
        /\ SetRecv(a, [trRecv[a] EXCEPT !.off = @ + 1])
        /\ trR' \in ForwardProgress(trR, trRecv[a].off + 1)
     \/ /\ ~Cancelled(trRecv[a]) /\ (~trUp[a] \/ (trAtt[a].pc = "done" /\ trToR[a] = <<>>))
        /\ LoseRecv(a) /\ UNCHANGED trToR
  /\ UNCHANGED <<trSender, trOutcome, trToS, trUp, trEnd, trCan, trDec, trPend, trAct, trTimer, trFinal, trApproved>>
\* Mutant: the file is moved into place before it is hashed.
MoveUnchecked(a) ==
  /\ trRecv[a].pc = "recv" /\ trRecv[a].off = TrChunks
  /\ trFinal' = trPart.data /\ trPart' = NoPart /\ SetRecv(a, [trRecv[a] EXCEPT !.pc = "moved"]) /\ UNCHANGED trR
  /\ UNCHANGED <<trSender, trOutcome, trToR, trToS, trUp, trEnd, trCan, trDec, trPend, trAct, trTimer, trApproved, trSpent>>
\* Hash by name, the cancellation, a destination that exists, and the rename.
MoveIntoPlace(a) ==
  /\ trRecv[a].pc = "recv" /\ trRecv[a].off = TrChunks
  /\ IF trPart.data = Whole /\ ~Cancelled(trRecv[a]) /\ trFinal = NoFile
       THEN /\ trFinal' = trPart.data /\ trPart' = NoPart /\ SetRecv(a, [trRecv[a] EXCEPT !.pc = "moved"])
            /\ UNCHANGED trR
       ELSE DiscardRecv(a) /\ UNCHANGED trFinal
  /\ UNCHANGED <<trSender, trOutcome, trToR, trToS, trUp, trEnd, trCan, trDec, trPend, trAct, trTimer, trApproved, trSpent>>
\* mark_verifying, the completion, mark_completed, remove_transfer and the event.
FinishRecv(a) ==
  /\ trRecv[a].pc = "moved"
  /\ \/ ~CanMarkVerifying(trR) /\ DiscardRecv(a) /\ UNCHANGED <<trToS, trDone>>
     \/ CanMarkVerifying(trR) /\ ~trUp[a] /\ LoseRecv(a) /\ UNCHANGED <<trToS, trDone>>
     \/ /\ CanMarkVerifying(trR) /\ trUp[a] /\ EndRecv(a) /\ trR' = NoTransfer /\ UNCHANGED trPart
        /\ trToS' = [trToS EXCEPT ![a] = Append(@, Msg("completion"))]
        /\ trDone' = [trDone EXCEPT !.r = @ + 1]
  /\ UNCHANGED <<trSender, trErr, trToR, trUp, trEnd, trCan, trDec, trPend, trAct, trTimer, trFinal, trApproved, trSpent>>

-----------------------------------------------------------------------------
(* The receiver over a relay                                               *)

\* cancel_relay_incoming: everything kept for the id goes, its checkpoint included.
CancelIncoming ==
  /\ trPend' = 0 /\ trAct' = Inactive /\ trPart' = NoPart
  /\ trR' = NoTransfer /\ trCan' = IF CanFail(trR) THEN trCan \cup {trR.tok} ELSE trCan
\* accept_pending_relay_incoming on the entry e, with what its caller does about an error.
AcceptRelay(a, e, OnError) ==
  LET done == AlreadyStored
      off == IF done THEN TrChunks ELSE PartOffset
      part == IF done \/ trPart.ino # 0 THEN trPart ELSE [ino |-> a, data |-> <<>>]
      refused == \/ ~done /\ trFinal # NoFile
                 \/ e.st = "resuming" /\ e.off # off
                 \/ ~CanMarkTransferring(e)
      Keep(entry, pend) == /\ trR' = entry /\ trPend' = pend /\ trPart' = part
                           /\ UNCHANGED <<trAct, trCan>>
  IN \/ /\ refused /\ UNCHANGED trToS
        /\ IF OnError = "leave" THEN Keep(e, 0) ELSE CancelIncoming
     \/ /\ ~refused /\ ~trUp[a] /\ UNCHANGED trToS
        /\ IF OnError = "leave" THEN Keep(To(Progress(e, off), "paused"), a) ELSE CancelIncoming
     \/ /\ ~refused /\ trUp[a]
        /\ trR' = To(Progress(e, off), "transferring") /\ trPend' = 0 /\ trPart' = part /\ UNCHANGED trCan
        /\ trAct' = [a |-> a, data |-> IF done THEN <<>> ELSE part.data, ino |-> part.ino, done |-> done]
        /\ ToSender(a, [k |-> "accept", n |-> off])

\* receive_relay_offer: a paused transfer of the same manifest is claimed and accepted at once.
RelayOffer(a) ==
  /\ trAtt[a].route = "relay" /\ HeadIs(trToR[a], "offer") /\ trUp[a]
  /\ trToR' = [trToR EXCEPT ![a] = Tail(@)]
  /\ LET claimed == CanResume(trR)
         new == trPend = 0
         e == IF claimed THEN To(trR, "resuming") ELSE IF new THEN NewTransfer("waiting", a) ELSE trR
     IN \/ /\ trAct.a # 0 /\ UNCHANGED <<trR, trPend, trAct, trPart, trCan, trToS, trTimer, trApproved>>
        \/ /\ trAct.a = 0 /\ new /\ ~CanRegisterIncoming(trR)
           /\ UNCHANGED <<trR, trPend, trAct, trPart, trCan, trToS, trTimer, trApproved>>
        \/ /\ trAct.a = 0 /\ (new => CanRegisterIncoming(trR)) /\ UNCHANGED trTimer
           /\ claimed \/ AlreadyStored
           /\ AcceptRelay(a, e, "leave") /\ trApproved' = (trApproved /\ ~(new /\ ~claimed))
        \/ /\ trAct.a = 0 /\ (new => CanRegisterIncoming(trR)) /\ ~claimed /\ ~AlreadyStored
           /\ trR' = e /\ trPend' = a /\ trTimer' = trTimer \cup {a} /\ trApproved' = (trApproved /\ ~new)
           /\ UNCHANGED <<trAct, trPart, trCan, trToS>>
  /\ UNCHANGED <<trSender, trOutcome, trUp, trEnd, trRecv, trDec, trFinal, trSpent>>
\* The approval timer of an offer whose session is still the pending one.
ApprovalExpires(a) ==
  /\ a \in trTimer /\ trTimer' = trTimer \ {a}
  /\ IF trPend = a THEN trPend' = 0 /\ trR' = NoTransfer /\ ToSender(a, Msg("cancel"))
     ELSE UNCHANGED <<trPend, trR, trToS>>
  /\ UNCHANGED <<trSender, trOutcome, trToR, trUp, trEnd, trCan, trRecv, trDec, trAct, trPart, trFinal, trApproved, trSpent>>

InSequence(n) == n = Len(trAct.data)
\* receive_relay_chunk
RelayChunk(a) ==
  /\ trAtt[a].route = "relay" /\ HeadIs(trToR[a], "chunk") /\ trUp[a]
  /\ trToR' = [trToR EXCEPT ![a] = Tail(@)]
  /\ LET m == Head(trToR[a])
     IN IF trAct.a = a /\ ~trAct.done /\ InSequence(m.n) /\ m.n < TrChunks
          THEN /\ trPart' = Written(trAct.ino, m.n, m.src) /\ trAct' = [trAct EXCEPT !.data = Append(@, m.src)]
               /\ trR' = Progress(trR, m.n + 1)
          ELSE UNCHANGED <<trPart, trAct, trR>>
  /\ UNCHANGED <<trSender, trOutcome, trToS, trUp, trEnd, trCan, trRecv, trDec, trPend, trTimer, trFinal, trApproved, trSpent>>
\* Mutant: the bytes are counted, not hashed.
CountedOnly == Len(trAct.data) = TrChunks
Verified == trAct.data = Whole
\* complete_relay_incoming
RelayComplete(a) ==
  /\ trAtt[a].route = "relay" /\ HeadIs(trToR[a], "complete") /\ trUp[a]
  /\ trToR' = [trToR EXCEPT ![a] = Tail(@)] /\ trAct' = Inactive
  /\ LET Failed == trR' = NoTransfer /\ trPart' = NoPart /\ UNCHANGED <<trFinal, trDone, trToS>>
         Acked(emit) == /\ trR' = NoTransfer /\ ToSender(a, Msg("ack"))
                        /\ trDone' = IF emit THEN [trDone EXCEPT !.r = @ + 1] ELSE trDone
     IN \/ trAct.a = 0 /\ UNCHANGED <<trR, trPart, trFinal, trDone, trToS>>
        \/ trAct.a # 0 /\ trAct.done /\ Acked(FALSE) /\ UNCHANGED <<trPart, trFinal>>
        \/ trAct.a # 0 /\ ~trAct.done /\ ~Verified /\ Failed
        \/ /\ trAct.a # 0 /\ ~trAct.done /\ Verified
           /\ \/ AlreadyStored /\ trPart' = NoPart /\ Acked(CanMarkCompleted(trR)) /\ UNCHANGED trFinal
              \/ trFinal \notin {NoFile, Whole} /\ Failed
              \/ trFinal = NoFile /\ trPart.ino = 0 /\ Failed
              \/ /\ trFinal = NoFile /\ trPart.ino # 0
                 /\ trFinal' = trPart.data /\ trPart' = NoPart /\ Acked(CanMarkCompleted(trR))
  /\ UNCHANGED <<trSender, trErr, trUp, trEnd, trCan, trRecv, trDec, trPend, trTimer, trApproved, trSpent>>
\* FILE_CANCEL at the receiver
RelayCancelled(a) ==
  /\ HeadIs(trToR[a], "cancel") /\ trUp[a] /\ trToR' = [trToR EXCEPT ![a] = Tail(@)] /\ CancelIncoming
  /\ UNCHANGED <<trSender, trOutcome, trToS, trUp, trEnd, trRecv, trDec, trTimer, trFinal, trApproved, trSpent>>

-----------------------------------------------------------------------------
(* Commands of the receiver's user, and cancellation on either side        *)

\* respond_to_incoming: the QUIC task that waits is answered.
RespondQuic(accept) ==
  /\ trDec # 0 /\ trDec' = 0 /\ trApproved' = (trApproved \/ accept)
  /\ IF trRecv[trDec].pc # "wait" THEN UNCHANGED trRecv
     ELSE SetRecv(trDec, [trRecv[trDec] EXCEPT !.dec = IF accept THEN "accept" ELSE "refuse"])
  /\ UNCHANGED <<trSender, trOutcome, trToR, trToS, trUp, trEnd, trCan, trR, trPend, trAct, trPart, trTimer, trFinal, trSpent>>
\* respond_to_relay_incoming: the offer is no longer pending even when the path turns out to be down.
RespondRelay(accept) ==
  /\ trDec = 0 /\ trPend # 0 /\ trApproved' = (trApproved \/ accept)
  /\ \/ ~trUp[trPend] /\ trPend' = 0 /\ UNCHANGED <<trR, trAct, trPart, trCan, trToS>>
     \/ /\ trUp[trPend] /\ ~accept /\ trPend' = 0 /\ trR' = NoTransfer
        /\ trCan' = (IF CanFail(trR) THEN trCan \cup {trR.tok} ELSE trCan)
        /\ ToSender(trPend, Msg("cancel")) /\ UNCHANGED <<trAct, trPart>>
     \/ trUp[trPend] /\ accept /\ AcceptRelay(trPend, trR, "cancel")
  /\ UNCHANGED <<trSender, trOutcome, trToR, trUp, trEnd, trDec, trRecv, trTimer, trFinal, trSpent>>

RelayLease(a) == trAtt[a].route = "relay" /\ trUp[a]
TellCancel(wire) ==
  IF \E a \in Attempts : RelayLease(a)
    THEN \E a \in Attempts : RelayLease(a) /\ wire' = [wire EXCEPT ![a] = Append(@, Msg("cancel"))]
    ELSE UNCHANGED wire
\* CancelTransfer at the sender: the token, the relay waiters and the entry.
CancelAtSender ==
  /\ CanFail(trS) /\ TrHappens /\ trCan' = trCan \cup {trS.tok} /\ trS' = NoTransfer
  /\ TellCancel(trToR) /\ trAcc' = 0 /\ trComp' = 0
  /\ UNCHANGED <<trReceiver, trOutcome, trAtt, trToS, trUp, trEnd, trSrc>>
CancelAtReceiver ==
  /\ CanFail(trR) /\ TrHappens /\ CancelIncoming /\ TellCancel(trToS)
  /\ trDec' = 0
  /\ IF trDec # 0 /\ trRecv[trDec].pc = "wait"
       THEN SetRecv(trDec, [trRecv[trDec] EXCEPT !.dec = "refuse"]) ELSE UNCHANGED trRecv
  /\ UNCHANGED <<trSender, trOutcome, trToR, trUp, trEnd, trTimer, trFinal, trApproved>>

-----------------------------------------------------------------------------
(* Loss of a path, and each side's teardown of the session above it        *)

AttemptPathLost(a) ==
  /\ trAtt[a].pc # "idle" /\ trUp[a] /\ TrHappens
  /\ trUp' = [trUp EXCEPT ![a] = FALSE]
  /\ trToR' = [trToR EXCEPT ![a] = <<>>] /\ trToS' = [trToS EXCEPT ![a] = <<>>]
  /\ UNCHANGED <<trSender, trReceiver, trOutcome, trEnd, trCan>>
\* cleanup_relay_state drops the waiters, then cancel_session_tasks pauses and aborts.
SenderPauses(a) ==
  /\ ~trUp[a] /\ "s" \notin trEnd[a] /\ trEnd' = [trEnd EXCEPT ![a] = @ \cup {"s"}]
  /\ trS' = Pause(trS)
  /\ IF trAtt[a].route = "relay" THEN trAcc' = 0 /\ trComp' = 0 ELSE UNCHANGED <<trAcc, trComp>>
  /\ UNCHANGED <<trReceiver, trOutcome, trAtt, trToR, trToS, trUp, trCan, trSrc, trSpent>>
SenderAborts(a) ==
  /\ "s" \in trEnd[a] /\ "sx" \notin trEnd[a] /\ trEnd' = [trEnd EXCEPT ![a] = @ \cup {"sx"}]
  /\ EndAttempt(a)
  /\ UNCHANGED <<trReceiver, trOutcome, trS, trAcc, trComp, trSrc, trToR, trToS, trUp, trCan, trSpent>>
\* cleanup_relay_state drops the open receive of the peer and pauses it.
DropActive(a) ==
  /\ trR' = Pause(trR)
  /\ trAct' = IF trAtt[a].route = "relay" THEN Inactive ELSE trAct
ReceiverPauses(a) ==
  /\ ~trUp[a] /\ "r" \notin trEnd[a] /\ trEnd' = [trEnd EXCEPT ![a] = @ \cup {"r"}]
  /\ DropActive(a)
  /\ UNCHANGED <<trSender, trOutcome, trRecv, trDec, trPend, trTimer, trPart, trFinal, trApproved, trToR, trToS, trUp, trCan, trSpent>>
\* The aborted task leaves its decision sender behind in incoming_decisions.
ReceiverAborts(a) ==
  /\ "r" \in trEnd[a] /\ "rx" \notin trEnd[a] /\ trEnd' = [trEnd EXCEPT ![a] = @ \cup {"rx"}]
  /\ IF trRecv[a].pc = "idle" THEN UNCHANGED trRecv ELSE EndRecv(a)
  /\ UNCHANGED <<trSender, trOutcome, trR, trDec, trPend, trAct, trTimer, trPart, trFinal, trApproved, trToR, trToS, trUp, trCan, trSpent>>

-----------------------------------------------------------------------------
SenderTask(a) ==
  \/ OfferOverQuic(a) \/ ReadDecision(a) \/ ChunkOverQuic(a) \/ EndOverQuic(a) \/ ReadCompletion(a)
  \/ OfferOverRelay(a) \/ ChunkOverRelay(a) \/ EndOverRelay(a)
  \/ AttemptLost(a) \/ RelayAnswer(a) \/ RelayAccepted(a) \/ RelayCompleted(a)
ReceiverTask(a) ==
  \/ ReceiveOffer(a) \/ Decided(a) \/ ReceiveChunk(a) \/ MoveIntoPlace(a) \/ FinishRecv(a)
  \/ RelayOffer(a) \/ ApprovalExpires(a) \/ RelayChunk(a) \/ RelayComplete(a) \/ RelayCancelled(a)
Teardown(a) == SenderPauses(a) \/ SenderAborts(a) \/ ReceiverPauses(a) \/ ReceiverAborts(a)

TransfersNext ==
  \/ \E a \in Attempts, route \in SelectRoutes : SendFile(a, route) \/ ResumeTransfer(a, route)
  \/ ResumeRefused \/ SourceChanges \/ CancelAtSender \/ CancelAtReceiver
  \/ \E a \in Attempts : SenderTask(a) \/ ReceiverTask(a) \/ Teardown(a) \/ AttemptPathLost(a)
  \/ \E accept \in BOOLEAN : RespondQuic(accept) \/ RespondRelay(accept)

\* The scheduler runs every task, timers fire, and a lost session is torn down.
TransfersFairness ==
  \A a \in Attempts : WF_trVars(SenderTask(a)) /\ WF_trVars(ReceiverTask(a)) /\ WF_trVars(Teardown(a))
TransfersSpec == TransfersInit /\ [][TransfersNext]_trVars /\ TransfersFairness

-----------------------------------------------------------------------------
(* Properties                                                              *)

Contents == UNION {[1..n -> {0, 1}] : n \in 0..TrChunks}
TransfersTypeOK ==
  /\ trS.st \in States \cup {"absent"} /\ trR.st \in States \cup {"absent"}
  /\ trS.off \in 0..TrChunks /\ trR.off \in 0..TrChunks
  /\ trDec \in Attempts \cup {0} /\ trPend \in Attempts \cup {0} /\ trAct.a \in Attempts \cup {0}
  /\ trAcc \in Attempts \cup {0} /\ trComp \in Attempts \cup {0} /\ trCan \subseteq Attempts
  /\ trPart.data \in Contents /\ trFinal \in Contents \cup {NoFile, Other}
  /\ trErr \subseteq {"network", "source", "protocol", "rejected", "cancelled"}

\* Something that was received has been moved to the destination.
Stored == trFinal \notin {NoFile, Other}

\* When either side reports the transfer completed, a received file is in place at the receiver: whatever
\* acknowledgement, stale answer or second attempt the report rests on, none overtakes the rename.
CompletedIsStored == (trDone.s > 0 \/ trDone.r > 0) => Stored

\* A transfer that is moving or being verified belongs to a task that will still end it: a sending attempt,
\* a receiving task, or the relay's active receive.  Nothing else would ever free its id.
MovingHasOwner ==
  /\ trS.st \in {"transferring", "verifying"} =>
       \E a \in Attempts : trAtt[a].pc \notin {"idle", "done"}
  /\ trR.st \in {"transferring", "verifying"} =>
       trAct.a # 0 \/ \E a \in Attempts : trRecv[a].pc \notin {"idle", "done"}

\* The destination only ever holds a file of somebody else or the whole offered content, although the
\* source may change and checkpoints of lost attempts are reused.  Violated with three attempts: the relay
\* hashes the stream it wrote and then moves whatever has the name X.part by now.
FinalIsWhole == Stored => trFinal = Whole

\* The confirmed offset of a paused receive is never ahead of the checkpoint it will be resumed from.
CheckpointCovers == trR.st = "paused" /\ trFinal # Whole => trR.off <= Len(trPart.data)

\* Every dispatched attempt ends: no wait of either side is without a timeout, an answer or a broken path.
AttemptsEnd == []<>(\A a \in Attempts : trAtt[a].pc \in {"idle", "done"})

\* Violated.  Bytes are accepted only for a transfer the user approved, or one whose file is already there.
ReceivedWasApproved ==
  /\ trAct.a # 0 => trApproved \/ trAct.done
  /\ \A a \in Attempts : trRecv[a].pc = "recv" => trApproved

\* Violated.  Losing a path pauses a transfer; only a business or protocol error fails it.
NetworkLossOnlyPauses == "network" \notin trErr

\* Completion is only reported of a stored file, and a transfer that moves has a task that will end it.
TransferSound == TransfersTypeOK /\ CompletedIsStored /\ MovingHasOwner

\* A transfer that is resumed at most once arrives whole or not at all, although two tasks may write
\* the same checkpoint, and while it rests the checkpoint covers what was confirmed.
ResumedOnceIsWhole ==
  Cardinality({a \in Attempts : trAtt[a].pc # "idle"}) <= 2 => FinalIsWhole /\ CheckpointCovers
=============================================================================
