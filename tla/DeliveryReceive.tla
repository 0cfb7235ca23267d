--------------------------- MODULE DeliveryReceive ---------------------------
(***************************************************************************)
(* The receiving half of the delivery layer for one peer: the dedup and    *)
(* ordering state of delivery/incoming.rs, ordered.rs and close_peer, and  *)
(* the handlers of channel/inbound.rs that drive it.                       *)
(*                                                                         *)
(* A DeliveryManager method is one step under the store lock.              *)
(* handle_data_message makes up to three of them; between two of them the  *)
(* handler is a record of `handler`, other handlers and the application    *)
(* run, the peer may be closed, and a handler that belongs to a session    *)
(* may be cancelled at the await.  The event of a message is emitted in    *)
(* the step that admits it: no await separates the two.                    *)
(*                                                                         *)
(* Abstractions.  A message is <channel, sequence, policy, size> as in     *)
(* DeliverySend; a sender gives a sequence of a channel to one message.    *)
(* ack_deadline is "none", "armed" or "reached".  The processed history is *)
(* a sequence in order of last_seen_at, which is the order in which its    *)
(* records expire, so the clock removes its head; every reader prunes      *)
(* expired records before it looks.  A missing OrderedChannelState is the  *)
(* default one the code creates on first use.                              *)
(***************************************************************************)
EXTENDS Naturals, Sequences, FiniteSets, SequencesExt

CONSTANTS
  Channels,
  Traffic,            \* the messages the peer may send
  Handlers,           \* concurrently running receivers
  MaxActive,          \* MAX_ACTIVE_INCOMING_RECORDS
  DedupMax,           \* DeliveryConfig::dedup_max_entries
  MaxReorderMessages, MaxReorderBytes, MaxSequenceGap,
  MayExpire,          \* TRUE: the application may miss its ACK deadline
  MayCancelHandlers,  \* TRUE: a session's handlers may be cancelled
  MayAbandon,         \* TRUE: abandon_incoming is called
  MayClose            \* TRUE: the peer may be disconnected explicitly

NoMessage == [ch |-> "none", seq |-> 0, pol |-> "none", size |-> 0]

ASSUME ReceiveAssumption ==
  /\ \A m \in Traffic : /\ m.ch \in Channels /\ m.seq \in Nat /\ m.size \in Nat
                        /\ DOMAIN m = DOMAIN NoMessage
  /\ NoMessage \notin Traffic
  /\ {MaxActive, DedupMax, MaxReorderMessages, MaxReorderBytes, MaxSequenceGap} \subseteq Nat
  /\ {MayExpire, MayCancelHandlers, MayAbandon, MayClose} \subseteq BOOLEAN

Ordered(m) == m.pol = "SessionBoundOrdered"

VARIABLES
  active,     \* incoming_active
  processed,  \* processed_dedup, least recently seen first
  ordered,    \* OrderedChannelState of every channel
  failed,     \* failed_ordered
  handler,    \* what each receiver is in the middle of
  shown,      \* events the application has not acknowledged yet
  completed,  \* history: messages the application completed
  acked       \* history: messages a DeliveryAck was sent for

incoming  == <<active, processed, ordered, failed>>
receiving == <<incoming, handler, shown, completed, acked>>

-----------------------------------------------------------------------------
Idle    == [stage |-> "idle", m |-> NoMessage]
Fresh   == [state |-> "InFlight", deadline |-> "armed"]
\* Mutant: a buffered message keeps its deadline.
HeldArmed == [state |-> "OrderedBuffered", deadline |-> "armed"]
Held    == [state |-> "OrderedBuffered", deadline |-> "none"]
Default == [expected |-> 0, inFlight |-> NoMessage, buffer |-> {}]
Active  == DOMAIN active
Known   == ToSet(processed)

Put(f, m, v) == [x \in DOMAIN f \cup {m} |-> IF x = m THEN v ELSE f[x]]
Drop(f, S)   == [x \in DOMAIN f \ S |-> f[x]]
BufferBytes(ch) == Cardinality(UNION {{m} \X (1 .. m.size) : m \in ordered[ch].buffer})
\* The record of m becomes the most recently seen one.
Seen(m) ==
  Append(RemoveAt(processed, CHOOSE i \in 1 .. Len(processed) : processed[i] = m), m)
\* remember_processed: the least recently seen records make room.
Remember(m) ==
  IF DedupMax = 0 THEN processed
  ELSE Append(IF Len(processed) < DedupMax THEN processed
              ELSE SubSeq(processed, Len(processed) - DedupMax + 2, Len(processed)), m)

\* fail_ordered_channel for the channels F.
FailActive(act, F) == Drop(act, {m \in DOMAIN act : m.ch \in F})
FailOrdered(F)     == [ch \in Channels |-> IF ch \in F THEN Default ELSE ordered[ch]]

\* expire_incoming_locked: a late ordered message fails its whole channel, any
\* other late message only loses its record.
Late       == {m \in Active : active[m] = [state |-> "InFlight", deadline |-> "reached"]}
LateFails  == {m.ch : m \in {x \in Late : ordered[x.ch].inFlight = x}}
\* Mutant: only the channels that fail are cleaned up.
ActiveNowFailed == FailActive(active, LateFails)
ActiveNow  == FailActive(Drop(active, Late), LateFails)
OrderedNow == FailOrdered(LateFails)
FailedNow  == failed \cup LateFails

ReceiveInit ==
  /\ active = << >> /\ processed = << >>
  /\ ordered = [ch \in Channels |-> Default] /\ failed = {}
  /\ handler = [h \in Handlers |-> Idle]
  /\ shown = {} /\ completed = {} /\ acked = {}

-----------------------------------------------------------------------------
(* handle_data_message                                                     *)

Wait(h, stage, m) == handler' = [handler EXCEPT ![h] = [stage |-> stage, m |-> m]]
Done(h) == handler' = [handler EXCEPT ![h] = Idle]

\* BestEffort messages bypass the store.
ReceiveBestEffort(h, m) ==
  /\ m.pol = "BestEffort" /\ shown' = shown \cup {m}
  /\ UNCHANGED <<incoming, handler, completed, acked>>

\* begin_incoming returning ChannelFailed, DuplicateInFlight or CapacityExceeded.
BeginDropped(h, m) ==
  /\ m.pol # "BestEffort"
  /\ \/ m.ch \in FailedNow
     \/ m \in DOMAIN ActiveNow
     \/ m \notin Known /\ Cardinality(DOMAIN ActiveNow) >= MaxActive
  /\ active' = ActiveNow /\ ordered' = OrderedNow /\ failed' = FailedNow
  /\ UNCHANGED <<processed, handler, shown, completed, acked>>

\* Mutant: a duplicate is acknowledged although the application is still busy.
BeginProcessedEager(h, m) ==
  /\ m.ch \notin FailedNow /\ m \in Active \cup Known
  /\ Wait(h, "reack", m)
  /\ UNCHANGED <<incoming, shown, completed, acked>>
\* DuplicateProcessed: the record is refreshed and the ACK is to be repeated.
BeginProcessed(h, m) ==
  /\ m.ch \notin FailedNow /\ m \notin DOMAIN ActiveNow /\ m \in Known
  /\ active' = ActiveNow /\ ordered' = OrderedNow /\ failed' = FailedNow
  /\ processed' = Seen(m)
  /\ Wait(h, "reack", m)
  /\ UNCHANGED <<shown, completed, acked>>

\* New: an ordered message still has to pass accept_ordered, any other is shown.
BeginNew(h, m) ==
  /\ m.pol # "BestEffort"
  /\ m.ch \notin FailedNow /\ m \notin DOMAIN ActiveNow /\ m \notin Known
  /\ Cardinality(DOMAIN ActiveNow) < MaxActive
  /\ active' = Put(ActiveNow, m, Fresh) /\ ordered' = OrderedNow /\ failed' = FailedNow
  /\ IF Ordered(m) THEN Wait(h, "registered", m) /\ UNCHANGED shown
                   ELSE shown' = shown \cup {m} /\ UNCHANGED handler
  /\ UNCHANGED <<processed, completed, acked>>

Receive(h, m) ==
  /\ handler[h] = Idle
  /\ \/ ReceiveBestEffort(h, m) \/ BeginDropped(h, m)
     \/ BeginProcessed(h, m) \/ BeginNew(h, m)

\* Mutants: a sequence below the anchor is admitted; the gap is not limited.
InsertReadyOld(m) ==
  m.seq <= ordered[m.ch].expected /\ ordered[m.ch].inFlight = NoMessage
InsertBuffersAny(m) ==
  m.seq > ordered[m.ch].expected /\ \A x \in ordered[m.ch].buffer : x.seq # m.seq
\* OrderedChannelState::insert, as far as it admits a message.
InsertReady(m) ==
  m.seq = ordered[m.ch].expected /\ ordered[m.ch].inFlight = NoMessage
InsertBuffers(m) ==
  LET o == ordered[m.ch] IN
  /\ m.seq > o.expected /\ m.seq - o.expected <= MaxSequenceGap
  /\ Cardinality(o.buffer) < MaxReorderMessages
  /\ BufferBytes(m.ch) + m.size <= MaxReorderBytes
  /\ \A x \in o.buffer : x.seq # m.seq
Insertable(m) == m.ch \notin failed /\ m \in Active

AcceptReady(h) ==
  LET m == handler[h].m IN
  /\ handler[h].stage = "registered" /\ Insertable(m) /\ InsertReady(m)
  /\ ordered' = [ordered EXCEPT ![m.ch].inFlight = m]
  /\ active' = Put(active, m, Fresh)
  /\ shown' = shown \cup {m}
  /\ Done(h)
  /\ UNCHANGED <<processed, failed, completed, acked>>

AcceptBuffered(h) ==
  LET m == handler[h].m IN
  /\ handler[h].stage = "registered" /\ Insertable(m) /\ InsertBuffers(m)
  /\ ordered' = [ordered EXCEPT ![m.ch].buffer = @ \cup {m}]
  /\ active' = Put(active, m, Held)
  /\ Done(h)
  /\ UNCHANGED <<processed, failed, shown, completed, acked>>

\* Mutant: a duplicate falls through to the event instead of returning.
AcceptRefusedShows(h) ==
  LET m == handler[h].m IN
  /\ handler[h].stage = "registered"
  /\ Insertable(m) => ~InsertReady(m) /\ ~InsertBuffers(m)
  /\ IF m.seq < ordered[m.ch].expected THEN shown' = shown \cup {m} /\ Done(h)
                                       ELSE UNCHANGED shown /\ Wait(h, "rejecting", m)
  /\ UNCHANGED <<incoming, completed, acked>>
\* Duplicate and Rejected: the record is removed by a second call.
AcceptRefused(h) ==
  LET m == handler[h].m IN
  /\ handler[h].stage = "registered"
  /\ Insertable(m) => ~InsertReady(m) /\ ~InsertBuffers(m)
  /\ Wait(h, "rejecting", m)
  /\ UNCHANGED <<incoming, shown, completed, acked>>

RejectIncoming(h) ==
  /\ handler[h].stage = "rejecting"
  /\ active' = Drop(active, {handler[h].m})
  /\ Done(h)
  /\ UNCHANGED <<processed, ordered, failed, shown, completed, acked>>

\* incoming_recovery_epoch and the repeated ACK; the record may be gone by now.
Reack(h) ==
  LET m == handler[h].m IN
  /\ handler[h].stage = "reack"
  /\ acked' = IF m \in Active \cup Known THEN acked \cup {m} ELSE acked
  /\ Done(h)
  /\ UNCHANGED <<incoming, shown, completed>>

\* The session that owns the receiver is retired while it awaits the lock.
CancelHandler(h) ==
  /\ MayCancelHandlers /\ handler[h] # Idle /\ Done(h)
  /\ UNCHANGED <<incoming, shown, completed, acked>>

-----------------------------------------------------------------------------
(* The application, the clock and explicit disconnect                      *)

\* The message the ordered gate releases once m is acknowledged.
Released(m) ==
  {x \in ordered[m.ch].buffer : ordered[m.ch].inFlight = m /\ x.seq = ordered[m.ch].expected + 1}
\* complete_incoming's early returns: another message holds the gate, or this one
\* waits behind it.
MayComplete(m) ==
  /\ m \in Active
  /\ \/ ordered[m.ch].inFlight = m
     \/ ordered[m.ch].inFlight = NoMessage /\ active[m].state = "InFlight"
  /\ \A x \in Released(m) : x \in Active /\ active[x].state = "OrderedBuffered"

\* Mutant: the anchor only moves when a buffered message takes the gate.
AdvanceWithNext(o, R) ==
  [expected |-> o.expected + Cardinality(R),
   inFlight |-> IF R = {} THEN NoMessage ELSE CHOOSE x \in R : TRUE,
   buffer |-> o.buffer \ R]
\* OrderedChannelState::acknowledge
Advance(o, R) ==
  [expected |-> o.expected + 1,
   inFlight |-> IF R = {} THEN NoMessage ELSE CHOOSE x \in R : TRUE,
   buffer |-> o.buffer \ R]

\* acknowledge_message: complete_incoming, the released message's event, the ACK.
CompleteIncoming(m) ==
  /\ m \in shown /\ MayComplete(m)
  /\ active' = [x \in Active \ {m} |-> IF x \in Released(m) THEN Fresh ELSE active[x]]
  /\ ordered' = IF ordered[m.ch].inFlight # m THEN ordered
                ELSE [ordered EXCEPT ![m.ch] = Advance(@, Released(m))]
  /\ processed' = Remember(m)
  /\ shown' = (shown \ {m}) \cup Released(m)
  /\ completed' = completed \cup {m}
  /\ acked' = acked \cup {m}
  /\ UNCHANGED <<failed, handler>>

\* The application acknowledges an event whose record is gone: InvalidArgument.
CompleteUnknown(m) ==
  /\ m \in shown /\ m \notin Active
  /\ shown' = shown \ {m}
  /\ UNCHANGED <<incoming, handler, completed, acked>>

AbandonIncoming(m) ==
  /\ MayAbandon /\ m \in Active \cap shown
  /\ IF ordered[m.ch].inFlight = m \/ m \in ordered[m.ch].buffer
     THEN /\ active' = FailActive(active, {m.ch})
          /\ ordered' = FailOrdered({m.ch}) /\ failed' = failed \cup {m.ch}
     ELSE active' = Drop(active, {m}) /\ UNCHANGED <<ordered, failed>>
  /\ UNCHANGED <<processed, handler, shown, completed, acked>>

\* application_ack_timeout passes; a receiver between two calls is not that slow.
DeadlineElapses(m) ==
  /\ MayExpire /\ m \in Active /\ active[m].deadline = "armed"
  /\ \A h \in Handlers : handler[h].m # m
  /\ active' = [active EXCEPT ![m].deadline = "reached"]
  /\ UNCHANGED <<processed, ordered, failed, handler, shown, completed, acked>>

\* expire_incoming, called by the peer's retry worker.
ExpireIncoming ==
  /\ Late # {}
  /\ active' = ActiveNow /\ ordered' = OrderedNow /\ failed' = FailedNow
  /\ UNCHANGED <<processed, handler, shown, completed, acked>>

\* dedup_ttl of the oldest record; a record just refreshed outlives its handler.
DedupExpires ==
  /\ processed # << >>
  /\ \A h \in Handlers : handler[h].stage = "reack" => handler[h].m # Head(processed)
  /\ processed' = Tail(processed)
  /\ UNCHANGED <<active, ordered, failed, handler, shown, completed, acked>>

\* close_peer: the anchors of healthy channels survive.
ClosePeer ==
  /\ MayClose
  /\ active' = << >> /\ processed' = << >> /\ failed' = {}
  /\ ordered' = [ch \in Channels |-> [Default EXCEPT !.expected = ordered[ch].expected]]
  /\ UNCHANGED <<handler, shown, completed, acked>>

HandlerStep(h) ==
  \/ AcceptReady(h) \/ AcceptBuffered(h) \/ AcceptRefused(h)
  \/ RejectIncoming(h) \/ Reack(h)
ReceiveLocal ==
  \/ \E h \in Handlers : HandlerStep(h) \/ CancelHandler(h)
  \/ \E m \in shown : CompleteIncoming(m) \/ CompleteUnknown(m)
  \/ \E m \in Active : AbandonIncoming(m) \/ DeadlineElapses(m)
  \/ ExpireIncoming \/ DedupExpires

\* The component on its own: the peer sends and repeats what it likes.
ReceiveConnected == ReceiveLocal \/ \E h \in Handlers, m \in Traffic : Receive(h, m)
ReceiveNext == ReceiveConnected \/ ClosePeer
ReceiveSpec == ReceiveInit /\ [][ReceiveNext]_receiving

\* The peer repeats its messages and the clock moves.  Sessions end and deadlines
\* pass, but not every time: a receiver gets through its steps, and the application
\* acknowledges in time, if they are tried again and again.
ReceiveFairness ==
  /\ \A m \in Traffic : SF_receiving(\E h \in Handlers : Receive(h, m))
  /\ \A m \in Traffic : SF_receiving(\E h \in Handlers : handler[h].m = m /\ HandlerStep(h))
  /\ \A m \in Traffic : SF_receiving(CompleteIncoming(m))
  /\ \A m \in Traffic : WF_receiving(m \in Active /\ DeadlineElapses(m))
  /\ WF_receiving(ExpireIncoming)
\* Until somebody disconnects the peer explicitly.
ConnectedSpec == ReceiveInit /\ [][ReceiveConnected]_receiving
ReceiveFairSpec == ConnectedSpec /\ ReceiveFairness

-----------------------------------------------------------------------------
(* Properties                                                              *)

\* The receive store, the handlers and the application's events keep their types.
ReceiveTypeOK ==
  /\ Active \subseteq Traffic
  /\ active \in [Active -> [state : {"InFlight", "OrderedBuffered"},
                            deadline : {"none", "armed", "reached"}]]
  /\ processed \in Seq(Traffic) /\ Len(processed) <= DedupMax
  /\ ordered \in [Channels -> [expected : Nat, inFlight : Traffic \cup {NoMessage},
                               buffer : SUBSET Traffic]]
  /\ failed \subseteq Channels
  /\ handler \in [Handlers -> [stage : {"idle", "registered", "rejecting", "reack"},
                               m : Traffic \cup {NoMessage}]]
  /\ shown \subseteq Traffic /\ completed \subseteq Traffic /\ acked \subseteq Traffic

\* assert_delivery_invariants: a record is active or processed, never both; a
\* buffered record has no deadline and sits in the buffer of its channel; the gate
\* and the buffer only hold messages with an active record of the right state.
StoreConsistent ==
  /\ Active \cap Known = {}
  /\ \A m \in Active :
       (active[m].state = "InFlight") = (active[m].deadline # "none")
  /\ \A m \in Active : active[m].state = "OrderedBuffered" => m \in ordered[m.ch].buffer
  /\ \A ch \in Channels :
       /\ ordered[ch].inFlight # NoMessage =>
            /\ ordered[ch].inFlight \in Active
            /\ active[ordered[ch].inFlight].state = "InFlight"
       /\ \A m \in ordered[ch].buffer : m \in Active /\ active[m].state = "OrderedBuffered"

\* The gate of an ordered channel holds the expected message, and everything that
\* waits behind it is later and within the reorder limits.
GateInOrder ==
  \A ch \in Channels : LET o == ordered[ch] IN
    /\ o.inFlight # NoMessage => o.inFlight.ch = ch /\ o.inFlight.seq = o.expected
    /\ \A m \in o.buffer : /\ m.ch = ch /\ m.seq > o.expected
                           /\ m.seq - o.expected <= MaxSequenceGap
    /\ Cardinality(o.buffer) <= MaxReorderMessages /\ BufferBytes(ch) <= MaxReorderBytes

\* An ordered message the application completed is behind the anchor of its
\* channel, so the channel can go on after it, unless the channel failed.
CompletedIsBehind ==
  \A m \in completed : Ordered(m) /\ m.ch \notin failed => m.seq < ordered[m.ch].expected

\* An ordered message is not handed to the application again once it was
\* completed, whatever the dedup history forgot.
CompletedNotShownAgain ==
  [][\A m \in completed : Ordered(m) /\ m \in shown' => m \in shown]_receiving

\* A DeliveryAck is only sent for a message the application completed.
AckedWasCompleted == acked \subseteq completed

\* An in-flight record, which swallows every retransmission, belongs to a receiver
\* that is still running or to an event the application has been given.
InFlightIsOwned ==
  \A m \in Active : active[m].state = "InFlight" =>
    m \in shown \/ \E h \in Handlers : handler[h].m = m

\* A message the peer keeps repeating is completed in the end, unless its ordered
\* channel fails: no record, gate or buffer entry that timeouts, abandoned messages
\* and cancelled receivers leave behind keeps it out for ever.
RepeatedIsCompleted ==
  \A m \in Traffic : m.pol # "BestEffort" => <>(m \in completed \/ m.ch \in failed)

\* Violated.  A failed channel that an explicit disconnect revives resumes behind what the
\* application completed: the receiver does not count from 0 again.
AnchorSurvivesClose ==
  [][\A ch \in failed \ failed' : \A m \in completed :
       Ordered(m) /\ m.ch = ch => m.seq < ordered'[ch].expected]_receiving

\* Under every order of arrivals, expiries, completions, cancelled receivers and
\* disconnects the gate of a channel holds its next message and what waits behind it
\* is later and bounded, and nothing is acknowledged that was not completed.
GateConsistent == ReceiveTypeOK /\ GateInOrder /\ AckedWasCompleted

\* What assert_delivery_invariants asks of the store holds between any two steps, and
\* the anchor of a channel is past all the application completed.
StoreAnchored == StoreConsistent /\ CompletedIsBehind

\* A message the peer repeats is completed in the end, and a completed ordered one is
\* not shown to the application a second time.
CompletedOnce == CompletedNotShownAgain /\ RepeatedIsCompleted
=============================================================================
