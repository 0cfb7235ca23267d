------------------------------ MODULE Delivery ------------------------------
(***************************************************************************)
(* The delivery layer end to end: DeliverySend on one device, the store    *)
(* and handlers of DeliveryReceive on its peer, and between them paths     *)
(* that reorder and lose frames and acknowledgements (a QUIC stream per    *)
(* message, a replaced or lost connection, a relay).  The retries and      *)
(* replays of the sender are what repeats a message.                       *)
(***************************************************************************)
EXTENDS DeliverySend, DeliveryReceive

CONSTANTS
  MaxTasks,   \* model bound: delivery tasks at work at once
  MaxFrames   \* model bound: frames and acknowledgements under way at once

\* Both sides know the same channels, and the peer sends what DeliverySend sends.
ASSUME DeliveryAssumption ==
  /\ SendChannels = Channels
  /\ Traffic = {m \in [ch : Channels, seq : 0 .. MaxSequence, pol : SendPolicies, size : Sizes] :
                  m.pol \in PoliciesOf[m.ch]}

VARIABLES
  frames,  \* DataMessage frames under way
  acks     \* DeliveryAck frames under way

vars == <<sending, receiving, frames, acks>>

Init == SendInit /\ ReceiveInit /\ frames = {} /\ acks = {}

\* A claimed message is written to the current path.
Transmit ==
  \E c \in claims : Write(c) /\ frames' = frames \cup {c.m} /\ UNCHANGED <<receiving, acks>>
\* A receiver of the peer picks a frame up.
Deliver ==
  \E h \in Handlers, m \in frames :
    Receive(h, m) /\ frames' = frames \ {m} /\ UNCHANGED <<sending, acks>>
\* The application completes a message and its ACK leaves.
Complete ==
  \E m \in shown :
    CompleteIncoming(m) /\ acks' = acks \cup {m} /\ UNCHANGED <<sending, frames>>
\* A receiver repeats the ACK of a processed message if its record is still there.
RepeatAck ==
  \E h \in Handlers :
    /\ Reack(h)
    /\ acks' = acks \cup ({handler[h].m} \cap (Active \cup Known))
    /\ UNCHANGED <<sending, frames>>
\* handle_delivery_ack: an ACK for a message that is not pending is a no-op.
ReceiveAck ==
  \E m \in acks :
    /\ acks' = acks \ {m}
    /\ IF m \in Pending THEN Acknowledge(m) ELSE UNCHANGED sending
    /\ UNCHANGED <<receiving, frames>>
Lose ==
  /\ \/ \E m \in frames : frames' = frames \ {m} /\ UNCHANGED acks
     \/ \E m \in acks : acks' = acks \ {m} /\ UNCHANGED frames
  /\ UNCHANGED <<sending, receiving>>

\* What each side does without a frame: ReceiveLocal except the two above.
ReceiverAlone ==
  \/ \E h \in Handlers :
       \/ AcceptReady(h) \/ AcceptBuffered(h) \/ AcceptRefused(h)
       \/ RejectIncoming(h) \/ CancelHandler(h)
  \/ \E m \in shown : CompleteUnknown(m)
  \/ \E m \in Active : AbandonIncoming(m) \/ DeadlineElapses(m)
  \/ ExpireIncoming \/ DedupExpires \/ ClosePeer

\* The model bounds.
Small ==
  /\ Cardinality(jobs') + Cardinality(claims') <= MaxTasks
  /\ Cardinality(frames') + Cardinality(acks') <= MaxFrames

Step ==
  \/ SendLocal /\ UNCHANGED <<receiving, frames, acks>>
  \/ ReceiverAlone /\ UNCHANGED <<sending, frames, acks>>
  \/ Transmit \/ Deliver \/ Complete \/ RepeatAck \/ ReceiveAck \/ Lose

Next == Step /\ Small
Spec == Init /\ [][Next]_vars

-----------------------------------------------------------------------------
(* Properties                                                              *)

\* A sender that reports a message as acknowledged is right: the application on
\* the other side completed it, over every loss, retry, replay and dedup eviction.
AcknowledgedWasCompleted ==
  \A m \in DOMAIN outcomes : outcomes[m] = "Acknowledged" => m \in completed

\* The channel as the receiving application sees it.
OrderedOf(T, ch) == {m.seq : m \in {x \in T : x.ch = ch /\ Ordered(x)}}
AppView == INSTANCE OrderedChannel WITH
  sent <- nextSequence,
  finished <- [ch \in Channels |-> OrderedOf(completed, ch)],
  open <- [ch \in Channels |-> OrderedOf(shown, ch)]

\* The stores, handlers and retries of both sides implement an ordered channel:
\* shown one at a time, in order, without gaps, never again once finished.
ImplementsOrderedChannel == AppView!Spec
=============================================================================
