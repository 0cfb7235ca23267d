----------------------------- MODULE EventLanes -----------------------------
(***************************************************************************)
(* The three bounded event lanes between the runtime and the poller        *)
(* (runtime_event_lanes.rs, emit_command_result of events/command.rs).     *)
(*                                                                         *)
(* An event is its lane, its encoded size and a number that tells events   *)
(* apart.  Producers are threads: a reservation of queue bytes, the push   *)
(* into the channel and the release after a refused push are steps of      *)
(* their own, because the byte counter is an atomic and not a lock.        *)
(* Senders are never dropped here, so the closed flags stay FALSE; the     *)
(* receiver may go, which is all a sender can observe of the other side.   *)
(***************************************************************************)
EXTENDS Naturals, Sequences, FiniteSets

CONSTANTS
  LaneProducers,    \* threads that send lifecycle and data events
  LaneCapacity,     \* lane -> *_EVENT_MAILBOX_CAPACITY
  LaneByteLimit,    \* lane -> MAX_*_EVENT_QUEUE_BYTES
  LaneBurst,        \* lane -> *_EVENT_BURST
  LaneMaxEventBytes,\* MAX_EVENT_BYTES
  LaneMaxEvents     \* model bound: events made

Lanes == {"result", "control", "data"}

ASSUME LaneAssumption ==
  /\ LaneCapacity \in [Lanes -> Nat \ {0}] /\ LaneByteLimit \in [Lanes -> Nat]
  /\ LaneBurst \in [Lanes -> Nat \ {0}]
  /\ LaneMaxEventBytes \in Nat \ {0} /\ LaneMaxEvents \in Nat
  /\ LaneMaxEventBytes <= LaneByteLimit["result"]
  /\ IsFiniteSet(LaneProducers)

VARIABLES
  laneQueue,     \* lane -> the channel's contents
  laneBytes,     \* lane -> *_queued_bytes
  laneSender,    \* producer -> [at, event]
  laneWorker,    \* the command worker inside emit_command_result
  laneSchedule,  \* scheduled_lane and scheduled_burst
  laneAsleep,    \* the poller sleeps in recv
  laneOpen,      \* the receiver exists
  laneMade,      \* number of events made
  laneResults,   \* history: results handed to send_result, in order
  laneReceived,  \* history: results received, in order
  laneOvertaken  \* history: lane -> events received from others while it waited

laneVars == <<laneQueue, laneBytes, laneSender, laneWorker, laneSchedule, laneAsleep,
              laneOpen, laneMade, laneResults, laneReceived, laneOvertaken>>

LaneSizes == 1 .. LaneMaxEventBytes + 1
Event(lane, bytes, n) == [lane |-> lane, bytes |-> bytes, n |-> n]
NoEvent == Event("control", 0, 0)
At(stage, e) == [at |-> stage, event |-> e]
LaneIdle == At("idle", NoEvent)

LaneInit ==
  /\ laneQueue = [l \in Lanes |-> <<>>] /\ laneBytes = [l \in Lanes |-> 0]
  /\ laneSender = [p \in LaneProducers |-> LaneIdle] /\ laneWorker = LaneIdle
  /\ laneSchedule = [lane |-> "result", burst |-> 0] /\ laneOpen = TRUE /\ laneAsleep = FALSE
  /\ laneMade = 0 /\ laneResults = <<>> /\ laneReceived = <<>>
  /\ laneOvertaken = [l \in Lanes |-> 0]

-----------------------------------------------------------------------------
(* Sending                                                                 *)

\* Mutant: the limit is off by one.
UnguardedReserve(lane, bytes) == laneBytes[lane] + bytes <= LaneByteLimit[lane] + 1
CanReserve(lane, bytes) == laneBytes[lane] + bytes <= LaneByteLimit[lane]

\* EventSender::send up to the reservation: too large events and results are refused.
SendReserve(p, lane, bytes) ==
  /\ laneSender[p].at = "idle" /\ laneMade < LaneMaxEvents
  /\ lane # "result" /\ bytes <= LaneMaxEventBytes
  /\ CanReserve(lane, bytes)
  /\ laneMade' = laneMade + 1
  /\ laneBytes' = [laneBytes EXCEPT ![lane] = @ + bytes]
  /\ laneSender' = [laneSender EXCEPT ![p] = At("reserved", Event(lane, bytes, 0))]
  /\ UNCHANGED <<laneQueue, laneWorker, laneSchedule, laneOpen, laneResults,
                 laneReceived, laneOvertaken>>

\* Mutant: the bytes of a reservation are not given back.
KeepBytes(lane, bytes) == UNCHANGED laneBytes
\* The reservation is dropped, and with it the bytes, when the push is refused.
ReleaseBytes(lane, bytes) == laneBytes' = [laneBytes EXCEPT ![lane] = @ - bytes]

\* try_send and commit, or try_send and the drop of the reservation.
SendPush(p) ==
  LET e == laneSender[p].event IN
  /\ laneSender[p].at = "reserved"
  /\ laneSender' = [laneSender EXCEPT ![p] = LaneIdle]
  /\ IF laneOpen /\ Len(laneQueue[e.lane]) < LaneCapacity[e.lane]
       THEN /\ laneQueue' = [laneQueue EXCEPT ![e.lane] = Append(@, e)]
            /\ UNCHANGED laneBytes
       ELSE /\ ReleaseBytes(e.lane, e.bytes) /\ UNCHANGED laneQueue
  /\ UNCHANGED <<laneWorker, laneSchedule, laneOpen, laneMade, laneResults,
                 laneReceived, laneOvertaken>>

\* emit_command_result: a result that is too large becomes a small failed one.
EmitResult(bytes) ==
  LET e == Event("result", IF bytes > LaneMaxEventBytes THEN 1 ELSE bytes, laneMade + 1) IN
  /\ laneWorker.at = "idle" /\ laneMade < LaneMaxEvents
  /\ laneMade' = laneMade + 1
  /\ laneWorker' = At("waiting", e)
  /\ laneResults' = Append(laneResults, e.n)
  /\ UNCHANGED <<laneQueue, laneBytes, laneSender, laneSchedule, laneOpen,
                 laneReceived, laneOvertaken>>

\* send_result: `released` is armed before the test, so a release is never missed.
ResultReserve ==
  LET e == laneWorker.event IN
  /\ laneWorker.at = "waiting" /\ CanReserve("result", e.bytes)
  /\ laneBytes' = [laneBytes EXCEPT !["result"] = @ + e.bytes]
  /\ laneWorker' = At("reserved", e)
  /\ UNCHANGED <<laneQueue, laneSender, laneSchedule, laneOpen, laneMade,
                 laneResults, laneReceived, laneOvertaken>>

\* Mutant: a push that does not wait for a slot loses the result.
HastyResultPush ==
  LET e == laneWorker.event IN
  /\ laneWorker.at = "reserved"
  /\ laneQueue' = [laneQueue EXCEPT !["result"] =
                     IF Len(@) < LaneCapacity["result"] THEN Append(@, e) ELSE @]
  /\ laneWorker' = LaneIdle
  /\ UNCHANGED <<laneBytes, laneSender, laneSchedule, laneOpen, laneMade,
                 laneResults, laneReceived, laneOvertaken>>
\* The awaited channel send: it waits for a slot.
ResultPush ==
  LET e == laneWorker.event IN
  /\ laneWorker.at = "reserved" /\ laneOpen
  /\ Len(laneQueue["result"]) < LaneCapacity["result"]
  /\ laneQueue' = [laneQueue EXCEPT !["result"] = Append(@, e)]
  /\ laneWorker' = LaneIdle
  /\ UNCHANGED <<laneBytes, laneSender, laneSchedule, laneOpen, laneMade,
                 laneResults, laneReceived, laneOvertaken>>

\* Both waits end with Closed when the receiver is gone; the worker then stops.
ResultClosed ==
  LET e == laneWorker.event IN
  /\ laneWorker.at \in {"waiting", "reserved"} /\ ~laneOpen
  /\ IF laneWorker.at = "reserved" THEN ReleaseBytes("result", e.bytes) ELSE UNCHANGED laneBytes
  /\ laneWorker' = At("stopped", NoEvent)
  /\ UNCHANGED <<laneQueue, laneSender, laneSchedule, laneOpen, laneMade,
                 laneResults, laneReceived, laneOvertaken>>

-----------------------------------------------------------------------------
(* Receiving                                                               *)

NextLane(lane) == [result |-> "control", control |-> "data", data |-> "result"][lane]
Advance(s) == [lane |-> NextLane(s.lane), burst |-> 0]

\* Mutant: the burst of a lane is not bounded.
GreedyLook(s) == s
\* try_recv looks at the scheduled lane, or the next one once its burst is used,
\* and then at the two after it.
FirstLook(s) == IF s.burst >= LaneBurst[s.lane] THEN Advance(s) ELSE s
Scheduled(s) ==
  LET one == FirstLook(s)  two == Advance(one)  three == Advance(two)
      Ready(x) == laneQueue[x.lane] # <<>>
  IN  CASE Ready(one) -> one [] ~Ready(one) /\ Ready(two) -> two [] OTHER -> three

\* `received` and `release`.
Received(s) ==
  LET e == Head(laneQueue[s.lane]) IN
  /\ laneQueue' = [laneQueue EXCEPT ![s.lane] = Tail(@)]
  /\ ReleaseBytes(s.lane, e.bytes)
  /\ laneSchedule' = [s EXCEPT !.burst = @ + 1]
  /\ laneReceived' = IF s.lane = "result" THEN Append(laneReceived, e.n) ELSE laneReceived
  /\ laneOvertaken' = [l \in Lanes |->
       IF l = s.lane \/ laneQueue[l] = <<>> THEN 0 ELSE laneOvertaken[l] + 1]
  /\ UNCHANGED <<laneSender, laneWorker, laneOpen, laneMade, laneResults>>

TryRecv ==
  /\ laneOpen /\ ~laneAsleep /\ \E l \in Lanes : laneQueue[l] # <<>>
  /\ Received(Scheduled(laneSchedule)) /\ UNCHANGED laneAsleep

\* recv finds every lane empty, which turns the schedule once round, and sleeps.
RecvSleep ==
  /\ laneOpen /\ ~laneAsleep /\ \A l \in Lanes : laneQueue[l] = <<>>
  /\ laneSchedule' = [FirstLook(laneSchedule) EXCEPT !.burst = 0]
  /\ laneAsleep' = TRUE
  /\ UNCHANGED <<laneQueue, laneBytes, laneSender, laneWorker, laneOpen, laneMade,
                 laneResults, laneReceived, laneOvertaken>>

\* The select of recv: it wakes through any lane that has something.
RecvWoken(lane) ==
  /\ laneOpen /\ laneAsleep /\ laneQueue[lane] # <<>>
  /\ Received([lane |-> lane, burst |-> 0]) /\ laneAsleep' = FALSE

\* The timeout of poll_event.
RecvTimeout ==
  /\ laneOpen /\ laneAsleep /\ laneAsleep' = FALSE
  /\ UNCHANGED <<laneQueue, laneBytes, laneSender, laneWorker, laneSchedule, laneOpen,
                 laneMade, laneResults, laneReceived, laneOvertaken>>

\* The runtime object is dropped.
ReceiverDropped ==
  /\ laneOpen /\ laneOpen' = FALSE
  /\ UNCHANGED <<laneQueue, laneBytes, laneSender, laneWorker, laneSchedule, laneAsleep,
                 laneMade, laneResults, laneReceived, laneOvertaken>>

LaneSend ==
  /\ \/ \E p \in LaneProducers, l \in Lanes, b \in LaneSizes : SendReserve(p, l, b)
     \/ \E p \in LaneProducers : SendPush(p)
     \/ \E b \in LaneSizes : EmitResult(b)
     \/ ResultReserve \/ ResultPush \/ ResultClosed
  /\ UNCHANGED laneAsleep
LaneReceive == TryRecv \/ \E l \in Lanes : RecvWoken(l)
LaneNext == LaneSend \/ LaneReceive \/ RecvSleep \/ RecvTimeout \/ ReceiverDropped

\* The command worker runs, and the application keeps polling.
LaneFairness ==
  /\ WF_laneVars(UNCHANGED laneAsleep /\ (ResultReserve \/ ResultPush))
  /\ WF_laneVars(LaneReceive)
LaneSpec == LaneInit /\ [][LaneNext]_laneVars /\ LaneFairness

-----------------------------------------------------------------------------
(* Properties                                                              *)

\* The sum of f, whose values are sizes: its units, counted one by one.
TotalBytes(f) == Cardinality({u \in (DOMAIN f) \X (1 .. LaneMaxEventBytes) : u[2] <= f[u[1]]})
BytesIn(lane) ==
  LET q == laneQueue[lane] IN TotalBytes([i \in DOMAIN q |-> q[i].bytes])
Reserving(lane) ==
  LET holders == {p \in LaneProducers : laneSender[p].at = "reserved" /\ laneSender[p].event.lane = lane}
  IN TotalBytes([p \in holders |-> laneSender[p].event.bytes])
     + (IF lane = "result" /\ laneWorker.at = "reserved" THEN laneWorker.event.bytes ELSE 0)

LaneTypeOK ==
  /\ laneBytes \in [Lanes -> Nat]
  /\ \A l \in Lanes : Len(laneQueue[l]) <= LaneCapacity[l]
  /\ laneSchedule.lane \in Lanes /\ laneSchedule.burst <= LaneBurst[laneSchedule.lane]
  /\ laneWorker.at \in {"idle", "waiting", "reserved", "stopped"}
  /\ laneOpen \in BOOLEAN /\ laneAsleep \in BOOLEAN

\* The byte counter of a lane is the bytes queued in it and the bytes producers
\* hold reserved, whatever the interleaving of reservations, refused pushes and
\* receives, and it never passes the lane's limit (QueuedByteReservation).
LaneBytesExact ==
  \A l \in Lanes : laneBytes[l] = BytesIn(l) + Reserving(l) /\ laneBytes[l] <= LaneByteLimit[l]

\* Terminal command results are not dropped and not reordered: what was received,
\* what is queued and what the worker holds is what was emitted (send_result).
ResultsKept ==
  laneWorker.at # "stopped" =>
    laneResults = laneReceived \o [i \in DOMAIN laneQueue["result"] |-> laneQueue["result"][i].n]
                  \o (IF laneWorker.at = "idle" THEN <<>> ELSE <<laneWorker.event.n>>)

\* A lane with something in it is overtaken by at most one burst of each other
\* lane (the schedule of try_recv and recv).
OvertakingBounded ==
  \A l \in Lanes : laneOvertaken[l] <= LaneBurst[NextLane(l)] + LaneBurst[NextLane(NextLane(l))]

\* A result handed to the lane is received if the application keeps polling, even
\* when the lane is full and while control and data events keep coming.
ResultsArrive == []<>(laneReceived = laneResults \/ ~laneOpen)

\* The lanes lose no result, count their bytes exactly and starve no lane.
LanesConsistent == LaneTypeOK /\ LaneBytesExact /\ ResultsKept /\ OvertakingBounded
=============================================================================
