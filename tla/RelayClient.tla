----------------------------- MODULE RelayClient -----------------------------
(***************************************************************************)
(* RelayControlClient (network-relay/src/v2/control_client.rs): one         *)
(* connected control socket of the relay.  Callers send requests and wait   *)
(* for the reply with their request id, or begin a connectivity attempt     *)
(* (Resolve, then Offer, then an answer by attempt id).  A writer task and  *)
(* a reader task own the two halves of the socket; whichever ends releases  *)
(* every waiter and tells the event consumer once.                          *)
(*                                                                         *)
(* The relay itself is external: it handles the frames of a connection in   *)
(* order, remembers the target of the last READY Resolve and gives it to    *)
(* the next Offer, which names no target of its own.                        *)
(***************************************************************************)
EXTENDS Naturals, Sequences

CONSTANTS
    RcCallers,      \* concurrent calls, each one operation
    RcPlan,         \* the operations each of them may be
    RcAttemptIds,   \* connectivity attempt ids
    RcPeerOf,       \* the target device of each call
    RcOutCap,       \* CONTROL_QUEUE_CAPACITY
    RcEventCap,     \* EVENT_QUEUE_CAPACITY
    RcMaxIds,       \* bound on the request ids used
    RcBudget        \* bound on heartbeats, pushed frames, drops, disconnects and losses

ASSUME RelayClientAssumption ==
    /\ RcOutCap \in Nat \ {0} /\ RcEventCap \in Nat \ {0}
    /\ RcMaxIds \in Nat /\ RcBudget \in Nat /\ "none" \notin RcCallers
    /\ RcAttemptIds \cap {"none", "ready", "other", "invalid"} = {}
    /\ RcPlan \in [RcCallers -> SUBSET {"resolve", "begin", "signal", "publish", "reserve", "ping"}]

VARIABLES
    rcUp,           \* the socket is alive
    rcConnected,    \* is_connected
    rcOut,          \* the outbound queue
    rcIn,           \* frames of the relay not yet read
    rcEvents,       \* the event queue of the consumer
    rcConsumer,     \* "run", or "gone" once it has seen Disconnected
    rcPending,      \* request id -> the caller registered under it
    rcTracked,      \* attempt id -> the caller whose tracker is stored
    rcCall,         \* the callers
    rcGate,         \* the holder of coordination_gate
    rcNextId,       \* next_request_id
    rcTask,         \* the writer and the reader task
    rcNotified,     \* disconnect_notified
    rcIntentional,  \* intentional_disconnect
    rcCloser,       \* progress of request_disconnect
    rcTarget,       \* relay: target of the last READY Resolve
    rcOffered,      \* relay: attempts offered and not yet answered
    rcHistory       \* disturbances, Disconnected events sent, offers misrouted

rcVars == <<rcUp, rcConnected, rcOut, rcIn, rcEvents, rcConsumer, rcPending, rcTracked,
            rcCall, rcGate, rcNextId, rcTask, rcNotified, rcIntentional, rcCloser,
            rcTarget, rcOffered, rcHistory>>

RcNone == "none"
RcTasks == {"writer", "reader"}
RcPlain == {"publish", "reserve", "ping"}     \* plain requests, by send_and_await
RcIds == 1..RcMaxIds

\* What can lie in the oneshot of a waiting caller.
RcFrame(kind, id, note) == [kind |-> kind, id |-> id, note |-> note]
RcEmpty == RcFrame("empty", 0, RcNone)
RcDropped == RcFrame("dropped", 0, RcNone)
RcDisconnected == RcFrame("disconnected", 0, RcNone)

RcIdle == [pc |-> "idle", op |-> RcNone, attempt |-> RcNone,
           id |-> 0, box |-> RcEmpty, result |-> RcNone]

RelayClientInit ==
    /\ rcUp = TRUE /\ rcConnected = TRUE
    /\ rcOut = <<>> /\ rcIn = <<>> /\ rcEvents = <<>>
    /\ rcConsumer = "run"
    /\ rcPending = [i \in RcIds |-> RcNone]
    /\ rcTracked = [a \in RcAttemptIds |-> RcNone]
    /\ rcCall = [c \in RcCallers |-> RcIdle]
    /\ rcGate = RcNone
    /\ rcNextId = 1
    /\ rcTask = [t \in RcTasks |-> "run"]
    /\ rcNotified = FALSE /\ rcIntentional = FALSE /\ rcCloser = "idle"
    /\ rcTarget = RcNone /\ rcOffered = {}
    /\ rcHistory = [spent |-> 0, reports |-> 0, wrong |-> FALSE]

\* The bound on what the environment does to the client.
Disturb ==
    /\ rcHistory.spent < RcBudget
    /\ rcHistory' = [rcHistory EXCEPT !.spent = @ + 1]

rcNet == <<rcUp, rcIn, rcTarget, rcOffered, rcHistory>>
rcEnd == <<rcConnected, rcNotified, rcIntentional, rcCloser, rcTask>>

\* outbound(): the sender exists and the writer still holds the receiver.
OutboundOpen == rcTask["writer"] # "end"
OutboundRoom == Len(rcOut) < RcOutCap

\* Callers.  A call returns "ok", "failed" (the RelayError variants are not
\* told apart) or "unexpected" (a response of another kind), and releases the
\* gate if it holds it.
ReleaseGate(c) == rcGate' = IF rcGate = c THEN RcNone ELSE rcGate
Finish(c, result) ==
    /\ rcCall' = [rcCall EXCEPT ![c] = [RcIdle EXCEPT !.pc = "done", !.result = result]]
    /\ ReleaseGate(c)
\* Mutant: the tracker is removed whoever stored it.
RemoveAny(c) == rcTracked' = [rcTracked EXCEPT ![rcCall[c].attempt] = RcNone]
RemoveIfOwner(c) ==
    rcTracked' = [a \in RcAttemptIds |-> IF rcTracked[a] = c THEN RcNone ELSE rcTracked[a]]

\* resolve_peer and begin_connectivity_attempt queue for the gate; the others
\* register their request at once.
CallStart(c, op, a) ==
    /\ rcCall[c].pc = "idle" /\ rcConsumer = "run"
    /\ op \in {"resolve", "begin"} \/ rcNextId <= RcMaxIds
    /\ rcCall' = [rcCall EXCEPT ![c] =
         [RcIdle EXCEPT !.op = op, !.attempt = a,
                        !.pc = CASE op \in {"resolve", "begin"} -> "lock"
                                 [] op = "signal" -> "send"
                                 [] OTHER -> "register",
                        !.id = IF op = "signal" THEN rcNextId ELSE 0]]
    /\ rcNextId' = IF op = "signal" THEN rcNextId + 1 ELSE rcNextId
    /\ UNCHANGED <<rcConnected, rcOut, rcEvents, rcConsumer, rcPending, rcTracked, rcGate,
                   rcNet, rcEnd>>

\* Mutant: nobody waits for the gate.
GateIgnored == TRUE
GateFree == rcGate = RcNone

CallLock(c) ==
    /\ rcCall[c].pc = "lock" /\ GateFree
    /\ IF rcCall[c].op = "begin" /\ rcTracked[rcCall[c].attempt] # RcNone
       THEN Finish(c, "failed")
       ELSE /\ rcGate' = c
            /\ rcCall' = [rcCall EXCEPT ![c].pc = "register"]
    /\ UNCHANGED <<rcConnected, rcOut, rcEvents, rcConsumer, rcPending, rcTracked, rcNextId,
                   rcNet, rcEnd>>

\* send_and_await registers the oneshot before the frame is sent.
CallRegister(c) ==
    /\ rcCall[c].pc = "register" /\ rcNextId <= RcMaxIds
    /\ rcNextId' = rcNextId + 1
    /\ rcPending' = [rcPending EXCEPT ![rcNextId] = c]
    /\ rcCall' = [rcCall EXCEPT ![c].pc = "send", ![c].id = rcNextId]
    /\ UNCHANGED <<rcConnected, rcOut, rcEvents, rcConsumer, rcTracked, rcGate, rcNet, rcEnd>>

CallFrame(c, kind) ==
    [kind |-> kind, id |-> rcCall[c].id, attempt |-> rcCall[c].attempt, peer |-> RcPeerOf[c]]

\* send_frame: a full queue is waited on for SOCKET_OPERATION_TIMEOUT.
CallSend(c) ==
    LET kind == IF rcCall[c].op = "begin" THEN "resolve" ELSE rcCall[c].op
    IN  /\ rcCall[c].pc = "send"
        /\ OutboundOpen /\ OutboundRoom
        /\ rcOut' = Append(rcOut, CallFrame(c, kind))
        /\ IF kind = "signal"
           THEN Finish(c, "ok")
           ELSE rcCall' = [rcCall EXCEPT ![c].pc = "wait"] /\ UNCHANGED rcGate
        /\ UNCHANGED <<rcConnected, rcEvents, rcConsumer, rcPending, rcTracked, rcNextId,
                       rcNet, rcEnd>>

ForgetRequest(c) ==
    rcPending' = [i \in RcIds |-> IF i = rcCall[c].id THEN RcNone ELSE rcPending[i]]

CallSendFails(c) ==
    /\ rcCall[c].pc = "send"
    /\ ~(OutboundOpen /\ OutboundRoom)
    /\ ForgetRequest(c)
    /\ Finish(c, "failed")
    /\ UNCHANGED <<rcConnected, rcOut, rcEvents, rcConsumer, rcTracked, rcNextId, rcNet, rcEnd>>

\* validate_resolve_response refuses a reply that breaks the rules of its status.
Valid(box) == box.note # "invalid"

\* The reply to a request: each operation accepts its own kind and a
\* ProtocolError; a READY Resolve of begin_connectivity_attempt goes on.
Outcome(c) ==
    LET box == rcCall[c].box
        expected == IF rcCall[c].op = "begin" THEN "resolve" ELSE rcCall[c].op
    IN  CASE box.kind = expected -> IF Valid(box) THEN "ok" ELSE "failed"
          [] box.kind \in {"disconnected", "dropped", "error"} -> "failed"
          [] OTHER -> "unexpected"

CallReply(c) ==
    /\ rcCall[c].pc = "wait" /\ rcCall[c].box # RcEmpty
    /\ ForgetRequest(c)
    /\ IF rcCall[c].op = "begin" /\ Outcome(c) = "ok" /\ rcCall[c].box.note = "ready"
       THEN /\ rcCall' = [rcCall EXCEPT ![c].pc = "track", ![c].box = RcEmpty]
            /\ UNCHANGED rcGate
       ELSE Finish(c, Outcome(c))
    /\ UNCHANGED <<rcConnected, rcOut, rcEvents, rcConsumer, rcTracked, rcNextId, rcNet, rcEnd>>

\* Mutant: a call waits without a timeout.
CallUntimed(c) == FALSE
CallTimeout(c) ==
    /\ rcCall[c].pc = "wait" /\ rcCall[c].box = RcEmpty
    /\ ForgetRequest(c)
    /\ Finish(c, "failed")
    /\ UNCHANGED <<rcConnected, rcOut, rcEvents, rcConsumer, rcTracked, rcNextId, rcNet, rcEnd>>

\* The attempt's tracker is stored before its Offer is sent.
CallTrack(c) ==
    /\ rcCall[c].pc = "track" /\ rcNextId <= RcMaxIds
    /\ rcNextId' = rcNextId + 1
    /\ rcTracked' = [rcTracked EXCEPT ![rcCall[c].attempt] = c]
    /\ rcCall' = [rcCall EXCEPT ![c].pc = "offer", ![c].id = rcNextId]
    /\ UNCHANGED <<rcConnected, rcOut, rcEvents, rcConsumer, rcPending, rcGate, rcNet, rcEnd>>

CallOffer(c) ==
    /\ rcCall[c].pc = "offer"
    /\ OutboundOpen /\ OutboundRoom
    /\ rcOut' = Append(rcOut, CallFrame(c, "offer"))
    /\ rcCall' = [rcCall EXCEPT ![c].pc = "answer"]
    /\ ReleaseGate(c)
    /\ UNCHANGED <<rcConnected, rcEvents, rcConsumer, rcPending, rcTracked, rcNextId,
                   rcNet, rcEnd>>

CallOfferFails(c) ==
    /\ rcCall[c].pc = "offer"
    /\ ~(OutboundOpen /\ OutboundRoom)
    /\ RemoveIfOwner(c)
    /\ Finish(c, "failed")
    /\ UNCHANGED <<rcConnected, rcOut, rcEvents, rcConsumer, rcPending, rcNextId, rcNet, rcEnd>>

\* ConnectivityAnswerWaiter::wait.
CallAnswer(c) ==
    /\ rcCall[c].pc = "answer" /\ rcCall[c].box # RcEmpty
    /\ RemoveIfOwner(c)
    /\ Finish(c, IF rcCall[c].box.kind = "answer" THEN "ok" ELSE "failed")
    /\ UNCHANGED <<rcConnected, rcOut, rcEvents, rcConsumer, rcPending, rcNextId, rcNet, rcEnd>>

CallAnswerTimeout(c) ==
    /\ rcCall[c].pc = "answer" /\ rcCall[c].box = RcEmpty
    /\ RemoveIfOwner(c)
    /\ Finish(c, "failed")
    /\ UNCHANGED <<rcConnected, rcOut, rcEvents, rcConsumer, rcPending, rcNextId, rcNet, rcEnd>>

\* The caller's own timeout drops the future at an await: the gate guard and
\* the attempt lease are dropped with it, a registered request is not removed.
CallDropped(c) ==
    /\ rcCall[c].pc \in {"lock", "send", "wait", "offer", "answer"} /\ Disturb
    /\ RemoveIfOwner(c)
    /\ Finish(c, "failed")
    /\ UNCHANGED <<rcConnected, rcOut, rcEvents, rcConsumer, rcPending, rcNextId, rcEnd,
                   rcUp, rcIn, rcTarget, rcOffered>>

\* The oneshot of caller c takes a message while its receiver lives.
Listening(c, pcs) == c \in RcCallers /\ rcCall[c].pc \in pcs
Put(call, c, pcs, msg) ==
    IF c \in RcCallers /\ call[c].pc \in pcs THEN [call EXCEPT ![c].box = msg] ELSE call

\* The relay (external): what a frame of the client makes it answer.
Replies(f) ==
    CASE f.kind = "resolve" -> {RcFrame("resolve", f.id, n) : n \in {"ready", "other", "invalid"}}
                                 \cup {RcFrame("error", f.id, RcNone)}
      [] f.kind = "heartbeat" -> {RcFrame("ping", f.id, RcNone)}
      [] f.kind \in RcPlain -> {RcFrame(f.kind, f.id, RcNone)}
      [] OTHER -> {}
RelayReplies(f) ==
    /\ \E r \in Replies(f) :
         /\ rcIn' = Append(rcIn, r)
         /\ rcTarget' = IF f.kind = "resolve" /\ r.note = "ready" THEN f.peer ELSE rcTarget
    /\ UNCHANGED rcOffered
RelayHandles(f) ==
    \/ RelayReplies(f) /\ UNCHANGED rcHistory
    \/ /\ f.kind = "offer"
       /\ rcHistory' = [rcHistory EXCEPT !.wrong = @ \/ rcTarget # f.peer]
       /\ rcTarget' = RcNone
       /\ rcOffered' = rcOffered \cup {f.attempt}
       /\ UNCHANGED rcIn
    \/ /\ f.kind # "offer"
       /\ UNCHANGED <<rcIn, rcTarget, rcOffered, rcHistory>>

RelayAnswers(a) ==
    /\ rcUp /\ a \in rcOffered
    /\ rcOffered' = rcOffered \ {a}
    /\ \E kind \in {"answer", "error"} : rcIn' = Append(rcIn, RcFrame(kind, 0, a))
    /\ UNCHANGED <<rcUp, rcTarget, rcHistory, rcConnected, rcOut, rcEvents, rcConsumer, rcPending,
                   rcTracked, rcCall, rcGate, rcNextId, rcEnd>>

\* A presence hint, or a frame the client refuses.
RelayPushes ==
    /\ rcUp /\ Disturb
    /\ \E kind \in {"hint", "bad"} : rcIn' = Append(rcIn, RcFrame(kind, 0, RcNone))
    /\ UNCHANGED <<rcUp, rcTarget, rcOffered, rcConnected, rcOut, rcEvents, rcConsumer, rcPending,
                   rcTracked, rcCall, rcGate, rcNextId, rcEnd>>

\* The socket ends: by itself, or after the client's own Close.
SocketLost ==
    /\ rcUp
    /\ rcUp' = FALSE
    /\ Disturb \/ (rcIntentional /\ UNCHANGED rcHistory)
    /\ UNCHANGED <<rcIn, rcTarget, rcOffered, rcConnected, rcOut, rcEvents,
                   rcConsumer, rcPending, rcTracked, rcCall, rcGate, rcNextId, rcEnd>>

\* Writer task.
StopTask(t) == rcTask' = [rcTask EXCEPT ![t] = "mark"]

WriterSends ==
    /\ rcTask["writer"] = "run" /\ rcUp /\ rcOut # <<>>
    /\ rcOut' = Tail(rcOut)
    /\ IF Head(rcOut).kind = "close"
       THEN StopTask("writer") /\ UNCHANGED <<rcIn, rcTarget, rcOffered, rcHistory>>
       ELSE RelayHandles(Head(rcOut)) /\ UNCHANGED rcTask
    /\ UNCHANGED <<rcUp, rcConnected, rcEvents, rcConsumer, rcPending, rcTracked, rcCall, rcGate,
                   rcNextId, rcNotified, rcIntentional, rcCloser>>

\* Mutant: heartbeats count their ids themselves.
HeartbeatOwnCount == 1
HeartbeatId == rcNextId

\* The heartbeat takes its id from the callers' counter and registers nothing.
WriterHeartbeat ==
    /\ rcTask["writer"] = "run" /\ rcUp /\ rcNextId <= RcMaxIds /\ Disturb
    /\ rcNextId' = rcNextId + 1
    /\ RelayReplies([kind |-> "heartbeat", id |-> HeartbeatId, attempt |-> RcNone, peer |-> RcNone])
    /\ UNCHANGED <<rcUp, rcConnected, rcOut, rcEvents, rcConsumer, rcPending, rcTracked, rcCall,
                   rcGate, rcEnd>>

WriterFails ==
    /\ rcTask["writer"] = "run" /\ ~rcUp
    /\ StopTask("writer")
    /\ UNCHANGED <<rcConnected, rcOut, rcEvents, rcConsumer, rcPending, rcTracked, rcCall, rcGate,
                   rcNextId, rcNotified, rcIntentional, rcCloser, rcNet>>

\* Reader task: events.send waits for room while the consumer lives.
Queued(e) ==
    \/ rcConsumer = "gone" /\ UNCHANGED rcEvents
    \/ rcConsumer = "run" /\ Len(rcEvents) < RcEventCap /\ rcEvents' = Append(rcEvents, e)

\* A reply by request id: an unregistered one becomes an event, except for
\* the acknowledgement of a heartbeat.
RouteRequest(f) ==
    LET c == rcPending[f.id]
    IN  /\ rcPending' = [rcPending EXCEPT ![f.id] = RcNone]
        /\ rcCall' = Put(rcCall, c, {"send", "wait"}, f)
        /\ IF c = RcNone /\ f.kind \notin {"ping", "error"} THEN Queued(f) ELSE UNCHANGED rcEvents
        /\ UNCHANGED rcTracked

\* A reply by attempt id: the tracker goes; one older than the attempt
\* timeout drops its sender instead of using it.
RouteAttempt(f) ==
    LET c == rcTracked[f.note]
    IN  /\ rcTracked' = [rcTracked EXCEPT ![f.note] = RcNone]
        /\ \E msg \in {f, RcDropped} : rcCall' = Put(rcCall, c, {"offer", "answer"}, msg)
        /\ UNCHANGED <<rcPending, rcEvents>>

\* decode_control_event: a frame that is malformed or not for a client.
Refused(f) == f.kind = "bad"

ReaderRoutes ==
    LET f == Head(rcIn)
    IN  /\ rcTask["reader"] = "run" /\ rcIn # <<>>
        /\ rcIn' = Tail(rcIn)
        /\ \/ Refused(f) /\ StopTask("reader")
              /\ UNCHANGED <<rcPending, rcTracked, rcCall, rcEvents>>
           \/ f.kind = "hint" /\ Queued(f) /\ UNCHANGED <<rcTask, rcPending, rcTracked, rcCall>>
           \/ f.note \in RcAttemptIds /\ RouteAttempt(f) /\ UNCHANGED rcTask
           \/ f.id # 0 /\ RouteRequest(f) /\ UNCHANGED rcTask
        /\ UNCHANGED <<rcUp, rcTarget, rcOffered, rcHistory, rcConnected, rcOut, rcConsumer, rcGate,
                       rcNextId, rcNotified, rcIntentional, rcCloser>>

ReaderEnds ==
    /\ rcTask["reader"] = "run" /\ ~rcUp /\ rcIn = <<>>
    /\ StopTask("reader")
    /\ UNCHANGED <<rcConnected, rcOut, rcEvents, rcConsumer, rcPending, rcTracked, rcCall, rcGate,
                   rcNextId, rcNotified, rcIntentional, rcCloser, rcNet>>

\* drain_pending: every registered request and attempt is told.
DrainPending ==
    /\ rcPending' = [i \in RcIds |-> RcNone]
    /\ rcTracked' = [a \in RcAttemptIds |-> RcNone]
    /\ rcCall' = [c \in RcCallers |->
         IF \/ Listening(c, {"send", "wait"}) /\ \E i \in RcIds : rcPending[i] = c /\ rcCall[c].id = i
            \/ Listening(c, {"offer", "answer"}) /\ \E a \in RcAttemptIds : rcTracked[a] = c
         THEN [rcCall[c] EXCEPT !.box = RcDisconnected] ELSE rcCall[c]]

\* Mutant: both tasks report the end of the socket.
EachReports(t) == ~rcIntentional
\* Mutant: only the reader reports the end of the socket.
ReaderReports(t) == t = "reader" /\ ~rcIntentional /\ ~rcNotified
FirstReports(t) == ~rcIntentional /\ ~rcNotified

\* mark_control_disconnected, by the task that ended: the first of the two to
\* swap disconnect_notified also reports.
MarkDisconnected(t) ==
    /\ rcTask[t] = "mark"
    /\ rcConnected' = FALSE
    /\ rcNotified' = TRUE
    /\ DrainPending
    /\ rcTask' = [rcTask EXCEPT ![t] = IF FirstReports(t) THEN "report" ELSE "end"]
    /\ rcOut' = IF t = "writer" /\ rcTask'[t] = "end" THEN <<>> ELSE rcOut
    /\ UNCHANGED <<rcEvents, rcConsumer, rcGate, rcNextId, rcIntentional, rcCloser, rcNet>>

TaskReports(t) ==
    /\ rcTask[t] = "report"
    /\ Queued(RcDisconnected)
    /\ rcTask' = [rcTask EXCEPT ![t] = "end"]
    /\ rcHistory' = [rcHistory EXCEPT !.reports = @ + 1]
    /\ rcOut' = IF t = "writer" THEN <<>> ELSE rcOut
    /\ UNCHANGED <<rcConnected, rcConsumer, rcPending, rcTracked, rcCall, rcGate, rcNextId,
                   rcNotified, rcIntentional, rcCloser, rcUp, rcIn, rcTarget, rcOffered>>

\* request_disconnect: the flag, a Close frame if the queue takes it, the drain.
RequestDisconnect ==
    /\ rcCloser = "idle" /\ Disturb
    /\ rcCloser' = "drain" /\ rcIntentional' = TRUE
    /\ rcOut' = IF OutboundOpen /\ OutboundRoom
                THEN Append(rcOut, [kind |-> "close", id |-> 0, attempt |-> RcNone, peer |-> RcNone])
                ELSE rcOut
    /\ UNCHANGED <<rcConnected, rcEvents, rcConsumer, rcPending, rcTracked, rcCall, rcGate, rcNextId,
                   rcNotified, rcTask, rcUp, rcIn, rcTarget, rcOffered>>

CloserDrains ==
    /\ rcCloser = "drain"
    /\ rcCloser' = "done" /\ rcConnected' = FALSE
    /\ DrainPending
    /\ UNCHANGED <<rcOut, rcEvents, rcConsumer, rcGate, rcNextId, rcNotified, rcIntentional, rcTask,
                   rcNet>>

\* The consumer stops at Disconnected and drops its queue.
ConsumerTakes ==
    /\ rcConsumer = "run" /\ rcEvents # <<>>
    /\ IF Head(rcEvents) = RcDisconnected
       THEN rcConsumer' = "gone" /\ rcEvents' = <<>>
       ELSE rcEvents' = Tail(rcEvents) /\ UNCHANGED rcConsumer
    /\ UNCHANGED <<rcConnected, rcOut, rcPending, rcTracked, rcCall, rcGate, rcNextId, rcNet, rcEnd>>

RcCallStep(c) ==
    \/ CallLock(c) \/ CallRegister(c) \/ CallSend(c) \/ CallSendFails(c) \/ CallReply(c)
    \/ CallTimeout(c) \/ CallTrack(c) \/ CallOffer(c) \/ CallOfferFails(c) \/ CallAnswer(c)
    \/ CallAnswerTimeout(c)

RcTaskStep(t) == MarkDisconnected(t) \/ TaskReports(t)

RelayClientNext ==
    \/ \E c \in RcCallers, a \in RcAttemptIds : \E op \in RcPlan[c] : CallStart(c, op, a)
    \/ \E c \in RcCallers : RcCallStep(c) \/ CallDropped(c)
    \/ \E a \in RcAttemptIds : RelayAnswers(a)
    \/ \E t \in RcTasks : RcTaskStep(t)
    \/ RelayPushes \/ SocketLost \/ WriterSends \/ WriterHeartbeat \/ WriterFails
    \/ ReaderRoutes \/ ReaderEnds \/ RequestDisconnect \/ CloserDrains \/ ConsumerTakes

\* Spawned tasks run, timers fire, an ended socket is noticed and the consumer
\* reads its queue; nothing is assumed of the relay or of the callers' drops.
RelayClientFairness ==
    /\ \A c \in RcCallers : WF_rcVars(RcCallStep(c))
    /\ \A t \in RcTasks : WF_rcVars(RcTaskStep(t))
    /\ WF_rcVars(WriterSends) /\ WF_rcVars(WriterFails)
    /\ WF_rcVars(ReaderRoutes) /\ WF_rcVars(ReaderEnds)
    /\ WF_rcVars(CloserDrains) /\ WF_rcVars(ConsumerTakes)

RelayClientSpec == RelayClientInit /\ [][RelayClientNext]_rcVars /\ RelayClientFairness

------------------------------------------------------------------------------
RcKinds == {"empty", "dropped", "disconnected", "error", "answer", "hint", "bad", "resolve"} \cup RcPlain

\* The values the client's fields and its tasks can hold.
RelayClientTypeOK ==
    /\ {rcUp, rcConnected, rcNotified, rcIntentional} \subseteq BOOLEAN
    /\ Len(rcOut) <= RcOutCap /\ Len(rcEvents) <= RcEventCap
    /\ rcConsumer \in {"run", "gone"} /\ rcCloser \in {"idle", "drain", "done"}
    /\ rcPending \in [RcIds -> RcCallers \cup {RcNone}]
    /\ rcTracked \in [RcAttemptIds -> RcCallers \cup {RcNone}]
    /\ rcGate \in RcCallers \cup {RcNone}
    /\ rcNextId \in 1..(RcMaxIds + 1)
    /\ \A t \in RcTasks : rcTask[t] \in {"run", "mark", "report", "end"}
    /\ \A c \in RcCallers : rcCall[c].box.kind \in RcKinds

\* A caller that waits for a reply can still be reached: its request is
\* registered under its id, its attempt's tracker is stored, or its oneshot
\* already holds the outcome.  Cleaning up an old attempt with the same id, or
\* a drain, never takes the registration away without a message.
WaiterIsReachable ==
    \A c \in RcCallers :
        /\ rcCall[c].pc \in {"send", "wait"} /\ rcCall[c].op # "signal" /\ rcCall[c].box = RcEmpty
             => rcPending[rcCall[c].id] = c
        /\ rcCall[c].pc \in {"offer", "answer"} /\ rcCall[c].box = RcEmpty
             => rcTracked[rcCall[c].attempt] = c

\* A caller is only ever given the reply to its own request: no response of
\* another kind (a heartbeat's acknowledgement, a late reply of a call that
\* gave up) reaches its oneshot.
ReplyIsOwn == \A c \in RcCallers : rcCall[c].result # "unexpected"

\* The relay hands an Offer to the peer its caller resolved: the gate keeps
\* every other Resolve and Offer out from the Resolve to the Offer of one
\* begin_connectivity_attempt, also when a caller times out or is dropped.
OfferReachesResolvedPeer == ~rcHistory.wrong

\* The consumer is told of the end of the socket at most once, although two
\* tasks and the closer see it.
DisconnectReportedOnce == rcHistory.reports <= 1

\* Whatever happens to the socket, every call returns: none waits for ever
\* (unless the bound on request ids starves it).
CallsReturn ==
    []<>(rcNextId > RcMaxIds \/ \A c \in RcCallers : rcCall[c].pc \in {"idle", "done"})

\* A socket that dies without request_disconnect is reported to the consumer,
\* which is what starts the reconnection.
LossIsReported == []<>(rcUp \/ rcIntentional \/ rcConsumer = "gone")

\* Calls and replies are paired: who waits can be reached, is given its own reply, its
\* Offer goes to the peer it resolved, and the end of the socket is reported once.
CallsPaired ==
    /\ RelayClientTypeOK /\ WaiterIsReachable /\ ReplyIsOwn
    /\ OfferReachesResolvedPeer /\ DisconnectReportedOnce

\* The end of the socket ends every call and reaches the consumer.
CallsEnd == CallsReturn /\ LossIsReported
==============================================================================
