--------------------------- MODULE CommandPipeline ---------------------------
(***************************************************************************)
(* The life of a command: the C ABI (network-ffi/src/lib.rs), the runtime  *)
(* facade (runtime/facade.rs), the command worker with its result ledger   *)
(* (commands/ledger.rs) and back through the event lanes and the event mux *)
(* of the ABI to the application.                                          *)
(*                                                                         *)
(* Application threads call command, start and stop concurrently; one      *)
(* thread polls.  Each mutex section and each atomic access that another   *)
(* thread can observe is a step.                                           *)
(*                                                                         *)
(* Abstractions.  A command is its id; what its handler does is the        *)
(* external `Dispatched`.  Of the core lanes the results are a queue; a    *)
(* poller may find control and data events there at any time, in any order *)
(* with the results (EventLanes models the lanes and their order).  Byte   *)
(* limits are left to EventLanes: the mux has its limits on items.         *)
(* Encoding and decoding, null arguments and poisoned locks are left out.  *)
(***************************************************************************)
EXTENDS Naturals, Sequences, FiniteSets, Functions

CONSTANTS
  CmdIds,            \* numbers, first used in order
  CmdCallers,
  CmdStoppers,       \* numbers, first used in order
  FfiMaxPending,     \* SSH_NET_MAX_PENDING_COMMANDS
  FfiMaxTerminal,    \* SSH_NET_MAX_TERMINAL_COMMANDS
  FfiControlItems,   \* SSH_NET_MAX_CONTROL_ITEMS
  FfiDataItems,      \* SSH_NET_MAX_DATA_ITEMS
  FfiMaxControlRun,  \* SSH_NET_MAX_CONSECUTIVE_CONTROL_EVENTS
  FfiDrainBatch,     \* SSH_NET_RUNTIME_DRAIN_BATCH
  CmdMailbox,        \* COMMAND_MAILBOX_CAPACITY
  CmdMaxCompleted,   \* MAX_COMPLETED_COMMANDS
  CmdResultLane,     \* RESULT_EVENT_MAILBOX_CAPACITY
  CmdBudget,         \* model bound: calls of command and stop and other events, together
  StartStopOverlap    \* whether start and stop may overlap

ASSUME PipelineAssumption ==
  /\ CmdIds \subseteq Nat \ {0} /\ CmdStoppers \subseteq Nat /\ IsFiniteSet(CmdStoppers)
  /\ \A n \in {FfiMaxPending, FfiMaxTerminal, FfiControlItems, FfiDataItems, FfiDrainBatch,
               CmdMailbox, CmdMaxCompleted, CmdResultLane} : n \in Nat \ {0}
  /\ FfiMaxControlRun \in Nat /\ CmdBudget \in Nat
  /\ 2 * FfiMaxPending <= FfiMaxTerminal /\ FfiMaxPending <= FfiControlItems
  /\ StartStopOverlap \in BOOLEAN

VARIABLES
  cmdLife,      \* the lifecycle atomic
  cmdTx,        \* command_tx is Some
  cmdState,     \* the RuntimeState is installed
  cmdStarting,  \* start() is between its exchange and its end
  cmdMail,      \* the command mailbox
  cmdWorker,    \* the worker task: [at, id]
  cmdLedger,    \* completed_order; `pending` is the command the worker holds
  cmdResults,   \* the result lane of the core
  cmdEmitted,   \* control and data events the poller has found
  ffiPending, ffiTerminal,
  ffiSynthetic, \* the cancellations of stop
  ffiDrained,   \* the mux: critical results, number of normal and of data events, run
  ffiPoll,      \* events drained by the current poll
  cmdCaller, cmdStopper,
  cmdHistory    \* remembered, accepted, answered, lost per id; the dispatches

cmdCore == <<cmdMail, cmdWorker, cmdLedger, cmdResults, cmdEmitted>>
cmdLifecycle == <<cmdLife, cmdTx, cmdState, cmdStarting>>
ffiVars == <<ffiPending, ffiTerminal, ffiSynthetic, ffiDrained, ffiPoll>>
cmdVars == <<cmdLifecycle, cmdCore, ffiVars, cmdCaller, cmdStopper, cmdHistory>>

NoCmd == 0
Ats(stage, id) == [at |-> stage, id |-> id]
None0 == [id \in CmdIds |-> 0]
WithinBudget == cmdHistory.calls + cmdEmitted
                + Cardinality({s \in CmdStoppers : cmdStopper[s].at # "idle"}) < CmdBudget

PipelineInit ==
  /\ cmdLife = "created" /\ cmdTx = FALSE /\ cmdState = FALSE /\ cmdStarting = FALSE
  /\ cmdMail = <<>> /\ cmdWorker = Ats("absent", NoCmd) /\ cmdLedger = <<>>
  /\ cmdResults = <<>> /\ cmdEmitted = 0
  /\ ffiPending = {} /\ ffiTerminal = <<>> /\ ffiSynthetic = <<>> /\ ffiPoll = 0
  /\ ffiDrained = [critical |-> <<>>, normal |-> 0, data |-> 0, run |-> 0]
  /\ cmdCaller = [c \in CmdCallers |-> Ats("idle", NoCmd)]
  /\ cmdStopper = [s \in CmdStoppers |-> [at |-> "idle", ids |-> {}]]
  /\ cmdHistory = [calls |-> 0, remembered |-> None0, accepted |-> None0,
                   answered |-> None0, lost |-> None0, dispatched |-> <<>>]

\* A bounded history evicts its oldest entries (BoundedCommandHistory::insert, pop_front).
Newest(order, max) == IF Len(order) <= max THEN order ELSE SubSeq(order, Len(order) - max + 1, Len(order))
\* BoundedCommandHistory::insert and the eviction of CommandResultLedger.
Remember(order, id, max) ==
  IF id \in Range(order) THEN order ELSE Newest(Append(order, id), max)

-----------------------------------------------------------------------------
(* ssh_net_runtime_command                                                 *)

\* remember_command: refused when the id is pending or remembered, or at the limit.
RememberCommand(c, id) ==
  /\ cmdCaller[c].at = "idle" /\ WithinBudget
  /\ \A j \in CmdIds : j < id => cmdHistory.remembered[j] > 0
  /\ id \notin ffiPending /\ id \notin Range(ffiTerminal)
  /\ Cardinality(ffiPending) < FfiMaxPending
  /\ ffiPending' = ffiPending \cup {id}
  /\ cmdCaller' = [cmdCaller EXCEPT ![c] = Ats("check", id)]
  /\ cmdHistory' = [cmdHistory EXCEPT !.remembered[id] = @ + 1, !.calls = @ + 1]
  /\ UNCHANGED <<cmdLifecycle, cmdCore, ffiTerminal, ffiSynthetic, ffiDrained, ffiPoll, cmdStopper>>

\* send_command: the lifecycle is read and the sender cloned under its lock.  Two
\* reads of one thread, joined at the moment of the first or of the second.
CheckRunning(c) ==
  /\ cmdCaller[c].at = "check"
  /\ cmdCaller' = [cmdCaller EXCEPT ![c].at = IF cmdLife = "running" /\ cmdTx THEN "push" ELSE "forget"]
  /\ UNCHANGED <<cmdLifecycle, cmdCore, ffiVars, cmdStopper, cmdHistory>>

\* try_send on the clone: Full, or Closed once the worker dropped the receiver.
PushCommand(c) ==
  LET id == cmdCaller[c].id
      ok == cmdWorker.at \notin {"absent", "gone"} /\ Len(cmdMail) < CmdMailbox IN
  /\ cmdCaller[c].at = "push"
  /\ cmdMail' = IF ok THEN Append(cmdMail, id) ELSE cmdMail
  /\ cmdCaller' = [cmdCaller EXCEPT ![c] = IF ok THEN Ats("idle", NoCmd) ELSE Ats("forget", id)]
  /\ cmdHistory' = IF ok THEN [cmdHistory EXCEPT !.accepted[id] = @ + 1] ELSE cmdHistory
  /\ UNCHANGED <<cmdLifecycle, cmdWorker, cmdLedger, cmdResults, cmdEmitted,
                 ffiVars, cmdStopper>>

\* The refused command is taken out of the pending set again.
ForgetCommand(c) ==
  /\ cmdCaller[c].at = "forget"
  /\ ffiPending' = ffiPending \ {cmdCaller[c].id}
  /\ cmdCaller' = [cmdCaller EXCEPT ![c] = Ats("idle", NoCmd)]
  /\ UNCHANGED <<cmdLifecycle, cmdCore, ffiTerminal, ffiSynthetic, ffiDrained, ffiPoll,
                 cmdStopper, cmdHistory>>

-----------------------------------------------------------------------------
(* NetworkRuntime::start and SshNetRuntime::stop                           *)

StartExchange ==
  /\ cmdLife = "created" /\ cmdLife' = "running" /\ cmdStarting' = TRUE
  /\ StartStopOverlap \/ \A s \in CmdStoppers : cmdStopper[s].at = "idle"
  /\ UNCHANGED <<cmdTx, cmdState, cmdCore, ffiVars, cmdCaller, cmdStopper, cmdHistory>>
\* The state is installed, the worker spawned and the sender published.
StartFinish ==
  /\ cmdStarting /\ cmdStarting' = FALSE /\ cmdState' = TRUE /\ cmdTx' = TRUE
  /\ cmdWorker' = Ats("idle", NoCmd)
  /\ UNCHANGED <<cmdLife, cmdMail, cmdLedger, cmdResults, cmdEmitted, ffiVars,
                 cmdCaller, cmdStopper, cmdHistory>>

StopperAt(s, stage) == cmdStopper' = [cmdStopper EXCEPT ![s].at = stage]

\* stop reads the lifecycle once and decides by what it read.
StopLoad(s) ==
  /\ cmdStopper[s].at = "idle" /\ WithinBudget /\ \A r \in CmdStoppers : r < s => cmdStopper[r].at # "idle"
  /\ (cmdStarting => StartStopOverlap)
  /\ StopperAt(s, CASE cmdLife \in {"created", "stopped"} -> "store"
                    [] cmdLife = "stopping" -> "wait"
                    [] OTHER -> "exchange")
  /\ UNCHANGED <<cmdLifecycle, cmdCore, ffiVars, cmdCaller, cmdHistory>>
StopWait(s) ==
  /\ cmdStopper[s].at = "wait" /\ cmdLife # "stopping"
  /\ StopperAt(s, "cancel")
  /\ UNCHANGED <<cmdLifecycle, cmdCore, ffiVars, cmdCaller, cmdHistory>>
\* The loser of the exchange returns an error, after cancelling what is pending.
StopExchange(s) ==
  /\ cmdStopper[s].at = "exchange"
  /\ IF cmdLife = "running"
       THEN cmdLife' = "stopping" /\ StopperAt(s, "take")
       ELSE UNCHANGED cmdLife /\ StopperAt(s, "cancel")
  /\ UNCHANGED <<cmdTx, cmdState, cmdStarting, cmdCore, ffiVars, cmdCaller, cmdHistory>>
\* Mutant: the sender stays published.
StopTakeKeeps(s) ==
  /\ cmdStopper[s].at = "take"
  /\ cmdState' = FALSE /\ UNCHANGED cmdTx
  /\ StopperAt(s, IF cmdState THEN "join" ELSE "store")
  /\ UNCHANGED <<cmdLife, cmdStarting, cmdCore, ffiVars, cmdCaller, cmdHistory>>
\* The sender and the state are taken; with a state, shutdown_listener runs.
StopTake(s) ==
  /\ cmdStopper[s].at = "take"
  /\ cmdTx' = FALSE /\ cmdState' = FALSE
  /\ StopperAt(s, IF cmdState THEN "join" ELSE "store")
  /\ UNCHANGED <<cmdLife, cmdStarting, cmdCore, ffiVars, cmdCaller, cmdHistory>>
\* The root token is cancelled: the worker ends at its next await, and the
\* receiver goes with it.  shutdown waits for that.
StopJoin(s) ==
  /\ cmdStopper[s].at = "join"
  /\ cmdWorker' = Ats("gone", NoCmd) /\ cmdMail' = <<>>
  /\ StopperAt(s, "store")
  /\ UNCHANGED <<cmdLifecycle, cmdLedger, cmdResults, cmdEmitted, ffiVars,
                 cmdCaller, cmdHistory>>
StopStore(s) ==
  /\ cmdStopper[s].at = "store" /\ cmdLife' = "stopped"
  /\ StopperAt(s, "cancel")
  /\ UNCHANGED <<cmdTx, cmdState, cmdStarting, cmdCore, ffiVars, cmdCaller, cmdHistory>>

\* Mutant: pending is cleared and nobody is told.
CancelClear(s) ==
  /\ cmdStopper[s].at = "cancel"
  /\ cmdStopper' = [cmdStopper EXCEPT ![s] = [at |-> "settle", ids |-> {}]]
  /\ ffiPending' = {}
  /\ UNCHANGED <<cmdLifecycle, cmdCore, ffiTerminal, ffiSynthetic, ffiDrained, ffiPoll,
                 cmdCaller, cmdHistory>>
\* cancel_pending_commands: pending is drained under its own lock ...
CancelDrain(s) ==
  /\ cmdStopper[s].at = "cancel"
  /\ cmdStopper' = [cmdStopper EXCEPT ![s] = [at |-> "settle", ids |-> ffiPending]]
  /\ ffiPending' = {}
  /\ UNCHANGED <<cmdLifecycle, cmdCore, ffiTerminal, ffiSynthetic, ffiDrained, ffiPoll,
                 cmdCaller, cmdHistory>>

\* ... and the ids that no result has settled in between are cancelled.
Settled(ids) == ids \cap Range(ffiTerminal)
CancelSettle(s) ==
  LET ids == cmdStopper[s].ids \ Settled(cmdStopper[s].ids) IN
  /\ cmdStopper[s].at = "settle"
  /\ \E order \in Injection(1 .. Cardinality(ids), ids) :
       LET queue == ffiSynthetic \o order
           Fits(i) == Len(ffiSynthetic) + i <= FfiControlItems IN
       /\ ffiTerminal' = Newest(ffiTerminal \o order, FfiMaxTerminal)
       /\ ffiSynthetic' = IF Len(queue) <= FfiControlItems THEN queue ELSE SubSeq(queue, 1, FfiControlItems)
       /\ cmdHistory' = [cmdHistory EXCEPT !.lost = [id \in CmdIds |->
            @[id] + (IF \E i \in DOMAIN order : order[i] = id /\ ~Fits(i) THEN 1 ELSE 0)]]
  /\ cmdStopper' = [cmdStopper EXCEPT ![s] = [at |-> "done", ids |-> {}]]
  /\ UNCHANGED <<cmdLifecycle, cmdCore, ffiPending, ffiDrained, ffiPoll, cmdCaller>>

-----------------------------------------------------------------------------
(* run_command_worker                                                      *)

WorkerKeeps == UNCHANGED <<cmdLifecycle, cmdEmitted, ffiVars, cmdCaller, cmdStopper>>

\* Mutant: the ledger is not asked.
ClaimAlways(id) == TRUE
\* recv and claim: a repeated id is answered at once, a new one is dispatched.
Claim(id) == id \notin Range(cmdLedger)
WorkerRecv ==
  LET id == Head(cmdMail) IN
  /\ cmdWorker.at = "idle" /\ cmdMail # <<>>
  /\ cmdMail' = Tail(cmdMail)
  /\ cmdWorker' = Ats(IF Claim(id) THEN "dispatch" ELSE "refuse", id)
  /\ cmdHistory' = IF Claim(id)
       THEN [cmdHistory EXCEPT !.dispatched = Append(@, id)] ELSE cmdHistory
  /\ WorkerKeeps /\ UNCHANGED <<cmdLedger, cmdResults>>

\* External: dispatch_command ends, with a result or an error.  A connect command
\* ends with its attempt, so the commands behind it wait that long.
Dispatched ==
  /\ cmdWorker.at = "dispatch" /\ cmdWorker' = Ats("emit", cmdWorker.id)
  /\ WorkerKeeps /\ UNCHANGED <<cmdMail, cmdLedger, cmdResults, cmdHistory>>

\* emit_command_result waits for a place in the result lane; then the claim is
\* completed, unless the id was a repeated one.
WorkerEmit ==
  /\ cmdWorker.at \in {"emit", "refuse"} /\ Len(cmdResults) < CmdResultLane
  /\ cmdResults' = Append(cmdResults, cmdWorker.id)
  /\ cmdLedger' = IF cmdWorker.at = "emit"
       THEN Remember(cmdLedger, cmdWorker.id, CmdMaxCompleted) ELSE cmdLedger
  /\ cmdWorker' = Ats("idle", NoCmd)
  /\ WorkerKeeps /\ UNCHANGED <<cmdMail, cmdHistory>>

\* The last sender is gone and the mailbox is empty: the worker returns.
WorkerEnds ==
  /\ cmdWorker.at = "idle" /\ cmdMail = <<>> /\ ~cmdTx
  /\ \A c \in CmdCallers : cmdCaller[c].at # "push"
  /\ cmdWorker' = Ats("gone", NoCmd)
  /\ WorkerKeeps /\ UNCHANGED <<cmdMail, cmdLedger, cmdResults, cmdHistory>>

-----------------------------------------------------------------------------
(* ssh_net_runtime_poll_event                                              *)

PollKeeps == UNCHANGED <<cmdLifecycle, cmdMail, cmdWorker, cmdLedger,
                         ffiPending, cmdCaller, cmdStopper>>

\* The cancellations of stop go first.
PollSynthetic ==
  /\ ffiPoll = 0 /\ ffiSynthetic # <<>>
  /\ cmdHistory' = [cmdHistory EXCEPT !.answered[Head(ffiSynthetic)] = @ + 1]
  /\ ffiSynthetic' = Tail(ffiSynthetic)
  /\ PollKeeps /\ UNCHANGED <<cmdResults, cmdEmitted, ffiTerminal, ffiDrained, ffiPoll>>

\* Without one, poll drains the core lanes into the mux first.
Draining == ffiPoll < FfiDrainBatch /\ (ffiPoll = 0 => ffiSynthetic = <<>>)
ControlRoom == Len(ffiDrained.critical) + ffiDrained.normal < FfiControlItems

\* Mutant: a second terminal event passes.
AdmitAlways(id) == TRUE
\* drain_runtime_events takes a result: admit_event drops one that is already
\* terminal, settles the others, and the mux refuses it when its control lanes
\* are full.  The settled id is no longer pending either way.
AdmitOnce(id) == id \notin Range(ffiTerminal)
DrainResult ==
  LET id == Head(cmdResults)  admit == AdmitOnce(id) IN
  /\ Draining /\ cmdResults # <<>>
  /\ cmdResults' = Tail(cmdResults) /\ ffiPoll' = ffiPoll + 1
  /\ ffiPending' = IF admit THEN ffiPending \ {id} ELSE ffiPending
  /\ ffiTerminal' = IF admit THEN Remember(ffiTerminal, id, FfiMaxTerminal) ELSE ffiTerminal
  /\ ffiDrained' = IF admit /\ ControlRoom
       THEN [ffiDrained EXCEPT !.critical = Append(@, id)] ELSE ffiDrained
  /\ cmdHistory' = IF admit /\ ~ControlRoom THEN [cmdHistory EXCEPT !.lost[id] = @ + 1] ELSE cmdHistory
  /\ UNCHANGED <<cmdLifecycle, cmdMail, cmdWorker, cmdLedger, cmdEmitted,
                 ffiSynthetic, cmdCaller, cmdStopper>>

\* Other events: control ones are refused at the limit, data pushes the oldest out.
DrainNoise(kind) ==
  /\ Draining /\ cmdWorker.at # "absent" /\ WithinBudget
  /\ cmdEmitted' = cmdEmitted + 1 /\ ffiPoll' = ffiPoll + 1
  /\ ffiDrained' = IF kind = "data"
       THEN [ffiDrained EXCEPT !.data = IF @ < FfiDataItems THEN @ + 1 ELSE @]
       ELSE [ffiDrained EXCEPT !.normal = IF ControlRoom THEN @ + 1 ELSE @]
  /\ PollKeeps /\ UNCHANGED <<cmdResults, ffiTerminal, ffiSynthetic, cmdHistory>>

\* EventMux::pop: results before other control events, data after a run of them.
MuxPop ==
  LET m == ffiDrained  force == m.data > 0 /\ m.run >= FfiMaxControlRun IN
  /\ IF ~force /\ m.critical # <<>>
       THEN ffiDrained' = [m EXCEPT !.critical = Tail(@), !.run = @ + 1]
     ELSE IF ~force /\ m.normal > 0
       THEN ffiDrained' = [m EXCEPT !.normal = @ - 1, !.run = @ + 1]
     ELSE ffiDrained' = IF m.data > 0 THEN [m EXCEPT !.data = @ - 1, !.run = 0] ELSE m
  /\ cmdHistory' = IF ~force /\ m.critical # <<>>
                   THEN [cmdHistory EXCEPT !.answered[Head(m.critical)] = @ + 1] ELSE cmdHistory

\* The drain ends when the lanes are empty or the batch is full; one event is returned.
PollReturn ==
  /\ ffiPoll = 0 => ffiSynthetic = <<>>
  /\ ffiPoll = FfiDrainBatch \/ cmdResults = <<>>
  /\ MuxPop /\ ffiPoll' = 0
  /\ PollKeeps /\ UNCHANGED <<cmdResults, cmdEmitted, ffiTerminal, ffiSynthetic>>

-----------------------------------------------------------------------------
CallerStep(c) == CheckRunning(c) \/ PushCommand(c) \/ ForgetCommand(c)
StopperStep(s) == StopWait(s) \/ StopExchange(s) \/ StopTake(s) \/ StopJoin(s) \/ StopStore(s)
                  \/ CancelDrain(s) \/ CancelSettle(s)
WorkerStep == WorkerRecv \/ Dispatched \/ WorkerEmit \/ WorkerEnds
PollStep == PollSynthetic \/ DrainResult \/ (\E k \in {"normal", "data"} : DrainNoise(k)) \/ PollReturn

PipelineNext ==
  \/ \E c \in CmdCallers : CallerStep(c) \/ \E id \in CmdIds : RememberCommand(c, id)
  \/ StartExchange \/ StartFinish
  \/ \E s \in CmdStoppers : StopLoad(s) \/ StopperStep(s)
  \/ WorkerStep \/ PollStep

\* Threads that are inside a call run on; the worker is scheduled, a handler ends,
\* and the application polls again and again.
PipelineFairness ==
  /\ WF_cmdVars(StartFinish) /\ WF_cmdVars(WorkerStep) /\ WF_cmdVars(PollStep)
  /\ \A c \in CmdCallers : WF_cmdVars(CallerStep(c))
  /\ \A s \in CmdStoppers : WF_cmdVars(StopperStep(s))
PipelineSpec == PipelineInit /\ [][PipelineNext]_cmdVars /\ PipelineFairness

-----------------------------------------------------------------------------
(* Properties                                                              *)

Count(seq, id) == Cardinality({i \in DOMAIN seq : seq[i] = id})
One(b) == IF b THEN 1 ELSE 0
InMux(id) == Count(ffiSynthetic, id) + Count(ffiDrained.critical, id)
Unsettled(id) == One(id \in ffiPending) +
  Cardinality({s \in CmdStoppers : id \in cmdStopper[s].ids /\ id \notin Range(ffiTerminal)})

PipelineTypeOK ==
  /\ cmdLife \in {"created", "running", "stopping", "stopped"}
  /\ cmdTx \in BOOLEAN /\ cmdState \in BOOLEAN /\ cmdStarting \in BOOLEAN
  /\ cmdMail \in Seq(CmdIds) /\ Len(cmdMail) <= CmdMailbox
  /\ cmdWorker.at \in {"absent", "idle", "dispatch", "refuse", "emit", "gone"}
  /\ IsInjective(cmdLedger) /\ Len(cmdLedger) <= CmdMaxCompleted
  /\ ffiPending \subseteq CmdIds /\ Cardinality(ffiPending) <= FfiMaxPending
  /\ IsInjective(ffiTerminal) /\ Len(ffiTerminal) <= FfiMaxTerminal
  /\ Len(ffiDrained.critical) + ffiDrained.normal <= FfiControlItems
  /\ ffiDrained.data <= FfiDataItems /\ ffiPoll \in 0 .. FfiDrainBatch

\* A command is answered at most once for each time its id was remembered, however
\* its result races the cancellation by stop (admit_event, cancel_pending_commands).
AnsweredAtMostOnce ==
  \A id \in CmdIds : cmdHistory.answered[id] + InMux(id) + cmdHistory.lost[id] + Unsettled(id)
                     <= cmdHistory.remembered[id]

\* Every accepted command is answered, or its answer is on the way: the id is still
\* pending, so that a result or a stop settles it, or the answer is queued.  The one
\* exception is the answer the full mux refused (drain_runtime_events).
AcceptedIsTracked ==
  \A id \in CmdIds : cmdHistory.accepted[id]
     <= cmdHistory.answered[id] + InMux(id) + cmdHistory.lost[id] + Unsettled(id)

\* A command is not carried out twice until the ledger has forgotten it, which
\* takes MAX_COMPLETED_COMMANDS other commands (CommandResultLedger).
NoReexecution ==
  LET d == cmdHistory.dispatched IN
  \A i, j \in DOMAIN d : i < j /\ d[i] = d[j] => j - i > CmdMaxCompleted

\* Once the runtime is stopped no worker is left, and no sender is published.
StoppedIsQuiet ==
  cmdLife = "stopped" => cmdWorker.at \in {"absent", "gone"} /\ ~cmdTx

\* An accepted command is answered in the end, also when stop comes first.
AcceptedIsAnswered ==
  \A id \in CmdIds :
    []<>(cmdHistory.accepted[id] <= cmdHistory.answered[id] + cmdHistory.lost[id])

\* Violated.  "terminal command results cannot be dropped behind lifecycle or data traffic".
ResultsNotDropped == \A id \in CmdIds : cmdHistory.lost[id] = 0

\* From submission to poll an accepted command has its answer: tracked until it is given,
\* by a worker that carries a command out once and is gone after stop.
AnswersConsistent == PipelineTypeOK /\ AcceptedIsTracked /\ NoReexecution /\ StoppedIsQuiet
=============================================================================
