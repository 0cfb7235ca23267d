--------------------------- MODULE PeerSupervisor ---------------------------
(***************************************************************************)
(* One peer's lifecycle coordinator (connect/peer_supervisor.rs and its    *)
(* submodules attempts.rs, intents.rs and lifecycle.rs).                   *)
(*                                                                         *)
(* The supervisor is shared by several threads of a multi-threaded         *)
(* runtime: the callers of start_connect / start_business, the single      *)
(* mailbox worker, the connectivity-attempt tasks it spawns, and whoever   *)
(* reports a disconnect, a path loss, an inbound path or a stop.  `inner`, *)
(* the mailbox and `connection_task` are guarded separately, so a method   *)
(* that takes a lock twice is two steps here; between them every other     *)
(* actor may run.                                                          *)
(*                                                                         *)
(* Abstractions.  A capability mask is a set of capabilities and the None  *)
(* of an Option<PeerRequirement> is the empty set (a class never maps to   *)
(* the empty mask).  The oneshot senders drained under the lock are        *)
(* completed in the same step.  Aborting an attempt removes it: the slot   *)
(* was emptied first, so whatever it still executes finds no lease and     *)
(* returns.                                                                *)
(***************************************************************************)
EXTENDS Naturals, Sequences, FiniteSets

CONSTANTS
  Commands,        \* command ids; the ledger makes them unique
  Demands,         \* communication classes the commands ask for
  Policies,        \* maintain_connection: TRUE start_connect, FALSE start_business
  AttemptErrors,   \* core_error_for_attempt of the failures an attempt may have
  InboundCaps,     \* capability masks an authenticated inbound path may have
  AttemptIds,      \* attempt ids; an id returns once nothing refers to it
  MailboxCapacity, \* PEER_MAILBOX_CAPACITY
  MaxWaiters,      \* MAX_PEER_WAITERS
  MaxGeneration,   \* model bound: no path loss or disconnect from here on
  SpawnRefused,    \* TRUE: the task supervisor may refuse a spawn
  InstallFirst     \* TRUE: an attempt takes longer than its own installation

Caps == {"message", "stream", "datagram"}
Classes == {"ReliableMessage", "ReliableStream", "UnreliableDatagram"}
States == {"Offline", "Connecting", "Online"}
Failures == {"NoRoute", "Cancelled"}
SendErrors == {"SupervisorStopping", "MailboxFull"}

ASSUME SupervisorAssumption ==
  /\ Demands \subseteq Classes
  /\ Policies \subseteq BOOLEAN
  /\ AttemptErrors \subseteq Failures
  /\ InboundCaps \subseteq (SUBSET Caps \ {{}})
  /\ AttemptIds \subseteq Nat \ {0}
  /\ MailboxCapacity \in Nat \ {0}
  /\ MaxWaiters \in Nat \ {0}
  /\ MaxGeneration \in Nat
  /\ SpawnRefused \in BOOLEAN
  /\ InstallFirst \in BOOLEAN

\* PeerRequirement::from_class: a stream demand includes the message baseline.
FromClass(class) ==
  CASE class = "ReliableStream"     -> {"message", "stream"}
    [] class = "ReliableMessage"    -> {"message"}
    [] class = "UnreliableDatagram" -> {"datagram"}

VARIABLES
  \* PeerInner
  state, generation, activeReq, readyReq, stopping, waiters, maintain,
  children, retryScheduled,
  \* the bounded channel, its worker and whether stop() aborted the worker
  mailbox, worker, workerAborted,
  task,        \* connection_task: the installed attempt
  attempts,    \* spawned attempts that can still reach finish_attempt
  caller,      \* progress of each command through start_connect
  sweeps,      \* invalidations between unlocking `inner` and their cancel
  outcome      \* what each command's oneshot delivered

inner == <<state, generation, activeReq, readyReq, stopping, waiters,
           maintain, children, retryScheduled>>
mail  == <<mailbox, worker, workerAborted>>
vars  == <<inner, mail, task, attempts, caller, sweeps, outcome>>

-----------------------------------------------------------------------------
NoWaiter == [gen |-> 0, req |-> {}]
NoTask   == [gen |-> 0, id |-> 0, req |-> {}]
Idle     == [pc |-> "recv", gen |-> 0, req |-> {}, id |-> 0, err |-> "none"]

Intents  == [gen : Nat, req : SUBSET Caps]
Waiting  == {c \in Commands : waiters[c] # NoWaiter}
Current(gen) == ~stopping /\ generation = gen
\* saturating_sub(1) on active_children
Finished(n) == IF n = 0 THEN 0 ELSE n - 1
\* The receiver is gone: it was dropped with a refused or aborted worker.
MailboxClosed == worker.pc = "lost" \/ (workerAborted /\ worker.pc = "recv")
CanSend == ~MailboxClosed /\ Len(mailbox) < MailboxCapacity
\* Mutant: both try_send errors mapped to the admission limit.
SendErrorWrong == "ResourceLimit"
SendError == IF MailboxClosed THEN "SupervisorStopping" ELSE "MailboxFull"

Workers ==
  [pc  : {"unstarted", "lost", "recv", "cancel", "markOld", "start", "spawn",
          "refused", "fail", "install", "check", "stale", "markStale"},
   gen : Nat, req : SUBSET Caps, id : AttemptIds \cup {0},
   err : {"none", "ResourceLimit", "SupervisorStopping"}]
Tasks    == [gen : Nat, id : AttemptIds \cup {0}, req : SUBSET Caps]
Attempts == [id : AttemptIds, gen : Nat, req : SUBSET Caps,
             pc : {"run", "mark", "complete", "resend", "fail"},
             res : {"Online"} \cup Failures \cup SendErrors]
Callers  == [pc : {"idle", "begin", "read", "send", "fail", "done"},
             gen : Nat, req : SUBSET Caps, err : {"none"} \cup SendErrors]
Sweeps   == [gen : Nat, pc : {"take", "mark", "abort"}, stop : BOOLEAN]
Outcomes == {"none", "Online", "Dropped", "ResourceLimit"} \cup SendErrors \cup Failures

TypeOK ==
  /\ state \in States
  /\ generation \in Nat
  /\ activeReq \in SUBSET Caps
  /\ readyReq \in SUBSET Caps
  /\ stopping \in BOOLEAN
  /\ waiters \in [Commands -> Intents]
  /\ maintain \in BOOLEAN
  /\ children \in Nat
  /\ retryScheduled \in BOOLEAN
  /\ mailbox \in Seq(Intents)
  /\ worker \in Workers
  /\ workerAborted \in BOOLEAN
  /\ task \in Tasks
  /\ attempts \in SUBSET Attempts
  /\ caller \in [Commands -> Callers]
  /\ sweeps \in SUBSET Sweeps
  /\ outcome \in [Commands -> Outcomes]

Init ==
  /\ state = "Offline" /\ generation = 0
  /\ activeReq = {} /\ readyReq = {}
  /\ stopping = FALSE /\ maintain = FALSE
  /\ waiters = [c \in Commands |-> NoWaiter]
  /\ children = 0 /\ retryScheduled = FALSE
  /\ mailbox = <<>>
  /\ worker = [Idle EXCEPT !.pc = "unstarted"] /\ workerAborted = FALSE
  /\ task = NoTask /\ attempts = {}
  /\ caller = [c \in Commands |-> [pc |-> "idle", gen |-> 0, req |-> {}, err |-> "none"]]
  /\ sweeps = {}
  /\ outcome = [c \in Commands |-> "none"]

-----------------------------------------------------------------------------
(* Completion of waiters.                                                  *)

\* Mutant: the waiters are not drained.
DrainKeepsWaiters ==
  /\ state' = "Offline"
  /\ activeReq' = {} /\ readyReq' = {} /\ retryScheduled' = FALSE
  /\ UNCHANGED waiters

\* Offline with nobody waiting.
Drain ==
  /\ state' = "Offline"
  /\ activeReq' = {} /\ readyReq' = {} /\ retryScheduled' = FALSE
  /\ waiters' = [c \in Commands |-> NoWaiter]

Tell(who, result) ==
  outcome' = [c \in Commands |-> IF c \in who THEN result ELSE outcome[c]]

\* fail_generation: it does not look at `stopping`, and drains every waiter.
\* `self` is the caller whose own request returns the error as well.
FailGeneration(gen, err, self) ==
  IF generation # gen
  THEN UNCHANGED inner /\ Tell(self, err)
  ELSE /\ Drain
       /\ Tell(Waiting \cup self, err)
       /\ UNCHANGED <<generation, stopping, maintain, children>>

\* complete_ready with an error: a waiter of another generation is drained too,
\* and its sender dropped.
CompleteErr(gen, err) ==
  IF ~Current(gen)
  THEN UNCHANGED <<inner, outcome>>
  ELSE /\ Drain
       /\ outcome' = [c \in Commands |->
            IF c \notin Waiting THEN outcome[c]
            ELSE IF waiters[c].gen = gen THEN err ELSE "Dropped"]
       /\ UNCHANGED <<generation, stopping, maintain, children>>

\* complete_ready with Ok: only waiters of this generation that the ready
\* capabilities satisfy are completed.
Served(gen, ready) == {c \in Waiting : waiters[c].gen = gen /\ waiters[c].req \subseteq ready}
Unserved(gen, ready) == {c \in Waiting : waiters[c].gen = gen} \ Served(gen, ready)

CompleteOk(gen, ready) ==
  LET served == Served(gen, ready)
      left   == Unserved(gen, ready)
  IN /\ readyReq' = ready
     /\ waiters' = [c \in Commands |-> IF c \in served THEN NoWaiter ELSE waiters[c]]
     /\ Tell(served, "Online")
     /\ IF left # {}
        THEN state' = "Connecting" /\ retryScheduled' = TRUE /\ UNCHANGED activeReq
        ELSE state' = "Online" /\ retryScheduled' = FALSE /\ activeReq' = ready
     /\ UNCHANGED <<generation, stopping, maintain, children>>

-----------------------------------------------------------------------------
(* start_connect / start_business, run by the thread of one command.       *)

Return(c, result) ==
  /\ caller' = [caller EXCEPT ![c].pc = "done"]
  /\ outcome' = [outcome EXCEPT ![c] = result]

\* start_mailbox_worker.  The receiver is taken before the spawn, so a refused
\* spawn drops it.
StartMailboxWorker(c) ==
  /\ caller[c].pc = "idle"
  /\ UNCHANGED <<inner, mailbox, workerAborted, task, attempts, sweeps>>
  /\ \/ /\ worker.pc \notin {"unstarted", "lost"} /\ ~workerAborted
        /\ caller' = [caller EXCEPT ![c].pc = "begin"]
        /\ UNCHANGED <<worker, outcome>>
     \/ /\ worker.pc = "unstarted"
        /\ worker' = [worker EXCEPT !.pc = "recv"]
        /\ caller' = [caller EXCEPT ![c].pc = "begin"]
        /\ UNCHANGED outcome
     \/ /\ worker.pc = "unstarted" /\ SpawnRefused
        /\ worker' = [worker EXCEPT !.pc = "lost"]
        /\ Return(c, "SupervisorStopping")
     \/ /\ worker.pc = "lost" \/ workerAborted
        /\ Return(c, "SupervisorStopping")
        /\ UNCHANGED worker

\* A ready path, or an Online peer whose last known capabilities, satisfy `req`.
AlreadyReady(req) ==
  \/ readyReq # {} /\ req \subseteq readyReq
  \/ /\ state = "Online"
     /\ LET ready == IF readyReq # {} THEN readyReq ELSE activeReq
        IN ready = {} \/ req \subseteq ready

\* Mutant: a stronger demand joins without extending the active requirement.
JoinIntentNarrow(c, req) ==
  LET fresh == state # "Connecting"
      gen   == IF fresh THEN generation + 1 ELSE generation
  IN /\ state' = "Connecting"
     /\ generation' = gen
     /\ activeReq' = IF fresh THEN req ELSE activeReq
     /\ readyReq' = IF fresh THEN {} ELSE readyReq
     /\ retryScheduled' = (retryScheduled \/ fresh)
     /\ waiters' = [waiters EXCEPT ![c] = [gen |-> gen, req |-> req]]
     /\ caller' = [caller EXCEPT ![c] = [pc |-> IF fresh THEN "read" ELSE "done",
                                         gen |-> gen, req |-> req, err |-> "none"]]

\* A peer that is not Connecting starts a generation; otherwise the demand is
\* folded into the running one and queued only if that strengthens it and no
\* intent is already on its way to the worker.
JoinIntent(c, req) ==
  LET fresh    == state # "Connecting"
      active   == IF activeReq = {} THEN req ELSE activeReq
      combined == IF fresh THEN req ELSE active \cup req
      queue    == fresh \/ (combined # active /\ ~retryScheduled)
      gen      == IF fresh THEN generation + 1 ELSE generation
  IN /\ state' = "Connecting"
     /\ generation' = gen
     /\ activeReq' = IF fresh \/ combined # active THEN combined ELSE activeReq
     /\ readyReq' = IF fresh THEN {} ELSE readyReq
     /\ retryScheduled' = (retryScheduled \/ queue)
     /\ waiters' = [waiters EXCEPT ![c] = [gen |-> gen, req |-> req]]
     /\ caller' = [caller EXCEPT ![c] = [pc |-> IF queue THEN "read" ELSE "done",
                                         gen |-> gen, req |-> req, err |-> "none"]]

\* begin_connect_with_policy up to the first unlock (begin_connect: keep = TRUE,
\* ensure: keep = FALSE).  Command ids are unique, so DuplicateCommand is not met.
Begin(c, class, keep) ==
  LET req == FromClass(class) IN
  /\ caller[c].pc = "begin"
  /\ UNCHANGED <<stopping, children, mail, task, attempts, sweeps>>
  /\ \/ /\ stopping
        /\ Return(c, "SupervisorStopping")
        /\ UNCHANGED <<state, generation, activeReq, readyReq, waiters, maintain,
                       retryScheduled>>
     \/ /\ ~stopping
        /\ maintain' = (maintain \/ keep)
        /\ \/ /\ Cardinality(Waiting) >= MaxWaiters
              /\ Return(c, "ResourceLimit")
              /\ UNCHANGED <<state, generation, activeReq, readyReq, waiters,
                             retryScheduled>>
           \/ /\ Cardinality(Waiting) < MaxWaiters /\ AlreadyReady(req)
              /\ Return(c, "Online")
              /\ UNCHANGED <<state, generation, activeReq, readyReq, waiters,
                             retryScheduled>>
           \/ /\ Cardinality(Waiting) < MaxWaiters /\ ~AlreadyReady(req)
              /\ JoinIntent(c, req)
              /\ UNCHANGED outcome

\* The second lock of begin_connect_with_policy: build the intent.
ReadIntent(c) ==
  /\ caller[c].pc = "read"
  /\ caller' = [caller EXCEPT ![c].pc = "send",
                              ![c].req = IF activeReq = {} THEN @ ELSE activeReq]
  /\ UNCHANGED <<inner, mail, task, attempts, sweeps, outcome>>

\* mailbox_tx.try_send
TrySend(c) ==
  /\ caller[c].pc = "send"
  /\ IF CanSend
     THEN /\ mailbox' = Append(mailbox, [gen |-> caller[c].gen, req |-> caller[c].req])
          /\ caller' = [caller EXCEPT ![c].pc = "done"]
     ELSE /\ caller' = [caller EXCEPT ![c].pc = "fail", ![c].err = SendError]
          /\ UNCHANGED mailbox
  /\ UNCHANGED <<inner, worker, workerAborted, task, attempts, sweeps, outcome>>

FailSend(c) ==
  /\ caller[c].pc = "fail"
  /\ caller' = [caller EXCEPT ![c].pc = "done"]
  /\ FailGeneration(caller[c].gen, caller[c].err, {c})
  /\ UNCHANGED <<mail, task, attempts, sweeps>>

CallerStep(c) ==
  \/ StartMailboxWorker(c)
  \/ \E class \in Demands, keep \in Policies : Begin(c, class, keep)
  \/ ReadIntent(c)
  \/ TrySend(c)
  \/ FailSend(c)

-----------------------------------------------------------------------------
(* The mailbox worker: start_attempt.                                      *)

\* abort_now on the lease in the slot: the attempt runs no further.
AbortTask ==
  /\ attempts' = {a \in attempts : a.id # task.id}
  /\ task' = NoTask

\* Mutant: retry_scheduled stays set when the worker picks the intent up.
RecvKeepsFlag ==
  /\ worker.pc = "recv" /\ ~workerAborted /\ mailbox # <<>>
  /\ mailbox' = Tail(mailbox)
  /\ LET intent == Head(mailbox) IN
     worker' = IF Current(intent.gen)
               THEN [Idle EXCEPT !.pc = "cancel", !.gen = intent.gen,
                       !.req = IF activeReq = {} THEN intent.req ELSE activeReq]
               ELSE worker
  /\ UNCHANGED <<inner, workerAborted, task, attempts, caller, sweeps, outcome>>

\* Receive the next intent; one of a dead generation is dropped.
Recv ==
  /\ worker.pc = "recv" /\ ~workerAborted /\ mailbox # <<>>
  /\ mailbox' = Tail(mailbox)
  /\ LET intent == Head(mailbox) IN
     IF Current(intent.gen)
     THEN /\ retryScheduled' = FALSE
          /\ worker' = [Idle EXCEPT !.pc = "cancel", !.gen = intent.gen,
                          !.req = IF activeReq = {} THEN intent.req ELSE activeReq]
     ELSE UNCHANGED <<retryScheduled, worker>>
  /\ UNCHANGED <<state, generation, activeReq, readyReq, stopping, waiters, maintain,
                 children, workerAborted, task, attempts, caller, sweeps,
                 outcome>>

\* cancel_connection_task
CancelConnectionTask ==
  /\ worker.pc = "cancel"
  /\ IF task # NoTask
     THEN AbortTask /\ worker' = [worker EXCEPT !.pc = "markOld"]
     ELSE UNCHANGED <<task, attempts>> /\ worker' = [worker EXCEPT !.pc = "start"]
  /\ UNCHANGED <<inner, mailbox, workerAborted, caller, sweeps, outcome>>

\* mark_child_finished after a task was taken out of the slot by the worker.
WorkerMark ==
  /\ worker.pc \in {"markOld", "markStale", "refused"}
  /\ children' = Finished(children)
  /\ worker' = CASE worker.pc = "markOld"   -> [worker EXCEPT !.pc = "start"]
                 [] worker.pc = "markStale" -> Idle
                 [] worker.pc = "refused"   -> [worker EXCEPT !.pc = "fail",
                                                  !.err = "SupervisorStopping"]
  /\ UNCHANGED <<state, generation, activeReq, readyReq, stopping, waiters, maintain,
                 retryScheduled, mailbox, workerAborted, task, attempts,
                 caller, sweeps, outcome>>

\* mark_child_started
MarkChildStarted ==
  /\ worker.pc = "start"
  /\ IF children >= 1
     THEN /\ worker' = [worker EXCEPT !.pc = "fail", !.err = "ResourceLimit"]
          /\ UNCHANGED children
     ELSE /\ worker' = [worker EXCEPT !.pc = "spawn"]
          /\ children' = children + 1
  /\ UNCHANGED <<state, generation, activeReq, readyReq, stopping, waiters, maintain,
                 retryScheduled, mailbox, workerAborted, task, attempts,
                 caller, sweeps, outcome>>

\* spawn_session_controlled: the attempt runs from here on, before its lease is
\* in the slot.
FreshIds == AttemptIds \ ({task.id, worker.id} \cup {a.id : a \in attempts})

SpawnAttempt ==
  /\ worker.pc = "spawn"
  /\ \/ /\ FreshIds # {}
        /\ LET id == CHOOSE i \in FreshIds : TRUE IN
           /\ worker' = [worker EXCEPT !.pc = "install", !.id = id]
           /\ attempts' = attempts \cup
                {[id |-> id, gen |-> worker.gen, req |-> worker.req,
                  pc |-> "run", res |-> "Online"]}
     \/ /\ SpawnRefused
        /\ worker' = [worker EXCEPT !.pc = "refused"]
        /\ UNCHANGED attempts
  /\ UNCHANGED <<inner, mailbox, workerAborted, task, caller, sweeps, outcome>>

\* connection_task.replace
InstallTask ==
  /\ worker.pc = "install"
  /\ task' = [gen |-> worker.gen, id |-> worker.id, req |-> worker.req]
  /\ worker' = [worker EXCEPT !.pc = "check"]
  /\ UNCHANGED <<inner, mailbox, workerAborted, attempts, caller, sweeps,
                 outcome>>

\* is_current after the installation, and the cancel of a generation that died.
CheckCurrent ==
  /\ worker.pc = "check"
  /\ worker' = IF Current(worker.gen) THEN Idle ELSE [worker EXCEPT !.pc = "stale"]
  /\ UNCHANGED <<inner, mailbox, workerAborted, task, attempts, caller,
                 sweeps, outcome>>

CancelStale ==
  /\ worker.pc = "stale"
  /\ IF task # NoTask /\ task.gen = worker.gen
     THEN AbortTask /\ worker' = [worker EXCEPT !.pc = "markStale"]
     ELSE UNCHANGED <<task, attempts>> /\ worker' = Idle
  /\ UNCHANGED <<inner, mailbox, workerAborted, caller, sweeps, outcome>>

\* complete_attempt_without_task
CompleteWithoutTask ==
  /\ worker.pc = "fail"
  /\ worker' = Idle
  /\ CompleteErr(worker.gen, worker.err)
  /\ UNCHANGED <<mailbox, workerAborted, task, attempts, caller, sweeps>>

WorkerStep ==
  \/ Recv
  \/ CancelConnectionTask
  \/ WorkerMark
  \/ MarkChildStarted
  \/ SpawnAttempt
  \/ InstallTask
  \/ CheckCurrent
  \/ CancelStale
  \/ CompleteWithoutTask

-----------------------------------------------------------------------------
(* A connectivity attempt: finish_attempt.                                 *)

Advance(a, b) == attempts' = (attempts \ {a}) \cup {b}

\* take_connection_task: an attempt that finds no lease of its own returns.
FinishAttempt(a, result) ==
  /\ a.pc = "run"
  /\ InstallFirst => ~(worker.pc = "install" /\ worker.id = a.id)
  /\ IF task.gen = a.gen /\ task.id = a.id
     THEN task' = NoTask /\ Advance(a, [a EXCEPT !.pc = "mark", !.res = result])
     ELSE attempts' = attempts \ {a} /\ UNCHANGED task
  /\ UNCHANGED <<inner, mail, caller, sweeps, outcome>>

\* Mutant: finish_attempt forgets mark_child_finished.
AttemptMarkForgotten(a) ==
  /\ a.pc = "mark"
  /\ Advance(a, [a EXCEPT !.pc = "complete"])
  /\ UNCHANGED <<inner, mail, task, caller, sweeps, outcome>>

AttemptMark(a) ==
  /\ a.pc = "mark"
  /\ children' = Finished(children)
  /\ Advance(a, [a EXCEPT !.pc = "complete"])
  /\ UNCHANGED <<state, generation, activeReq, readyReq, stopping, waiters, maintain,
                 retryScheduled, mail, task, caller, sweeps, outcome>>

\* complete_ready; waiters the ready path does not satisfy ask for a retry.
CompleteReady(a) ==
  LET retry == Unserved(a.gen, a.req) # {} /\ ~retryScheduled
      wanted == IF activeReq = {} THEN a.req ELSE activeReq
  IN
  /\ a.pc = "complete"
  /\ \/ /\ ~Current(a.gen)
        /\ attempts' = attempts \ {a}
        /\ UNCHANGED <<inner, outcome>>
     \/ /\ Current(a.gen) /\ a.res # "Online"
        /\ attempts' = attempts \ {a}
        /\ CompleteErr(a.gen, a.res)
     \/ /\ Current(a.gen) /\ a.res = "Online"
        /\ IF retry THEN Advance(a, [a EXCEPT !.pc = "resend", !.req = wanted])
                    ELSE attempts' = attempts \ {a}
        /\ CompleteOk(a.gen, a.req)
  /\ UNCHANGED <<mail, task, caller, sweeps>>

Resend(a) ==
  /\ a.pc = "resend"
  /\ IF CanSend
     THEN /\ mailbox' = Append(mailbox, [gen |-> a.gen, req |-> a.req])
          /\ attempts' = attempts \ {a}
     ELSE /\ Advance(a, [a EXCEPT !.pc = "fail", !.res = SendError])
          /\ UNCHANGED mailbox
  /\ UNCHANGED <<inner, worker, workerAborted, task, caller, sweeps, outcome>>

FailResend(a) ==
  /\ a.pc = "fail"
  /\ attempts' = attempts \ {a}
  /\ FailGeneration(a.gen, a.res, {})
  /\ UNCHANGED <<mail, task, caller, sweeps>>

AttemptStep ==
  \E a \in attempts :
    \/ \E result \in {"Online"} \cup AttemptErrors : FinishAttempt(a, result)
    \/ AttemptMark(a)
    \/ CompleteReady(a)
    \/ Resend(a)
    \/ FailResend(a)

-----------------------------------------------------------------------------
(* disconnect, path_lost, stop and admit_inbound.                          *)

\* invalidate_generation up to the unlock; the sweep is the rest of the method.
Invalidate(stop, err) ==
  /\ generation' = generation + 1
  /\ Drain
  /\ Tell(Waiting, err)
  /\ sweeps' = sweeps \cup {[gen |-> generation, pc |-> "take", stop |-> stop]}
  /\ UNCHANGED <<children, mail, task, attempts, caller>>

\* Both calls are ignored once the supervisor is stopping.
Disconnect ==
  /\ ~stopping /\ generation < MaxGeneration
  /\ Invalidate(FALSE, "Cancelled")
  /\ maintain' = FALSE
  /\ UNCHANGED stopping

PathLost ==
  /\ ~stopping /\ generation < MaxGeneration
  /\ Invalidate(FALSE, "Cancelled")
  /\ UNCHANGED <<stopping, maintain>>

Stop ==
  /\ ~stopping \/ generation < MaxGeneration
  /\ Invalidate(TRUE, "SupervisorStopping")
  /\ stopping' = TRUE /\ maintain' = FALSE

\* admit_inbound_with_capabilities for an authenticated path.
AdmitInbound(caps) ==
  /\ ~stopping
  /\ state' = "Online" /\ activeReq' = caps /\ readyReq' = caps
  /\ UNCHANGED <<generation, stopping, waiters, maintain, children, retryScheduled,
                 mail, task, attempts, caller, sweeps, outcome>>

\* cancel_connection_task_for, then cancel_mailbox_worker for a stop.
SweepRest(s) ==
  (sweeps \ {s}) \cup (IF s.stop THEN {[s EXCEPT !.pc = "abort"]} ELSE {})

\* Mutant: the taken task is aborted without mark_child_finished.
SweepTakeForgetsMark(s) ==
  /\ s.pc = "take"
  /\ IF task # NoTask /\ task.gen = s.gen THEN AbortTask ELSE UNCHANGED <<task, attempts>>
  /\ sweeps' = SweepRest(s)
  /\ UNCHANGED <<inner, mail, caller, outcome>>

SweepTake(s) ==
  /\ s.pc = "take"
  /\ IF task # NoTask /\ task.gen = s.gen
     THEN AbortTask /\ sweeps' = (sweeps \ {s}) \cup {[s EXCEPT !.pc = "mark"]}
     ELSE UNCHANGED <<task, attempts>> /\ sweeps' = SweepRest(s)
  /\ UNCHANGED <<inner, mail, caller, outcome>>

SweepMark(s) ==
  /\ s.pc = "mark"
  /\ children' = Finished(children)
  /\ sweeps' = SweepRest(s)
  /\ UNCHANGED <<state, generation, activeReq, readyReq, stopping, waiters, maintain,
                 retryScheduled, mail, task, attempts, caller, outcome>>

SweepAbort(s) ==
  /\ s.pc = "abort"
  /\ workerAborted' = (workerAborted \/ worker.pc \notin {"unstarted", "lost"})
  /\ sweeps' = sweeps \ {s}
  /\ UNCHANGED <<inner, mailbox, worker, task, attempts, caller, outcome>>

SweepStep == \E s \in sweeps : SweepTake(s) \/ SweepMark(s) \/ SweepAbort(s)

Environment ==
  \/ Disconnect
  \/ PathLost
  \/ Stop
  \/ \E caps \in InboundCaps : AdmitInbound(caps)

-----------------------------------------------------------------------------
Next ==
  \/ \E c \in Commands : CallerStep(c)
  \/ WorkerStep
  \/ AttemptStep
  \/ SweepStep
  \/ Environment

\* A started thread keeps running, and an attempt ends within
\* OVERALL_CONNECT_BUDGET; nobody has to call in or to report anything.
Fairness ==
  /\ \A c \in Commands : WF_vars(caller[c].pc # "idle" /\ CallerStep(c))
  /\ WF_vars(WorkerStep)
  /\ WF_vars(AttemptStep)
  /\ WF_vars(SweepStep)

Spec == Init /\ [][Next]_vars
FairSpec == Spec /\ Fairness

-----------------------------------------------------------------------------
(* Properties.                                                             *)

WorkerHolds == {"markOld", "spawn", "refused", "install", "markStale"}

\* Everything that will still call mark_child_finished for a counted child.
Owners ==
  {<<"slot", t>> : t \in {task} \ {NoTask}}
    \cup {<<"worker", w>> : w \in {v \in {worker} : v.pc \in WorkerHolds}}
    \cup {<<"attempt", a>> : a \in {b \in attempts : b.pc = "mark"}}
    \cup {<<"sweep", s>> : s \in {r \in sweeps : r.pc = "mark"}}

\* active_children counts exactly the connectivity attempts somebody still
\* owns: whichever of the worker, the attempt itself, a disconnect and a stop
\* wins the lease also gives the count back, once, and never two of them.
ChildAccounting ==
  \/ children = 0 /\ Owners = {}
  \/ children = 1 /\ \E o \in Owners : Owners = {o}

\* Intents of generation `gen` that are on their way to the worker.
InFlight(gen) ==
  \/ \E i \in DOMAIN mailbox : mailbox[i].gen = gen
  \/ \E c \in Commands : caller[c].gen = gen /\ caller[c].pc \in {"read", "send", "fail"}
  \/ \E a \in attempts : a.gen = gen /\ a.pc \in {"resend", "fail"}

\* retry_scheduled is only ever left set while an intent of this generation is
\* really on its way, since a set flag makes begin_connect_with_policy and
\* complete_ready skip the enqueue.
RetryFlagIsHonest ==
  retryScheduled /\ ~stopping => InFlight(generation) \/ MailboxClosed

\* A waiter belongs to the generation that is current ("callers waiting for one
\* peer's current intent"), so that the next completion reaches it.
WaitersAreCurrent == \A c \in Waiting : waiters[c].gen = generation

\* The requirement an attempt of the current generation will be started with
\* covers every waiter of the generation.
ActiveCoversWaiters ==
  state = "Connecting" =>
    \A c \in Waiting : waiters[c].gen = generation => waiters[c].req \subseteq activeReq

\* After stop() nothing of the peer runs on: once the worker is between
\* intents and the cancels are through, no attempt is installed or counted and
\* nobody waits.
StopLeavesNothing ==
  stopping /\ sweeps = {} /\ worker.pc \in {"unstarted", "lost", "recv"}
      /\ (\A a \in attempts : a.pc = "run")
    => task = NoTask /\ children = 0 /\ attempts = {} /\ Waiting = {}

\* A Ready peer is not declared Offline within its generation: a late failure
\* of a superseded attempt or of a caller's enqueue cannot take it down.
OnlineOutlivesFailures ==
  [][state = "Online" /\ state' = "Offline" => generation' # generation]_vars

\* A stopped peer winds down: no attempt is left running, installed or counted,
\* and none is started again.
StopQuiesces ==
  stopping ~> [](task = NoTask /\ children = 0 /\ attempts = {} /\ Waiting = {})

\* Every accepted command is settled: Online, failed or cancelled.
ConnectSettles == \A c \in Commands : c \in Waiting ~> c \notin Waiting

\* Nobody waits in vain: a waiter is of the current generation, so that the next
\* completion reaches it, and the attempt that is under way covers what it needs.
WaitersAreServed == WaitersAreCurrent /\ ActiveCoversWaiters

\* The supervisor owes two things eventually: an answer to every accepted command,
\* and rest after a stop.
SupervisorSettles == ConnectSettles /\ StopQuiesces
=============================================================================
