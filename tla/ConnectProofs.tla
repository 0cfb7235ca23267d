--------------------------- MODULE ConnectProofs ----------------------------
(***************************************************************************)
(* Safety proofs about PeerSupervisor, for every set of commands, demands  *)
(* and inbound masks, every mailbox capacity and waiter limit, and every   *)
(* interleaving of the lock sections; and about ConnectAttempt, for every  *)
(* set of drivers, every history of the peer and every interleaving of     *)
(* their steps with path loss, cancellation and expiry.                    *)
(***************************************************************************)
EXTENDS PeerSupervisor, ConnectAttempt, SequenceTheorems, TLAPS

LEMMA FromClassType ==
  ASSUME NEW class \in Demands
  PROVE  FromClass(class) \in SUBSET Caps
BY SupervisorAssumption DEF FromClass, Classes, Caps

(* What the completion helpers do to `inner` and to the callers' outcomes. *)
InnerType ==
  /\ state \in States
  /\ generation \in Nat
  /\ activeReq \in SUBSET Caps
  /\ readyReq \in SUBSET Caps
  /\ stopping \in BOOLEAN
  /\ waiters \in [Commands -> Intents]
  /\ maintain \in BOOLEAN
  /\ children \in Nat
  /\ retryScheduled \in BOOLEAN
  /\ outcome \in [Commands -> Outcomes]

LEMMA DrainType ==
  ASSUME Drain
  PROVE  /\ state' \in States /\ activeReq' \in SUBSET Caps /\ readyReq' \in SUBSET Caps
         /\ retryScheduled' \in BOOLEAN /\ waiters' \in [Commands -> Intents]
BY DEF Drain, States, Intents, NoWaiter

LEMMA TellType ==
  ASSUME TypeOK, NEW who, NEW result \in Outcomes, Tell(who, result)
  PROVE  outcome' \in [Commands -> Outcomes]
BY DEF TypeOK, Tell

LEMMA FailGenerationType ==
  ASSUME TypeOK, NEW gen, NEW err \in Outcomes, NEW self, FailGeneration(gen, err, self)
  PROVE  InnerType'
<1> USE DEF TypeOK, InnerType
<1>1. CASE generation # gen
  <2>1. UNCHANGED inner /\ Tell(self, err)
    BY <1>1 DEF FailGeneration
  <2> QED
    BY <2>1, TellType DEF inner
<1>2. CASE generation = gen
  <2>1. /\ Drain /\ Tell(Waiting \cup self, err)
        /\ UNCHANGED <<generation, stopping, maintain, children>>
    BY <1>2 DEF FailGeneration
  <2> QED
    BY <2>1, DrainType, TellType
<1> QED
  BY <1>1, <1>2

LEMMA CompleteErrType ==
  ASSUME TypeOK, NEW gen, NEW err \in Outcomes, CompleteErr(gen, err)
  PROVE  InnerType'
<1> USE DEF TypeOK, InnerType
<1>1. CASE ~Current(gen)
  <2>1. UNCHANGED <<inner, outcome>>
    BY <1>1 DEF CompleteErr
  <2> QED
    BY <2>1 DEF inner
<1>2. CASE Current(gen)
  <2>1. Drain /\ UNCHANGED <<generation, stopping, maintain, children>>
    BY <1>2 DEF CompleteErr
  <2>2. outcome' \in [Commands -> Outcomes]
    BY <1>2 DEF CompleteErr, Outcomes
  <2> QED
    BY <2>1, <2>2, DrainType
<1> QED
  BY <1>1, <1>2

LEMMA CompleteOkType ==
  ASSUME TypeOK, NEW gen, NEW ready \in SUBSET Caps, CompleteOk(gen, ready)
  PROVE  InnerType'
<1> USE DEF TypeOK, InnerType
<1>1. outcome' \in [Commands -> Outcomes]
  BY TellType DEF CompleteOk, Outcomes
<1>2. waiters' \in [Commands -> Intents]
  BY DEF CompleteOk, Intents, NoWaiter
<1>3. state' \in States /\ activeReq' \in SUBSET Caps /\ readyReq' \in SUBSET Caps
  BY DEF CompleteOk, States
<1>4. retryScheduled' \in BOOLEAN
  BY DEF CompleteOk
<1>5. UNCHANGED <<generation, stopping, maintain, children>>
  BY DEF CompleteOk
<1> QED
  BY <1>1, <1>2, <1>3, <1>4, <1>5

LEMMA InitType == Init => TypeOK
<1> SUFFICES ASSUME Init PROVE TypeOK
  OBVIOUS
<1>1. worker \in Workers
  BY DEF Init, Idle, Workers
<1>2. task \in Tasks
  BY DEF Init, NoTask, Tasks
<1>3. caller \in [Commands -> Callers]
  BY DEF Init, Callers
<1>4. waiters \in [Commands -> Intents]
  BY DEF Init, NoWaiter, Intents
<1>5. outcome \in [Commands -> Outcomes]
  BY DEF Init, Outcomes
<1>6. /\ stopping \in BOOLEAN /\ maintain \in BOOLEAN
      /\ retryScheduled \in BOOLEAN /\ workerAborted \in BOOLEAN
  BY DEF Init
<1>7. mailbox \in Seq(Intents)
  BY DEF Init
<1>8. state \in States /\ generation \in Nat /\ children \in Nat
  BY DEF Init, States
<1>9. activeReq \in SUBSET Caps /\ readyReq \in SUBSET Caps
  BY DEF Init
<1>10. attempts \in SUBSET Attempts /\ sweeps \in SUBSET Sweeps
  BY DEF Init
<1> QED
  BY <1>1, <1>2, <1>3, <1>4, <1>5, <1>6, <1>7, <1>8, <1>9, <1>10 DEF TypeOK

LEMMA CallerType ==
  ASSUME TypeOK, NEW c \in Commands, CallerStep(c)
  PROVE  TypeOK'
<1> USE DEF TypeOK
<1>1. CASE StartMailboxWorker(c)
  <2>1. worker' \in Workers
    BY <1>1 DEF StartMailboxWorker, Workers
  <2>2. UNCHANGED <<inner, mailbox, workerAborted, task, attempts, sweeps>>
    BY <1>1 DEF StartMailboxWorker
  <2>3. CASE /\ caller' = [caller EXCEPT ![c].pc = "begin"]
             /\ UNCHANGED outcome
    <3>1. caller' \in [Commands -> Callers]
      BY <2>3 DEF Callers
    <3> QED
      BY <2>1, <2>2, <2>3, <3>1, Zenon DEF inner
  <2>4. CASE Return(c, "SupervisorStopping")
    <3>1. caller' \in [Commands -> Callers] /\ outcome' \in [Commands -> Outcomes]
      BY <2>4 DEF Return, Callers, Outcomes, SendErrors
    <3> QED
      BY <2>1, <2>2, <3>1, Zenon DEF inner
  <2> QED
    BY <1>1, <2>3, <2>4 DEF StartMailboxWorker
<1>2. ASSUME NEW class \in Demands, NEW keep \in Policies, Begin(c, class, keep)
      PROVE  TypeOK'
  <2> DEFINE req == FromClass(class)
  <2>1. req \in SUBSET Caps
    BY FromClassType
  <2>2. maintain' \in BOOLEAN
    <3>1. keep \in BOOLEAN
      BY SupervisorAssumption
    <3> QED
      BY <1>2, <3>1, Zenon DEF Begin
  <2>3. UNCHANGED <<stopping, children, mail, task, attempts, sweeps>>
    BY <1>2 DEF Begin
  <2>4. CASE JoinIntent(c, req) /\ UNCHANGED outcome
    <3>1. caller' \in [Commands -> Callers] /\ waiters' \in [Commands -> Intents]
      BY <2>1, <2>4 DEF JoinIntent, Callers, Intents
    <3>2. /\ state' \in States /\ generation' \in Nat
          /\ activeReq' \in SUBSET Caps /\ readyReq' \in SUBSET Caps
      BY <2>1, <2>4 DEF JoinIntent, States
    <3>3. retryScheduled' \in BOOLEAN
      BY <2>4, Zenon DEF JoinIntent
    <3>4. UNCHANGED outcome
      BY <2>4
    <3> QED
      BY <2>2, <2>3, <3>1, <3>2, <3>3, <3>4 DEF mail
  <2>5. CASE /\ UNCHANGED <<state, generation, activeReq, readyReq, waiters,
                            retryScheduled>>
             /\ \E result \in {"SupervisorStopping", "ResourceLimit", "Online"} :
                  Return(c, result)
    <3>1. caller' \in [Commands -> Callers] /\ outcome' \in [Commands -> Outcomes]
      BY <2>5, ZenonT(30) DEF Return, Callers, Outcomes, SendErrors
    <3>2. UNCHANGED <<state, generation, activeReq, readyReq, waiters, retryScheduled>>
      BY <2>5
    <3> QED
      BY <2>2, <2>3, <3>1, <3>2 DEF mail
  <2> QED
    BY <1>2, <2>4, <2>5 DEF Begin
<1>3. CASE ReadIntent(c)
  <2>1. caller' \in [Commands -> Callers]
    BY <1>3, ZenonT(30) DEF ReadIntent, Callers
  <2>2. UNCHANGED <<inner, mail, task, attempts, sweeps, outcome>>
    BY <1>3 DEF ReadIntent
  <2> QED
    BY <2>1, <2>2 DEF inner, mail
<1>4. CASE TrySend(c)
  <2>1. caller' \in [Commands -> Callers]
    BY <1>4 DEF TrySend, Callers, SendError, SendErrors
  <2>2. mailbox' \in Seq(Intents)
    <3>1. [gen |-> caller[c].gen, req |-> caller[c].req] \in Intents
      BY DEF Callers, Intents
    <3> QED
      BY <1>4, <3>1 DEF TrySend
  <2>3. UNCHANGED <<inner, worker, workerAborted, task, attempts, sweeps, outcome>>
    BY <1>4 DEF TrySend
  <2> QED
    BY <2>1, <2>2, <2>3, Zenon DEF inner
<1>5. CASE FailSend(c)
  <2>1. caller' \in [Commands -> Callers]
    BY <1>5 DEF FailSend, Callers
  <2>2. caller[c].err \in Outcomes
    BY DEF Callers, Outcomes
  <2>3. FailGeneration(caller[c].gen, caller[c].err, {c})
    BY <1>5 DEF FailSend
  <2>4. InnerType'
    BY <2>2, <2>3, FailGenerationType
  <2>5. UNCHANGED <<mail, task, attempts, sweeps>>
    BY <1>5 DEF FailSend
  <2> QED
    BY <2>1, <2>4, <2>5 DEF mail, InnerType
<1> QED
  BY <1>1, <1>2, <1>3, <1>4, <1>5 DEF CallerStep

LEMMA IdleType == Idle \in Workers
BY DEF Idle, Workers

LEMMA AbortType ==
  ASSUME TypeOK, AbortTask
  PROVE  attempts' \in SUBSET Attempts /\ task' \in Tasks
BY DEF TypeOK, AbortTask, Tasks, NoTask

LEMMA WorkerType ==
  ASSUME TypeOK, WorkerStep
  PROVE  TypeOK'
<1> USE DEF TypeOK
<1>1. CASE Recv
  <2>1. mailbox' \in Seq(Intents) /\ Head(mailbox) \in Intents
    BY <1>1 DEF Recv
  <2>2. worker' \in Workers
    BY <1>1, <2>1, IdleType DEF Recv, Workers, Idle, Intents
  <2>3. retryScheduled' \in BOOLEAN
    BY <1>1 DEF Recv
  <2>4. UNCHANGED <<state, generation, activeReq, readyReq, stopping, waiters, maintain,
                    children, workerAborted, task, attempts, caller, sweeps, outcome>>
    BY <1>1 DEF Recv
  <2> QED
    BY <2>1, <2>2, <2>3, <2>4
<1>2. CASE CancelConnectionTask \/ CancelStale
  <2>1. worker' \in Workers
    BY <1>2, IdleType DEF CancelConnectionTask, CancelStale, Workers
  <2>2. task' \in Tasks /\ attempts' \in SUBSET Attempts
    BY <1>2, AbortType DEF CancelConnectionTask, CancelStale
  <2>3. UNCHANGED <<inner, mailbox, workerAborted, caller, sweeps, outcome>>
    BY <1>2 DEF CancelConnectionTask, CancelStale
  <2> QED
    BY <2>1, <2>2, <2>3 DEF inner
<1>3. CASE WorkerMark \/ MarkChildStarted
  <2>1. worker' \in Workers
    BY <1>3, IdleType, ZenonT(30) DEF WorkerMark, MarkChildStarted, Workers
  <2>2. children' \in Nat
    BY <1>3 DEF WorkerMark, MarkChildStarted, Finished
  <2>3. UNCHANGED <<state, generation, activeReq, readyReq, stopping, waiters, maintain,
                    retryScheduled, mailbox, workerAborted, task, attempts, caller,
                    sweeps, outcome>>
    BY <1>3 DEF WorkerMark, MarkChildStarted
  <2> QED
    BY <2>1, <2>2, <2>3
<1>4. CASE SpawnAttempt
  <2>1. worker' \in Workers /\ attempts' \in SUBSET Attempts
    <3>1. CASE FreshIds # {}
      <4> DEFINE id == CHOOSE i \in FreshIds : TRUE
      <4>1. id \in AttemptIds
        BY <3>1 DEF FreshIds
      <4> HIDE DEF id
      <4>2. [id |-> id, gen |-> worker.gen, req |-> worker.req, pc |-> "run",
             res |-> "Online"] \in Attempts
        BY <4>1 DEF Workers, Attempts
      <4>3. [worker EXCEPT !.pc = "install", !.id = id] \in Workers
        BY <4>1 DEF Workers
      <4>4. [worker EXCEPT !.pc = "refused"] \in Workers
        BY DEF Workers
      <4> QED
        BY <1>4, <4>2, <4>3, <4>4 DEF SpawnAttempt, id
    <3>2. CASE FreshIds = {}
      BY <1>4, <3>2 DEF SpawnAttempt, Workers
    <3> QED
      BY <3>1, <3>2
  <2>2. UNCHANGED <<inner, mailbox, workerAborted, task, caller, sweeps, outcome>>
    BY <1>4 DEF SpawnAttempt
  <2> QED
    BY <2>1, <2>2 DEF inner
<1>5. CASE InstallTask \/ CheckCurrent
  <2>1. worker' \in Workers
    BY <1>5, IdleType DEF InstallTask, CheckCurrent, Workers
  <2>2. task' \in Tasks
    BY <1>5 DEF InstallTask, CheckCurrent, Workers, Tasks
  <2>3. UNCHANGED <<inner, mailbox, workerAborted, attempts, caller, sweeps, outcome>>
    BY <1>5 DEF InstallTask, CheckCurrent
  <2> QED
    BY <2>1, <2>2, <2>3 DEF inner
<1>6. CASE CompleteWithoutTask
  <2>1. worker' \in Workers
    BY <1>6, IdleType DEF CompleteWithoutTask
  <2>2. CASE worker.err \in Outcomes
    <3>1. InnerType'
      BY <1>6, <2>2, CompleteErrType DEF CompleteWithoutTask
    <3>2. UNCHANGED <<mailbox, workerAborted, task, attempts, caller, sweeps>>
      BY <1>6 DEF CompleteWithoutTask
    <3> QED
      BY <2>1, <3>1, <3>2 DEF InnerType
  <2>3. worker.err \in Outcomes
    BY DEF Workers, Outcomes, SendErrors
  <2> QED
    BY <2>2, <2>3
<1> QED
  BY <1>1, <1>2, <1>3, <1>4, <1>5, <1>6 DEF WorkerStep

LEMMA AttemptType ==
  ASSUME TypeOK, AttemptStep
  PROVE  TypeOK'
<1> USE DEF TypeOK
<1> PICK a \in attempts :
      \/ \E result \in {"Online"} \cup AttemptErrors : FinishAttempt(a, result)
      \/ AttemptMark(a)
      \/ CompleteReady(a)
      \/ Resend(a)
      \/ FailResend(a)
  BY DEF AttemptStep
<1>1. ASSUME NEW result \in {"Online"} \cup AttemptErrors, FinishAttempt(a, result)
      PROVE  TypeOK'
  <2>1. [a EXCEPT !.pc = "mark", !.res = result] \in Attempts
    BY SupervisorAssumption, ZenonT(30) DEF Attempts
  <2>2. attempts' \in SUBSET Attempts
    BY <1>1, <2>1 DEF FinishAttempt, Advance
  <2>3. task' \in Tasks
    <3>1. NoTask \in Tasks
      BY DEF Tasks, NoTask
    <3>2. task' = NoTask \/ task' = task
      BY <1>1 DEF FinishAttempt
    <3> QED
      BY <3>1, <3>2
  <2>4. UNCHANGED <<inner, mail, caller, sweeps, outcome>>
    BY <1>1 DEF FinishAttempt
  <2> QED
    BY <2>2, <2>3, <2>4 DEF inner, mail
<1>2. CASE AttemptMark(a)
  <2>1. [a EXCEPT !.pc = "complete"] \in Attempts
    BY DEF Attempts
  <2>2. attempts' \in SUBSET Attempts /\ children' \in Nat
    BY <1>2, <2>1 DEF AttemptMark, Advance, Finished
  <2>3. UNCHANGED <<state, generation, activeReq, readyReq, stopping, waiters, maintain,
                    retryScheduled, mail, task, caller, sweeps, outcome>>
    BY <1>2 DEF AttemptMark
  <2> QED
    BY <2>2, <2>3 DEF mail
<1>3. CASE CompleteReady(a)
  <2>1. a.req \in SUBSET Caps /\ a.res \in Outcomes
    BY DEF Attempts, Outcomes
  <2>2. \A wanted \in SUBSET Caps : [a EXCEPT !.pc = "resend", !.req = wanted] \in Attempts
    BY DEF Attempts
  <2>3. attempts' \in SUBSET Attempts
    <3> DEFINE wanted == IF activeReq = {} THEN a.req ELSE activeReq
    <3>1. wanted \in SUBSET Caps
      BY <2>1
    <3>2. \/ attempts' = attempts \ {a}
          \/ Advance(a, [a EXCEPT !.pc = "resend", !.req = wanted])
      BY <1>3 DEF CompleteReady
    <3>3. [a EXCEPT !.pc = "resend", !.req = wanted] \in Attempts
      BY <2>2, <3>1
    <3> DEFINE b == [a EXCEPT !.pc = "resend", !.req = wanted]
    <3>4. attempts' \subseteq attempts \cup {b} /\ b \in Attempts
      BY <3>2, <3>3 DEF Advance
    <3> HIDE DEF b
    <3> QED
      BY <3>4
  <2>4. InnerType'
    <3>1. CASE UNCHANGED <<inner, outcome>>
      BY <3>1 DEF inner, InnerType
    <3>2. CASE CompleteErr(a.gen, a.res)
      BY <2>1, <3>2, CompleteErrType
    <3>3. CASE CompleteOk(a.gen, a.req)
      BY <2>1, <3>3, CompleteOkType
    <3> QED
      BY <1>3, <3>1, <3>2, <3>3 DEF CompleteReady
  <2>5. UNCHANGED <<mail, task, caller, sweeps>>
    BY <1>3 DEF CompleteReady
  <2> QED
    BY <2>3, <2>4, <2>5 DEF mail, InnerType
<1>4. CASE Resend(a)
  <2>1. /\ [a EXCEPT !.pc = "fail", !.res = SendError] \in Attempts
        /\ [gen |-> a.gen, req |-> a.req] \in Intents
    BY DEF Attempts, Intents, SendError, SendErrors
  <2>2. attempts' \in SUBSET Attempts /\ mailbox' \in Seq(Intents)
    <3> DEFINE b == [a EXCEPT !.pc = "fail", !.res = SendError]
               i == [gen |-> a.gen, req |-> a.req]
    <3>1. \/ mailbox' = Append(mailbox, i) /\ attempts' = attempts \ {a}
          \/ mailbox' = mailbox /\ attempts' = (attempts \ {a}) \cup {b}
      BY <1>4 DEF Resend, Advance
    <3>2. b \in Attempts /\ i \in Intents
      BY <2>1
    <3> HIDE DEF b, i
    <3> QED
      BY <3>1, <3>2
  <2>3. UNCHANGED <<inner, worker, workerAborted, task, caller, sweeps, outcome>>
    BY <1>4 DEF Resend
  <2> QED
    BY <2>2, <2>3 DEF inner
<1>5. CASE FailResend(a)
  <2>1. a.res \in Outcomes
    BY DEF Attempts, Outcomes
  <2>2. InnerType'
    BY <1>5, <2>1, FailGenerationType DEF FailResend
  <2>3. attempts' \in SUBSET Attempts /\ UNCHANGED <<mail, task, caller, sweeps>>
    BY <1>5 DEF FailResend
  <2> QED
    BY <2>2, <2>3 DEF mail, InnerType
<1> QED
  BY <1>1, <1>2, <1>3, <1>4, <1>5

LEMMA SweepType ==
  ASSUME TypeOK, SweepStep
  PROVE  TypeOK'
<1> USE DEF TypeOK
<1> PICK s \in sweeps : SweepTake(s) \/ SweepMark(s) \/ SweepAbort(s)
  BY DEF SweepStep
<1>1. SweepRest(s) \in SUBSET Sweeps
  <2>1. [s EXCEPT !.pc = "abort"] \in Sweeps
    BY DEF Sweeps
  <2> QED
    BY <2>1 DEF SweepRest
<1>2. CASE SweepTake(s)
  <2>1. [s EXCEPT !.pc = "mark"] \in Sweeps
    BY DEF Sweeps
  <2>2. sweeps' \in SUBSET Sweeps
    BY <1>1, <1>2, <2>1 DEF SweepTake
  <2>3. task' \in Tasks /\ attempts' \in SUBSET Attempts
    BY <1>2, AbortType DEF SweepTake
  <2>4. UNCHANGED <<inner, mail, caller, outcome>>
    BY <1>2 DEF SweepTake
  <2> QED
    BY <2>2, <2>3, <2>4 DEF inner, mail
<1>3. CASE SweepMark(s)
  <2>1. sweeps' \in SUBSET Sweeps /\ children' \in Nat
    BY <1>1, <1>3 DEF SweepMark, Finished
  <2>2. UNCHANGED <<state, generation, activeReq, readyReq, stopping, waiters, maintain,
                    retryScheduled, mail, task, attempts, caller, outcome>>
    BY <1>3 DEF SweepMark
  <2> QED
    BY <2>1, <2>2 DEF mail
<1>4. CASE SweepAbort(s)
  <2>1. sweeps' \in SUBSET Sweeps
    BY <1>4 DEF SweepAbort
  <2>2. workerAborted' \in BOOLEAN
    BY <1>4, Zenon DEF SweepAbort
  <2>3. UNCHANGED <<inner, mailbox, worker, task, attempts, caller, outcome>>
    BY <1>4 DEF SweepAbort
  <2> QED
    BY <2>1, <2>2, <2>3 DEF inner
<1> QED
  BY <1>2, <1>3, <1>4

LEMMA EnvironmentType ==
  ASSUME TypeOK, Environment
  PROVE  TypeOK'
<1> USE DEF TypeOK
<1>1. ASSUME NEW stop \in BOOLEAN, NEW err \in Outcomes, Invalidate(stop, err),
             stopping' \in BOOLEAN, maintain' \in BOOLEAN
      PROVE  TypeOK'
  <2>1. [gen |-> generation, pc |-> "take", stop |-> stop] \in Sweeps
    BY DEF Sweeps
  <2>2. generation' \in Nat /\ sweeps' \in SUBSET Sweeps
    BY <1>1, <2>1 DEF Invalidate
  <2>3. /\ state' \in States /\ activeReq' \in SUBSET Caps /\ readyReq' \in SUBSET Caps
        /\ retryScheduled' \in BOOLEAN /\ waiters' \in [Commands -> Intents]
    BY <1>1, DrainType DEF Invalidate
  <2>4. outcome' \in [Commands -> Outcomes]
    BY <1>1, TellType DEF Invalidate
  <2>5. UNCHANGED <<children, mail, task, attempts, caller>>
    BY <1>1 DEF Invalidate
  <2> QED
    BY <1>1, <2>2, <2>3, <2>4, <2>5 DEF mail
<1>2. CASE Disconnect \/ PathLost
  <2>1. stopping' \in BOOLEAN /\ maintain' \in BOOLEAN
    BY <1>2 DEF Disconnect, PathLost
  <2>2. "Cancelled" \in Outcomes
    BY DEF Outcomes, Failures
  <2>3. Invalidate(FALSE, "Cancelled")
    BY <1>2 DEF Disconnect, PathLost
  <2> QED
    BY <1>1, <2>1, <2>2, <2>3
<1>3. CASE Stop
  <2>1. stopping' \in BOOLEAN /\ maintain' \in BOOLEAN
    BY <1>3 DEF Stop
  <2>2. "SupervisorStopping" \in Outcomes
    BY DEF Outcomes, SendErrors
  <2>3. Invalidate(TRUE, "SupervisorStopping")
    BY <1>3 DEF Stop
  <2> QED
    BY <1>1, <2>1, <2>2, <2>3
<1>4. ASSUME NEW caps \in InboundCaps, AdmitInbound(caps)
      PROVE  TypeOK'
  <2>1. caps \in SUBSET Caps
    BY SupervisorAssumption
  <2>2. state' \in States /\ activeReq' \in SUBSET Caps /\ readyReq' \in SUBSET Caps
    BY <1>4, <2>1 DEF AdmitInbound, States
  <2>3. UNCHANGED <<generation, stopping, waiters, maintain, children, retryScheduled,
                    mail, task, attempts, caller, sweeps, outcome>>
    BY <1>4 DEF AdmitInbound
  <2> QED
    BY <2>2, <2>3 DEF mail
<1> QED
  BY <1>2, <1>3, <1>4 DEF Environment

LEMMA NextType == TypeOK /\ [Next]_vars => TypeOK'
<1> SUFFICES ASSUME TypeOK, [Next]_vars PROVE TypeOK'
  OBVIOUS
<1>1. CASE UNCHANGED vars
  BY <1>1 DEF vars, inner, mail, TypeOK
<1>2. CASE Next
  BY <1>2, CallerType, WorkerType, AttemptType, SweepType, EnvironmentType DEF Next
<1> QED
  BY <1>1, <1>2

\* Every reachable state of the supervisor is well typed, whatever the constants.
THEOREM TypeCorrect == Spec => []TypeOK
BY InitType, NextType, PTL DEF Spec

-----------------------------------------------------------------------------
(***************************************************************************)
(* The child count.  A counted child has one owner at a time, and every    *)
(* step hands it over or gives the count back: the lease moves from the    *)
(* worker to the slot and from there to whoever takes it.                  *)
(***************************************************************************)
WorkerHeld == worker.pc \in WorkerHolds
MarkingAttempts == {a \in attempts : a.pc = "mark"}
MarkingSweeps   == {s \in sweeps : s.pc = "mark"}

Free ==
  children = 0 /\ task = NoTask /\ ~WorkerHeld
    /\ MarkingAttempts = {} /\ MarkingSweeps = {}
HeldBySlot ==
  children = 1 /\ task # NoTask /\ ~WorkerHeld
    /\ MarkingAttempts = {} /\ MarkingSweeps = {}
HeldByWorker ==
  children = 1 /\ task = NoTask /\ WorkerHeld
    /\ MarkingAttempts = {} /\ MarkingSweeps = {}
HeldByAttempt ==
  children = 1 /\ task = NoTask /\ ~WorkerHeld
    /\ (\E a : MarkingAttempts = {a}) /\ MarkingSweeps = {}
HeldBySweep ==
  children = 1 /\ task = NoTask /\ ~WorkerHeld
    /\ MarkingAttempts = {} /\ (\E s : MarkingSweeps = {s})

OneOwner == Free \/ HeldBySlot \/ HeldByWorker \/ HeldByAttempt \/ HeldBySweep

\* The inductive invariant: the modes, and that the worker installs a real id.
ChildInv == OneOwner /\ (worker.pc = "install" => worker.id # 0)

LEMMA OneOwnerAccounting == OneOwner => ChildAccounting
<1> SUFFICES ASSUME OneOwner PROVE ChildAccounting
  OBVIOUS
<1>1. Owners = {<<"slot", t>> : t \in {task} \ {NoTask}}
                 \cup {<<"worker", w>> : w \in {v \in {worker} : WorkerHeld}}
                 \cup {<<"attempt", a>> : a \in MarkingAttempts}
                 \cup {<<"sweep", s>> : s \in MarkingSweeps}
  BY DEF Owners, WorkerHeld, MarkingAttempts, MarkingSweeps
<1>2. CASE Free
  BY <1>1, <1>2 DEF Free, ChildAccounting
<1>3. CASE HeldBySlot
  <2>1. Owners = {<<"slot", task>>}
    BY <1>1, <1>3 DEF HeldBySlot
  <2> QED
    BY <1>3, <2>1 DEF HeldBySlot, ChildAccounting
<1>4. CASE HeldByWorker
  <2>1. Owners = {<<"worker", worker>>}
    BY <1>1, <1>4 DEF HeldByWorker
  <2> QED
    BY <1>4, <2>1 DEF HeldByWorker, ChildAccounting
<1>5. CASE HeldByAttempt
  <2>1. PICK a : MarkingAttempts = {a}
    BY <1>5 DEF HeldByAttempt
  <2>2. Owners = {<<"attempt", a>>}
    BY <1>1, <1>5, <2>1 DEF HeldByAttempt
  <2> QED
    BY <1>5, <2>2 DEF HeldByAttempt, ChildAccounting
<1>6. CASE HeldBySweep
  <2>1. PICK s : MarkingSweeps = {s}
    BY <1>6 DEF HeldBySweep
  <2>2. Owners = {<<"sweep", s>>}
    BY <1>1, <1>6, <2>1 DEF HeldBySweep
  <2> QED
    BY <1>6, <2>2 DEF HeldBySweep, ChildAccounting
<1> QED
  BY <1>2, <1>3, <1>4, <1>5, <1>6 DEF OneOwner

LEMMA ChildInit == Init => ChildInv
BY DEF Init, ChildInv, OneOwner, Free, WorkerHeld, WorkerHolds, MarkingAttempts,
       MarkingSweeps, Idle

\* A step that touches neither the count nor any owner keeps the invariant.
LEMMA ChildFrame ==
  ASSUME ChildInv, UNCHANGED <<children, task>>,
         MarkingAttempts' = MarkingAttempts, MarkingSweeps' = MarkingSweeps,
         WorkerHeld' <=> WorkerHeld,
         worker'.pc = "install" => worker'.id # 0
  PROVE  ChildInv'
BY DEF ChildInv, OneOwner, Free, HeldBySlot, HeldByWorker, HeldByAttempt, HeldBySweep

\* Taking the lease out of the slot leaves no attempt about to give it back.
LEMMA AbortFrame ==
  ASSUME ChildInv, task # NoTask, AbortTask
  PROVE  /\ children = 1 /\ task' = NoTask /\ ~WorkerHeld
         /\ MarkingAttempts' = {} /\ MarkingSweeps = {}
BY DEF ChildInv, OneOwner, Free, HeldBySlot, HeldByWorker, HeldByAttempt, HeldBySweep,
       AbortTask, MarkingAttempts

LEMMA CallerChild ==
  ASSUME TypeOK, ChildInv, NEW c \in Commands, CallerStep(c)
  PROVE  ChildInv'
<1>1. UNCHANGED <<children, task, attempts, sweeps>>
  BY DEF CallerStep, StartMailboxWorker, Begin, ReadIntent, TrySend, FailSend,
         FailGeneration, JoinIntent, inner, mail
<1>2. worker' = worker \/ (worker.pc = "unstarted" /\ worker'.pc \in {"recv", "lost"})
  <2>1. CASE StartMailboxWorker(c)
    BY <2>1 DEF StartMailboxWorker, TypeOK, Workers
  <2>2. CASE ~StartMailboxWorker(c)
    BY <2>2 DEF CallerStep, Begin, ReadIntent, TrySend, FailSend, mail
  <2> QED
    BY <2>1, <2>2
<1> QED
  BY <1>1, <1>2, ChildFrame
  DEF MarkingAttempts, MarkingSweeps, WorkerHeld, WorkerHolds, ChildInv

LEMMA WorkerChild ==
  ASSUME TypeOK, ChildInv, WorkerStep
  PROVE  ChildInv'
<1> USE DEF WorkerHeld, WorkerHolds
<1>1. worker \in Workers /\ sweeps \in SUBSET Sweeps
  BY DEF TypeOK, Workers
<1>2. Idle.pc = "recv"
  BY DEF Idle
<1>3. CASE Recv
  <2>1. worker'.pc \in {"recv", "cancel"}
    BY <1>1, <1>3 DEF Recv, Idle
  <2>2. UNCHANGED <<children, task, attempts, sweeps>> /\ worker.pc = "recv"
    BY <1>3 DEF Recv
  <2> QED
    BY <2>1, <2>2, ChildFrame DEF MarkingAttempts, MarkingSweeps
<1>4. CASE (CancelConnectionTask \/ CancelStale) /\ task' # task
  <2>1. task # NoTask /\ AbortTask
    BY <1>4 DEF CancelConnectionTask, CancelStale
  <2>2. worker'.pc \in {"markOld", "markStale"}
    BY <1>1, <1>4, <2>1 DEF CancelConnectionTask, CancelStale, Workers
  <2>3. UNCHANGED <<children, sweeps>>
    BY <1>4 DEF CancelConnectionTask, CancelStale, inner
  <2>4. HeldByWorker'
    BY <2>1, <2>2, <2>3, AbortFrame DEF HeldByWorker, MarkingSweeps
  <2> QED
    BY <2>2, <2>4 DEF ChildInv, OneOwner
<1>5. CASE (CancelConnectionTask \/ CancelStale) /\ task' = task
  <2>1. /\ worker.pc \in {"cancel", "stale"} /\ worker'.pc \in {"start", "recv"}
        /\ UNCHANGED <<children, task, attempts, sweeps>>
    BY <1>1, <1>2, <1>5 DEF CancelConnectionTask, CancelStale, AbortTask, inner, Workers
  <2> QED
    BY <2>1, ChildFrame DEF MarkingAttempts, MarkingSweeps
<1>6. CASE WorkerMark
  <2>1. HeldByWorker
    BY <1>6 DEF WorkerMark, ChildInv, OneOwner, Free, HeldBySlot, HeldByAttempt,
                HeldBySweep
  <2>2. worker'.pc \in {"start", "recv", "fail"}
    BY <1>1, <1>2, <1>6 DEF WorkerMark, Workers
  <2>3. children' = 0 /\ UNCHANGED <<task, attempts, sweeps>>
    BY <1>6, <2>1 DEF WorkerMark, Finished, HeldByWorker
  <2>4. Free'
    BY <2>1, <2>2, <2>3 DEF Free, HeldByWorker, MarkingAttempts, MarkingSweeps
  <2> QED
    BY <2>2, <2>4 DEF ChildInv, OneOwner
<1>7. CASE MarkChildStarted /\ children >= 1
  <2>1. /\ worker.pc = "start" /\ worker'.pc = "fail"
        /\ UNCHANGED <<children, task, attempts, sweeps>>
    BY <1>1, <1>7 DEF MarkChildStarted, Workers
  <2> QED
    BY <2>1, ChildFrame DEF MarkingAttempts, MarkingSweeps
<1>8. CASE MarkChildStarted /\ ~(children >= 1)
  <2>1. Free
    BY <1>8 DEF ChildInv, OneOwner, HeldBySlot, HeldByWorker, HeldByAttempt, HeldBySweep
  <2>2. worker'.pc = "spawn" /\ children' = 1 /\ UNCHANGED <<task, attempts, sweeps>>
    BY <1>1, <1>8, <2>1 DEF MarkChildStarted, Workers, Free
  <2>3. HeldByWorker'
    BY <2>1, <2>2 DEF Free, HeldByWorker, MarkingAttempts, MarkingSweeps
  <2> QED
    BY <2>2, <2>3 DEF ChildInv, OneOwner
<1>9. CASE SpawnAttempt
  <2>1. UNCHANGED <<children, task, sweeps>> /\ worker.pc = "spawn"
    BY <1>9 DEF SpawnAttempt, inner
  <2>2. worker'.pc = "refused" \/ (worker'.pc = "install" /\ worker'.id # 0)
    <3>1. FreshIds # {} => (CHOOSE i \in FreshIds : TRUE) # 0
      <4>1. \A i \in FreshIds : i # 0
        BY SupervisorAssumption DEF FreshIds
      <4> QED
        BY <4>1
    <3> QED
      BY <1>1, <1>9, <3>1 DEF SpawnAttempt, Workers
  <2>3. MarkingAttempts' = MarkingAttempts
    BY <1>9 DEF SpawnAttempt, MarkingAttempts
  <2> QED
    BY <2>1, <2>2, <2>3, ChildFrame DEF MarkingSweeps
<1>10. CASE InstallTask
  <2>1. HeldByWorker /\ worker.id # 0
    BY <1>10 DEF InstallTask, ChildInv, OneOwner, Free, HeldBySlot, HeldByAttempt,
                 HeldBySweep
  <2>2. worker'.pc = "check" /\ UNCHANGED <<children, attempts, sweeps>>
    BY <1>1, <1>10 DEF InstallTask, inner, Workers
  <2>3. task' # NoTask
    BY <1>10, <2>1 DEF InstallTask, NoTask
  <2>4. HeldBySlot'
    BY <2>1, <2>2, <2>3 DEF HeldBySlot, HeldByWorker, MarkingAttempts, MarkingSweeps
  <2> QED
    BY <2>2, <2>4 DEF ChildInv, OneOwner
<1>11. CASE CheckCurrent \/ CompleteWithoutTask
  <2>1. /\ worker.pc \in {"check", "fail"} /\ worker'.pc \in {"recv", "stale"}
        /\ UNCHANGED <<task, attempts, sweeps>>
    BY <1>1, <1>2, <1>11 DEF CheckCurrent, CompleteWithoutTask, Workers
  <2>2. UNCHANGED children
    BY <1>11 DEF CheckCurrent, CompleteWithoutTask, CompleteErr, inner
  <2> QED
    BY <2>1, <2>2, ChildFrame DEF MarkingAttempts, MarkingSweeps
<1> QED
  BY <1>3, <1>4, <1>5, <1>6, <1>7, <1>8, <1>9, <1>10, <1>11 DEF WorkerStep

LEMMA AttemptChild ==
  ASSUME TypeOK, ChildInv, AttemptStep
  PROVE  ChildInv'
<1> PICK a \in attempts :
      \/ \E result \in {"Online"} \cup AttemptErrors : FinishAttempt(a, result)
      \/ AttemptMark(a)
      \/ CompleteReady(a)
      \/ Resend(a)
      \/ FailResend(a)
  BY DEF AttemptStep
<1>1. a \in Attempts
  BY DEF TypeOK
<1>2. ASSUME NEW result, FinishAttempt(a, result), task' # task
      PROVE  ChildInv'
  <2>1. task.id = a.id /\ a.id # 0 /\ task # NoTask
    BY <1>1, <1>2, SupervisorAssumption DEF FinishAttempt, Attempts, NoTask
  <2>2. HeldBySlot
    BY <2>1 DEF ChildInv, OneOwner, Free, HeldByWorker, HeldByAttempt, HeldBySweep
  <2> DEFINE b == [a EXCEPT !.pc = "mark", !.res = result]
  <2>3. b.pc = "mark"
    BY <1>1 DEF Attempts
  <2>4. attempts' = (attempts \ {a}) \cup {b} /\ task' = NoTask
    BY <1>2 DEF FinishAttempt, Advance
  <2>5. UNCHANGED <<children, worker, sweeps>>
    BY <1>2 DEF FinishAttempt, inner, mail
  <2> HIDE DEF b
  <2>6. MarkingAttempts' = {b}
    BY <2>2, <2>3, <2>4 DEF HeldBySlot, MarkingAttempts
  <2>7. HeldByAttempt'
    BY <2>2, <2>4, <2>5, <2>6 DEF HeldBySlot, HeldByAttempt, WorkerHeld, MarkingSweeps
  <2> QED
    BY <2>5, <2>7 DEF ChildInv, OneOwner
<1>3. ASSUME NEW result, FinishAttempt(a, result), task' = task
      PROVE  ChildInv'
  <2>1. task # NoTask \/ ~(task.gen = a.gen /\ task.id = a.id)
    BY <1>1, SupervisorAssumption DEF Attempts, NoTask
  <2>2. attempts' = attempts \ {a} /\ a.pc = "run"
    BY <1>3, <2>1 DEF FinishAttempt
  <2>3. MarkingAttempts' = MarkingAttempts
    BY <2>2 DEF MarkingAttempts
  <2>4. UNCHANGED <<children, worker, sweeps>>
    BY <1>3 DEF FinishAttempt, inner, mail
  <2> QED
    BY <1>3, <2>3, <2>4, ChildFrame DEF MarkingSweeps, WorkerHeld, ChildInv
<1>4. CASE AttemptMark(a)
  <2>1. HeldByAttempt /\ a \in MarkingAttempts
    BY <1>4 DEF AttemptMark, ChildInv, OneOwner, Free, HeldBySlot, HeldByWorker,
                HeldBySweep, MarkingAttempts
  <2> DEFINE b == [a EXCEPT !.pc = "complete"]
  <2>2. b.pc = "complete"
    BY <1>1 DEF Attempts
  <2>3. attempts' = (attempts \ {a}) \cup {b}
    BY <1>4 DEF AttemptMark, Advance
  <2>4. children' = 0 /\ UNCHANGED <<task, worker, sweeps>>
    BY <1>4, <2>1 DEF AttemptMark, HeldByAttempt, Finished, mail
  <2> HIDE DEF b
  <2>5. MarkingAttempts' = {}
    BY <2>1, <2>2, <2>3 DEF HeldByAttempt, MarkingAttempts
  <2>6. Free'
    BY <2>1, <2>4, <2>5 DEF Free, HeldByAttempt, WorkerHeld, MarkingSweeps
  <2> QED
    BY <2>4, <2>6 DEF ChildInv, OneOwner
<1>5. CASE CompleteReady(a) \/ Resend(a) \/ FailResend(a)
  <2>1. a.pc # "mark" /\ UNCHANGED <<task, worker, sweeps>>
    BY <1>5 DEF CompleteReady, Resend, FailResend, mail
  <2>2. UNCHANGED children
    BY <1>5 DEF CompleteReady, Resend, FailResend, CompleteErr, CompleteOk,
                FailGeneration, inner
  <2>3. PICK b : b.pc # "mark" /\ (\/ attempts' = attempts \ {a}
                                   \/ attempts' = (attempts \ {a}) \cup {b})
    <3>1. \A wanted : [a EXCEPT !.pc = "resend", !.req = wanted].pc # "mark"
      BY <1>1 DEF Attempts
    <3>2. [a EXCEPT !.pc = "fail", !.res = SendError].pc # "mark"
      BY <1>1 DEF Attempts
    <3>3. CASE CompleteReady(a)
      BY <2>1, <3>1, <3>3 DEF CompleteReady, Advance
    <3>4. CASE Resend(a) \/ FailResend(a)
      BY <2>1, <3>2, <3>4 DEF Resend, FailResend, Advance
    <3> QED
      BY <1>5, <3>3, <3>4
  <2>4. MarkingAttempts' = MarkingAttempts
    BY <2>1, <2>3 DEF MarkingAttempts
  <2> QED
    BY <2>1, <2>2, <2>4, ChildFrame DEF MarkingSweeps, WorkerHeld, ChildInv
<1> QED
  BY <1>2, <1>3, <1>4, <1>5

LEMMA SweepChild ==
  ASSUME TypeOK, ChildInv, SweepStep
  PROVE  ChildInv'
<1> PICK s \in sweeps : SweepTake(s) \/ SweepMark(s) \/ SweepAbort(s)
  BY DEF SweepStep
<1>1. s \in Sweeps
  BY DEF TypeOK
<1>2. [s EXCEPT !.pc = "abort"].pc = "abort" /\ [s EXCEPT !.pc = "mark"].pc = "mark"
  BY <1>1 DEF Sweeps
<1>3. CASE SweepTake(s) /\ task' # task
  <2> DEFINE b == [s EXCEPT !.pc = "mark"]
  <2>1. task # NoTask /\ AbortTask /\ sweeps' = (sweeps \ {s}) \cup {b}
    BY <1>3 DEF SweepTake
  <2>2. UNCHANGED <<children, worker>> /\ b.pc = "mark"
    BY <1>2, <1>3 DEF SweepTake, inner, mail
  <2> HIDE DEF b
  <2>3. MarkingSweeps' = {b}
    BY <2>1, <2>2, AbortFrame DEF MarkingSweeps
  <2>4. HeldBySweep'
    BY <2>1, <2>2, <2>3, AbortFrame DEF HeldBySweep, WorkerHeld
  <2> QED
    BY <2>2, <2>4 DEF ChildInv, OneOwner
<1>4. CASE SweepTake(s) /\ task' = task
  <2>1. /\ s.pc = "take" /\ sweeps' = SweepRest(s)
        /\ UNCHANGED <<children, worker, task, attempts>>
    BY <1>4 DEF SweepTake, AbortTask, inner, mail
  <2>2. MarkingSweeps' = MarkingSweeps
    BY <1>2, <2>1 DEF SweepRest, MarkingSweeps
  <2> QED
    BY <2>1, <2>2, ChildFrame DEF MarkingAttempts, WorkerHeld, ChildInv
<1>5. CASE SweepMark(s)
  <2>1. HeldBySweep /\ s \in MarkingSweeps
    BY <1>5 DEF SweepMark, ChildInv, OneOwner, Free, HeldBySlot, HeldByWorker,
                HeldByAttempt, MarkingSweeps
  <2>2. /\ children' = 0 /\ sweeps' = SweepRest(s)
        /\ UNCHANGED <<task, worker, attempts>>
    BY <1>5, <2>1 DEF SweepMark, HeldBySweep, Finished, mail
  <2>3. MarkingSweeps' = {}
    BY <1>2, <2>1, <2>2 DEF HeldBySweep, SweepRest, MarkingSweeps
  <2>4. Free'
    BY <2>1, <2>2, <2>3 DEF Free, HeldBySweep, WorkerHeld, MarkingAttempts
  <2> QED
    BY <2>2, <2>4 DEF ChildInv, OneOwner
<1>6. CASE SweepAbort(s)
  <2>1. s.pc = "abort" /\ sweeps' = sweeps \ {s}
        /\ UNCHANGED <<children, task, worker, attempts>>
    BY <1>6 DEF SweepAbort, inner
  <2>2. MarkingSweeps' = MarkingSweeps
    BY <2>1 DEF MarkingSweeps
  <2> QED
    BY <2>1, <2>2, ChildFrame DEF MarkingAttempts, WorkerHeld, ChildInv
<1> QED
  BY <1>3, <1>4, <1>5, <1>6

LEMMA EnvironmentChild ==
  ASSUME ChildInv, Environment
  PROVE  ChildInv'
<1>1. UNCHANGED <<children, worker, task, attempts>>
  BY DEF Environment, Disconnect, PathLost, Stop, Invalidate, AdmitInbound, mail
<1>2. MarkingSweeps' = MarkingSweeps
  BY DEF Environment, Disconnect, PathLost, Stop, Invalidate, AdmitInbound,
         MarkingSweeps
<1> QED
  BY <1>1, <1>2, ChildFrame DEF MarkingAttempts, WorkerHeld, ChildInv

LEMMA NextChild == TypeOK /\ ChildInv /\ [Next]_vars => ChildInv'
<1> SUFFICES ASSUME TypeOK, ChildInv, [Next]_vars PROVE ChildInv'
  OBVIOUS
<1>1. CASE UNCHANGED vars
  BY <1>1, ChildFrame
  DEF vars, inner, mail, MarkingAttempts, MarkingSweeps, WorkerHeld, ChildInv
<1>2. CASE Next
  BY <1>2, CallerChild, WorkerChild, AttemptChild, SweepChild, EnvironmentChild DEF Next
<1> QED
  BY <1>1, <1>2

\* active_children is exact in every reachable state: whatever the order in
\* which a completion, a replacement, a disconnect and a stop reach the lease,
\* exactly one of them owns the counted child.
THEOREM ChildrenAccounted == Spec => []ChildAccounting
<1>1. Spec => []ChildInv
  BY TypeCorrect, ChildInit, NextChild, PTL DEF Spec
<1>2. ChildInv => ChildAccounting
  BY OneOwnerAccounting DEF ChildInv
<1> QED
  BY <1>1, <1>2, PTL

-----------------------------------------------------------------------------
(* Waiters                                                                 *)

\* As long as no inbound path turns the peer Online over its waiters, somebody waits
\* only while the peer is connecting, and then for the current generation; the
\* requirement of that generation is known, so that a demand that joins extends it.
WaitInv ==
  /\ \A c \in Commands : waiters[c] # NoWaiter =>
       state = "Connecting" /\ waiters[c].gen = generation /\ waiters[c].req \subseteq activeReq
  /\ state = "Connecting" => activeReq # {}

LEMMA WaitFrame ==
  ASSUME WaitInv, UNCHANGED <<state, generation, activeReq, waiters>>
  PROVE  WaitInv'
BY DEF WaitInv

LEMMA DrainWait ==
  ASSUME Drain
  PROVE  WaitInv'
BY DEF Drain, WaitInv

LEMMA FailGenerationWait ==
  ASSUME WaitInv, NEW gen, NEW err, NEW self, FailGeneration(gen, err, self)
  PROVE  WaitInv'
BY WaitFrame, DrainWait DEF FailGeneration, inner

LEMMA CompleteErrWait ==
  ASSUME WaitInv, NEW gen, NEW err, CompleteErr(gen, err)
  PROVE  WaitInv'
BY WaitFrame, DrainWait DEF CompleteErr, inner

LEMMA CompleteOkWait ==
  ASSUME TypeOK, WaitInv, NEW gen, NEW ready, Current(gen), CompleteOk(gen, ready)
  PROVE  WaitInv'
<1>1. /\ generation' = generation /\ gen = generation
      /\ waiters' = [c \in Commands |-> IF c \in Served(gen, ready) THEN NoWaiter ELSE waiters[c]]
  BY DEF CompleteOk, Current
<1>2. ASSUME NEW c \in Commands, waiters'[c] # NoWaiter
      PROVE  waiters'[c] = waiters[c] /\ c \in Unserved(gen, ready)
  BY <1>1, <1>2 DEF Unserved, Waiting, WaitInv
<1>3. CASE Unserved(gen, ready) = {}
  <2>1. \A c \in Commands : waiters'[c] = NoWaiter
    BY <1>2, <1>3
  <2>2. state' = "Online"
    BY <1>3 DEF CompleteOk
  <2> QED
    BY <2>1, <2>2 DEF WaitInv
<1>4. CASE Unserved(gen, ready) # {}
  <2>1. state' = "Connecting" /\ activeReq' = activeReq
    BY <1>4 DEF CompleteOk
  <2>2. state = "Connecting"
    BY <1>4 DEF Unserved, Waiting, WaitInv
  <2> QED
    BY <1>1, <1>2, <2>1, <2>2 DEF WaitInv
<1> QED
  BY <1>3, <1>4

LEMMA JoinWait ==
  ASSUME TypeOK, WaitInv, NEW c \in Commands, NEW req \in SUBSET Caps, req # {}, JoinIntent(c, req)
  PROVE  WaitInv'
<1>1. waiters' = [waiters EXCEPT ![c] = [gen |-> generation', req |-> req]] /\ state' = "Connecting"
  BY DEF JoinIntent
<1>2. /\ waiters'[c].gen = generation' /\ waiters'[c].req = req
      /\ \A d \in Commands \ {c} : waiters'[d] = waiters[d]
  BY <1>1 DEF TypeOK
<1>3. CASE state = "Connecting"
  <2>1. activeReq # {} /\ generation' = generation /\ activeReq' = activeReq \cup req
    BY <1>3 DEF JoinIntent, WaitInv
  <2> QED
    BY <1>1, <1>2, <2>1 DEF WaitInv
<1>4. CASE state # "Connecting"
  <2>1. activeReq' = req
    BY <1>4 DEF JoinIntent
  <2>2. \A d \in Commands : waiters[d] = NoWaiter
    BY <1>4 DEF WaitInv
  <2> QED
    BY <1>1, <1>2, <2>1, <2>2 DEF WaitInv
<1> QED
  BY <1>3, <1>4

LEMMA CallerWait ==
  ASSUME TypeOK, WaitInv, NEW c \in Commands, CallerStep(c)
  PROVE  WaitInv'
<1>1. CASE StartMailboxWorker(c) \/ ReadIntent(c) \/ TrySend(c)
  BY <1>1, WaitFrame DEF StartMailboxWorker, ReadIntent, TrySend, inner
<1>2. CASE FailSend(c)
  BY <1>2, FailGenerationWait DEF FailSend
<1>3. ASSUME NEW class \in Demands, NEW keep \in Policies, Begin(c, class, keep)
      PROVE  WaitInv'
  <2>1. FromClass(class) \in SUBSET Caps /\ FromClass(class) # {}
    BY SupervisorAssumption DEF FromClass, Classes, Caps
  <2>2. CASE JoinIntent(c, FromClass(class))
    BY <2>1, <2>2, JoinWait
  <2>3. CASE UNCHANGED <<state, generation, activeReq, waiters>>
    BY <2>3, WaitFrame
  <2> QED
    BY <1>3, <2>2, <2>3 DEF Begin
<1> QED
  BY <1>1, <1>2, <1>3 DEF CallerStep

LEMMA WorkerWait ==
  ASSUME WaitInv, WorkerStep
  PROVE  WaitInv'
<1>1. CASE CompleteWithoutTask
  BY <1>1, CompleteErrWait DEF CompleteWithoutTask
<1>2. CASE Recv \/ WorkerMark \/ MarkChildStarted
  BY <1>2, WaitFrame DEF Recv, WorkerMark, MarkChildStarted
<1>3. CASE CancelConnectionTask \/ SpawnAttempt \/ InstallTask \/ CheckCurrent \/ CancelStale
  BY <1>3, WaitFrame DEF CancelConnectionTask, SpawnAttempt, InstallTask, CheckCurrent, CancelStale, inner
<1> QED
  BY <1>1, <1>2, <1>3 DEF WorkerStep

LEMMA AttemptWait ==
  ASSUME TypeOK, WaitInv, AttemptStep
  PROVE  WaitInv'
<1> PICK a \in attempts :
      \/ \E result \in {"Online"} \cup AttemptErrors : FinishAttempt(a, result)
      \/ AttemptMark(a)
      \/ CompleteReady(a)
      \/ Resend(a)
      \/ FailResend(a)
  BY DEF AttemptStep
<1>1. CASE (\E result \in {"Online"} \cup AttemptErrors : FinishAttempt(a, result)) \/ Resend(a) \/ AttemptMark(a)
  BY <1>1, WaitFrame DEF FinishAttempt, Resend, AttemptMark, inner
<1>2. CASE FailResend(a)
  BY <1>2, FailGenerationWait DEF FailResend
<1>3. CASE CompleteReady(a)
  <2>1. CASE UNCHANGED inner
    BY <2>1, WaitFrame DEF inner
  <2>2. CASE CompleteErr(a.gen, a.res)
    BY <2>2, CompleteErrWait
  <2>3. CASE Current(a.gen) /\ CompleteOk(a.gen, a.req)
    BY <2>3, CompleteOkWait
  <2> QED
    BY <1>3, <2>1, <2>2, <2>3 DEF CompleteReady
<1> QED
  BY <1>1, <1>2, <1>3

\* Whoever waits is waiting for the generation that is current, and the requirement
\* its attempts are started with covers the waiter: the next completion reaches it.
\* An inbound path may turn the peer Online over the heads of its waiters, and the
\* next demand then starts a generation without them; so none is admitted here.
THEOREM WaitersStayServed ==
  ASSUME InboundCaps = {}
  PROVE  Spec => []WaitersAreServed
<1>1. Init => WaitInv
  BY DEF Init, WaitInv
<1>2. TypeOK /\ WaitInv /\ [Next]_vars => WaitInv'
  <2> SUFFICES ASSUME TypeOK, WaitInv, [Next]_vars PROVE WaitInv'
    OBVIOUS
  <2>1. CASE SweepStep
    BY <2>1, WaitFrame DEF SweepStep, SweepTake, SweepMark, SweepAbort, inner
  <2>2. CASE Environment
    BY <2>2, DrainWait DEF Environment, Disconnect, PathLost, Stop, Invalidate
  <2>3. CASE UNCHANGED vars
    BY <2>3, WaitFrame DEF vars, inner
  <2> QED
    BY <2>1, <2>2, <2>3, CallerWait, WorkerWait, AttemptWait DEF Next
<1>3. WaitInv => WaitersAreServed
  BY DEF WaitInv, WaitersAreServed, WaitersAreCurrent, ActiveCoversWaiters, Waiting
<1> QED
  BY <1>1, <1>2, <1>3, TypeCorrect, PTL DEF Spec
-----------------------------------------------------------------------------
(* The retry flag                                                          *)

\* An id in the slot, or on its way there, names an attempt that still runs: what a
\* cancel aborts can have no intent to resend.
IdsOK ==
  /\ \A a \in attempts : a.id = task.id => a.pc = "run"
  /\ worker.pc = "install" => /\ worker.id # 0 /\ worker.id # task.id
                              /\ \A a \in attempts : a.id = worker.id => a.pc = "run"

LEMMA IdsFrame ==
  ASSUME TypeOK', IdsOK, task' = task \/ task' = NoTask,
         worker' = worker \/ worker'.pc # "install",
         \A a \in attempts' : a \in attempts \/ \E b \in attempts : b.id = a.id /\ b.pc # "run"
  PROVE  IdsOK'
<1>1. \A a \in attempts' : a.id # 0
  BY SupervisorAssumption DEF TypeOK, Attempts
<1>2. task' = NoTask => task'.id = 0
  BY DEF NoTask
<1> QED
  BY <1>1, <1>2 DEF IdsOK

LEMMA IdsCaller ==
  ASSUME TypeOK, TypeOK', IdsOK, NEW c \in Commands, CallerStep(c)
  PROVE  IdsOK'
<1>1. UNCHANGED <<task, attempts>>
  BY DEF CallerStep, StartMailboxWorker, Begin, ReadIntent, TrySend, FailSend, inner, mail
<1>2. worker' = worker \/ worker'.pc # "install"
  <2>1. CASE StartMailboxWorker(c)
    BY <2>1 DEF StartMailboxWorker, TypeOK, Workers
  <2>2. CASE ~StartMailboxWorker(c)
    BY <2>2 DEF CallerStep, Begin, ReadIntent, TrySend, FailSend, mail
  <2> QED
    BY <2>1, <2>2
<1> QED
  BY <1>1, <1>2, IdsFrame

LEMMA IdsWorker ==
  ASSUME TypeOK, TypeOK', IdsOK, WorkerStep
  PROVE  IdsOK'
<1> USE DEF TypeOK, Workers
<1>1. Idle.pc # "install"
  BY DEF Idle
<1>2. CASE Recv
  <2>1. worker' = worker \/ worker'.pc = "cancel"
    BY <1>2 DEF Recv, Idle
  <2> QED
    BY <1>2, <2>1, IdsFrame DEF Recv
<1>3. CASE CancelConnectionTask
  <2>1. worker'.pc # "install" /\ attempts' \subseteq attempts
    BY <1>3 DEF CancelConnectionTask, AbortTask
  <2> QED
    BY <1>3, <2>1, IdsFrame DEF CancelConnectionTask, AbortTask
<1>4. CASE WorkerMark
  <2>1. worker'.pc # "install"
    BY <1>1, <1>4 DEF WorkerMark
  <2> QED
    BY <1>4, <2>1, IdsFrame DEF WorkerMark
<1>5. CASE MarkChildStarted
  <2>1. worker'.pc # "install"
    BY <1>5 DEF MarkChildStarted
  <2> QED
    BY <1>5, <2>1, IdsFrame DEF MarkChildStarted
<1>6. CASE SpawnAttempt
  <2>1. CASE worker' = [worker EXCEPT !.pc = "refused"] /\ UNCHANGED attempts
    <3>1. worker'.pc # "install"
      BY <2>1
    <3> QED
      BY <1>6, <2>1, <3>1, IdsFrame DEF SpawnAttempt
  <2>2. ASSUME NEW id \in FreshIds, worker' = [worker EXCEPT !.pc = "install", !.id = id],
               attempts' = attempts \cup {[id |-> id, gen |-> worker.gen, req |-> worker.req,
                                           pc |-> "run", res |-> "Online"]}
        PROVE  IdsOK'
    <3>1. worker'.pc = "install" /\ worker'.id = id /\ task' = task
      BY <1>6, <2>2 DEF SpawnAttempt
    <3>2. id # task.id /\ id # 0 /\ \A a \in attempts : a.id # id
      BY <2>2, SupervisorAssumption DEF FreshIds
    <3>3. \A a \in attempts' : a \in attempts \/ (a.id = id /\ a.pc = "run")
      BY <2>2
    <3> QED
      BY <3>1, <3>2, <3>3 DEF IdsOK
  <2> QED
    BY <1>6, <2>1, <2>2 DEF SpawnAttempt
<1>7. CASE InstallTask
  <2>1. task'.id = worker.id /\ worker.pc = "install" /\ worker'.pc = "check" /\ attempts' = attempts
    BY <1>7 DEF InstallTask
  <2> QED
    BY <2>1 DEF IdsOK
<1>8. CASE CheckCurrent
  <2>1. worker'.pc # "install"
    BY <1>1, <1>8 DEF CheckCurrent
  <2> QED
    BY <1>8, <2>1, IdsFrame DEF CheckCurrent
<1>9. CASE CancelStale
  <2>1. worker'.pc # "install" /\ attempts' \subseteq attempts
    BY <1>1, <1>9 DEF CancelStale, AbortTask
  <2> QED
    BY <1>9, <2>1, IdsFrame DEF CancelStale, AbortTask
<1>10. CASE CompleteWithoutTask
  BY <1>1, <1>10, IdsFrame DEF CompleteWithoutTask
<1> QED
  BY <1>2, <1>3, <1>4, <1>5, <1>6, <1>7, <1>8, <1>9, <1>10 DEF WorkerStep

LEMMA IdsAttempt ==
  ASSUME TypeOK, TypeOK', IdsOK, AttemptStep
  PROVE  IdsOK'
<1> PICK a \in attempts :
      \/ \E result \in {"Online"} \cup AttemptErrors : FinishAttempt(a, result)
      \/ AttemptMark(a)
      \/ CompleteReady(a)
      \/ Resend(a)
      \/ FailResend(a)
  BY DEF AttemptStep
<1>1. a \in Attempts
  BY DEF TypeOK
<1>2. ASSUME NEW result, FinishAttempt(a, result)
      PROVE  IdsOK'
  <2>1. CASE attempts' = attempts \ {a} /\ UNCHANGED task
    BY <1>2, <2>1, IdsFrame DEF FinishAttempt, mail
  <2>2. CASE task.id = a.id /\ task' = NoTask /\ Advance(a, [a EXCEPT !.pc = "mark", !.res = result])
    <3>1. [a EXCEPT !.pc = "mark", !.res = result].id = a.id
      BY <1>1 DEF Attempts
    <3>2. \A b \in attempts' : b \in attempts \/ b.id = a.id
      BY <2>2, <3>1 DEF Advance
    <3>3. task'.id = 0 /\ \A b \in attempts' : b.id # 0
      BY <2>2, SupervisorAssumption DEF NoTask, TypeOK, Attempts
    <3>4. worker' = worker
      BY <1>2 DEF FinishAttempt, mail
    <3> QED
      BY <2>2, <3>2, <3>3, <3>4 DEF IdsOK
  <2> QED
    BY <1>2, <2>1, <2>2 DEF FinishAttempt
<1>3. CASE AttemptMark(a) \/ CompleteReady(a) \/ Resend(a) \/ FailResend(a)
  <2>1. a.pc # "run" /\ UNCHANGED <<task, worker>>
    BY <1>3 DEF AttemptMark, CompleteReady, Resend, FailResend, mail
  <2>2. /\ \A wanted : [a EXCEPT !.pc = "resend", !.req = wanted].id = a.id
        /\ [a EXCEPT !.pc = "complete"].id = a.id /\ [a EXCEPT !.pc = "fail", !.res = SendError].id = a.id
    BY <1>1 DEF Attempts
  <2>3. \A b \in attempts' : b \in attempts \/ b.id = a.id
    <3>1. CASE AttemptMark(a)
      BY <2>2, <3>1 DEF AttemptMark, Advance
    <3>2. CASE CompleteReady(a)
      BY <2>2, <3>2 DEF CompleteReady, Advance
    <3>3. CASE Resend(a) \/ FailResend(a)
      BY <2>2, <3>3 DEF Resend, FailResend, Advance
    <3> QED
      BY <1>3, <3>1, <3>2, <3>3
  <2> QED
    BY <2>1, <2>3, IdsFrame
<1> QED
  BY <1>2, <1>3

LEMMA IdsStep == TypeOK /\ TypeOK' /\ IdsOK /\ [Next]_vars => IdsOK'
<1> SUFFICES ASSUME TypeOK, TypeOK', IdsOK, [Next]_vars PROVE IdsOK'
  OBVIOUS
<1>1. CASE UNCHANGED vars
  BY <1>1, IdsFrame DEF vars, mail
<1>2. CASE SweepStep
  BY <1>2, IdsFrame DEF SweepStep, SweepTake, SweepMark, SweepAbort, AbortTask, mail
<1>3. CASE Environment
  BY <1>3, IdsFrame DEF Environment, Disconnect, PathLost, Stop, Invalidate, AdmitInbound, mail
<1> QED
  BY <1>1, <1>2, <1>3, IdsCaller, IdsWorker, IdsAttempt DEF Next

\* The three places an intent of a generation can be in.
Queued(gen)    == \E i \in DOMAIN mailbox : mailbox[i].gen = gen
Calling(gen)   == \E c \in Commands : caller[c].gen = gen /\ caller[c].pc \in {"read", "send", "fail"}
Resending(gen) == \E a \in attempts : a.gen = gen /\ a.pc \in {"resend", "fail"}

\* RetryFlagIsHonest by the place of the intent.
FlagInv ==
  retryScheduled /\ ~stopping =>
    MailboxClosed \/ \E gen \in Nat : gen = generation /\ (Queued(gen) \/ Calling(gen) \/ Resending(gen))

\* What try_send leaves in the queue.
LEMMA QueuedAppend ==
  ASSUME TypeOK, NEW m \in Intents, mailbox' = Append(mailbox, m)
  PROVE  \A gen : gen = m.gen \/ Queued(gen) => Queued(gen)'
<1>1. /\ mailbox' \in Seq(Intents) /\ Len(mailbox') = Len(mailbox) + 1
      /\ \A i \in 1 .. Len(mailbox) : mailbox'[i] = mailbox[i]
      /\ mailbox'[Len(mailbox) + 1] = m
  BY AppendProperties DEF TypeOK
<1>2. DOMAIN mailbox = 1 .. Len(mailbox) /\ DOMAIN mailbox' = 1 .. Len(mailbox') /\ Len(mailbox) \in Nat
  BY <1>1, LenProperties DEF TypeOK
<1> QED
  BY <1>1, <1>2 DEF Queued

\* What the worker leaves when it takes the head.
LEMMA QueuedTail ==
  ASSUME TypeOK, mailbox # << >>, mailbox' = Tail(mailbox), NEW gen, Queued(gen), Head(mailbox).gen # gen
  PROVE  Queued(gen)'
<1>1. /\ mailbox' \in Seq(Intents) /\ Len(mailbox') = Len(mailbox) - 1 /\ Head(mailbox) = mailbox[1]
      /\ \A i \in 1 .. Len(mailbox') : mailbox'[i] = mailbox[i + 1]
  BY HeadTailProperties DEF TypeOK
<1>2. DOMAIN mailbox = 1 .. Len(mailbox) /\ DOMAIN mailbox' = 1 .. Len(mailbox') /\ Len(mailbox) \in Nat
  BY <1>1, LenProperties DEF TypeOK
<1>3. PICK i \in 1 .. Len(mailbox) : mailbox[i].gen = gen
  BY <1>2 DEF Queued
<1>4. i - 1 \in 1 .. Len(mailbox') /\ mailbox'[i - 1] = mailbox[i]
  BY <1>1, <1>2, <1>3
<1> QED
  BY <1>2, <1>3, <1>4 DEF Queued

\* fail_generation clears the flag, or the failing actor was of another generation.
LEMMA FailGenerationFlag ==
  ASSUME NEW gen, NEW err, NEW self, FailGeneration(gen, err, self)
  PROVE  /\ UNCHANGED <<generation, stopping>>
         /\ retryScheduled' = FALSE \/ (retryScheduled' = retryScheduled /\ generation # gen)
BY DEF FailGeneration, Drain, inner

LEMMA CompleteErrFlag ==
  ASSUME NEW gen, NEW err, CompleteErr(gen, err)
  PROVE  /\ UNCHANGED <<generation, stopping>>
         /\ retryScheduled' = FALSE \/ retryScheduled' = retryScheduled
BY DEF CompleteErr, Drain, inner

LEMMA FlagCaller ==
  ASSUME TypeOK, TypeOK', FlagInv, NEW c \in Commands, CallerStep(c)
  PROVE  FlagInv'
<1>1. ASSUME caller' = [caller EXCEPT ![c] = caller'[c]], caller'[c].gen = caller[c].gen,
             caller[c].pc \in {"read", "send", "fail"} => caller'[c].pc \in {"read", "send", "fail"}
      PROVE  \A gen : Calling(gen) => Calling(gen)'
  BY <1>1 DEF Calling, TypeOK
<1>2. CASE StartMailboxWorker(c)
  <2>1. UNCHANGED <<inner, mailbox, workerAborted, attempts>> /\ caller[c].pc = "idle"
    BY <1>2 DEF StartMailboxWorker
  <2>2. caller'[c].gen = caller[c].gen /\ caller' = [caller EXCEPT ![c] = caller'[c]]
    BY <1>2 DEF StartMailboxWorker, Return, TypeOK, Callers
  <2>3. \A gen : Calling(gen) => Calling(gen)'
    BY <1>1, <2>1, <2>2
  <2>4. MailboxClosed => MailboxClosed'
    BY <1>2 DEF StartMailboxWorker, MailboxClosed
  <2>5. \A gen : (Queued(gen) => Queued(gen)') /\ (Resending(gen) => Resending(gen)')
    BY <2>1 DEF Queued, Resending
  <2> QED
    BY <2>1, <2>3, <2>4, <2>5 DEF FlagInv, inner
<1>3. ASSUME NEW class \in Demands, NEW keep \in Policies, Begin(c, class, keep)
      PROVE  FlagInv'
  <2>1. UNCHANGED <<stopping, mail, attempts>> /\ caller[c].pc = "begin"
    BY <1>3 DEF Begin
  <2>2. MailboxClosed' = MailboxClosed
    BY <2>1 DEF MailboxClosed, mail
  <2>3. \A gen : (Queued(gen) => Queued(gen)') /\ (Resending(gen) => Resending(gen)')
    BY <2>1 DEF Queued, Resending, mail
  <2>4. ASSUME NEW r, caller' = [caller EXCEPT ![c] = r]
        PROVE  \A gen : Calling(gen) => Calling(gen)'
    <3>1. \A d \in Commands \ {c} : caller'[d] = caller[d]
      BY <2>4 DEF TypeOK
    <3> QED
      BY <2>1, <3>1 DEF Calling
  <2>5. CASE UNCHANGED <<generation, retryScheduled>> /\ \E r : caller' = [caller EXCEPT ![c] = r]
    BY <2>1, <2>2, <2>3, <2>4, <2>5 DEF FlagInv
  <2>6. CASE JoinIntent(c, FromClass(class))
    <3>1. caller'[c].gen = generation'
      BY <2>6 DEF JoinIntent, TypeOK
    <3>2. caller'[c].pc = "read" \/ (generation' = generation /\ retryScheduled' = retryScheduled)
      BY <2>6 DEF JoinIntent, TypeOK
    <3>3. \E r : caller' = [caller EXCEPT ![c] = r]
      BY <2>6 DEF JoinIntent
    <3>4. CASE caller'[c].pc = "read"
      <4>1. generation' \in Nat /\ \A gen : gen = generation' => Calling(gen)'
        BY <3>1, <3>4 DEF Calling, TypeOK
      <4> QED
        BY <4>1 DEF FlagInv
    <3> QED
      BY <2>5, <3>2, <3>3, <3>4
  <2>7. \A r : Return(c, r) => \E q : caller' = [caller EXCEPT ![c] = q]
    BY DEF Return, TypeOK
  <2>8. \/ JoinIntent(c, FromClass(class))
        \/ UNCHANGED <<generation, retryScheduled>> /\ \E r : Return(c, r)
    BY <1>3 DEF Begin
  <2> QED
    BY <2>5, <2>6, <2>7, <2>8
<1>4. CASE ReadIntent(c)
  <2>1. UNCHANGED <<inner, mail, attempts>>
    BY <1>4 DEF ReadIntent
  <2>2. caller'[c].gen = caller[c].gen /\ caller' = [caller EXCEPT ![c] = caller'[c]] /\ caller'[c].pc = "send"
    <3> DEFINE r == IF activeReq = {} THEN caller[c].req ELSE activeReq
    <3>1. caller' = [caller EXCEPT ![c].pc = "send", ![c].req = r]
      BY <1>4 DEF ReadIntent, TypeOK, Callers
    <3> HIDE DEF r
    <3>2. caller'[c].pc = "send" /\ caller'[c].gen = caller[c].gen
      BY <3>1 DEF TypeOK, Callers
    <3> QED
      BY <3>1, <3>2 DEF TypeOK
  <2>3. \A gen : Calling(gen) => Calling(gen)'
    BY <1>1, <2>2
  <2>4. \A gen : (Queued(gen) => Queued(gen)') /\ (Resending(gen) => Resending(gen)')
    BY <2>1 DEF Queued, Resending, mail
  <2> QED
    BY <2>1, <2>3, <2>4 DEF FlagInv, inner, mail, MailboxClosed
<1>5. CASE TrySend(c)
  <2>1. UNCHANGED <<inner, worker, workerAborted, attempts>> /\ caller[c].pc = "send"
    BY <1>5 DEF TrySend
  <2>2. \A gen : Resending(gen) => Resending(gen)'
    BY <2>1 DEF Resending
  <2>3. CASE CanSend
    <3> DEFINE m == [gen |-> caller[c].gen, req |-> caller[c].req]
    <3>1. m \in Intents /\ m.gen = caller[c].gen
      BY DEF Intents, TypeOK, Callers
    <3>2. mailbox' = Append(mailbox, m) /\ caller' = [caller EXCEPT ![c].pc = "done"]
      BY <1>5, <2>3 DEF TrySend
    <3> HIDE DEF m
    <3>3. \A gen : gen = caller[c].gen \/ Queued(gen) => Queued(gen)'
      BY <3>1, <3>2, QueuedAppend
    <3>4. \A d \in Commands \ {c} : caller'[d] = caller[d]
      BY <3>2 DEF TypeOK
    <3>5. \A gen : Calling(gen) => Calling(gen)' \/ Queued(gen)'
      BY <3>3, <3>4 DEF Calling
    <3> QED
      BY <2>1, <2>2, <3>3, <3>5 DEF FlagInv, inner, MailboxClosed
  <2>4. CASE ~CanSend
    <3>1. mailbox' = mailbox /\ caller' = [caller EXCEPT ![c].pc = "fail", ![c].err = SendError]
      BY <1>5, <2>4 DEF TrySend
    <3>2. caller'[c].gen = caller[c].gen /\ caller' = [caller EXCEPT ![c] = caller'[c]] /\ caller'[c].pc = "fail"
      BY <3>1 DEF TypeOK, Callers
    <3>3. \A gen : Calling(gen) => Calling(gen)'
      BY <1>1, <3>2
    <3>4. \A gen : Queued(gen) => Queued(gen)'
      BY <3>1 DEF Queued
    <3> QED
      BY <2>1, <2>2, <3>3, <3>4 DEF FlagInv, inner, MailboxClosed
  <2> QED
    BY <2>3, <2>4
<1>6. CASE FailSend(c)
  <2>1. UNCHANGED <<mail, attempts>> /\ caller' = [caller EXCEPT ![c].pc = "done"]
        /\ FailGeneration(caller[c].gen, caller[c].err, {c})
    BY <1>6 DEF FailSend
  <2>2. /\ UNCHANGED <<generation, stopping>>
        /\ retryScheduled' = FALSE \/ (retryScheduled' = retryScheduled /\ generation # caller[c].gen)
    BY <2>1, FailGenerationFlag
  <2>3. \A d \in Commands \ {c} : caller'[d] = caller[d]
    BY <2>1 DEF TypeOK
  <2>4. \A gen : gen # caller[c].gen => (Calling(gen) => Calling(gen)')
    BY <2>3 DEF Calling
  <2>5. \A gen : (Queued(gen) => Queued(gen)') /\ (Resending(gen) => Resending(gen)')
    BY <2>1 DEF Queued, Resending, mail
  <2> QED
    BY <2>1, <2>2, <2>4, <2>5 DEF FlagInv, mail, MailboxClosed
<1> QED
  BY <1>2, <1>3, <1>4, <1>5, <1>6 DEF CallerStep

\* The worker leaves the callers and what is being resent alone.
LEMMA FlagWorker ==
  ASSUME TypeOK, TypeOK', IdsOK, FlagInv, WorkerStep
  PROVE  FlagInv'
<1>1. ~MailboxClosed /\ UNCHANGED <<generation, stopping, caller>>
  <2>1. CASE Recv \/ WorkerMark \/ MarkChildStarted
    BY <2>1 DEF Recv, WorkerMark, MarkChildStarted, MailboxClosed
  <2>2. CASE CancelConnectionTask \/ SpawnAttempt \/ InstallTask \/ CheckCurrent \/ CancelStale
    BY <2>2 DEF CancelConnectionTask, SpawnAttempt, InstallTask, CheckCurrent, CancelStale, inner, MailboxClosed
  <2>3. CASE CompleteWithoutTask
    BY <2>3, CompleteErrFlag DEF CompleteWithoutTask, MailboxClosed
  <2> QED
    BY <2>1, <2>2, <2>3 DEF WorkerStep
<1>2. \A gen : Calling(gen) => Calling(gen)'
  BY <1>1 DEF Calling
<1>3. \A a \in attempts : a.pc \in {"resend", "fail"} => a \in attempts'
  <2>1. CASE Recv \/ WorkerMark \/ MarkChildStarted \/ InstallTask \/ CheckCurrent \/ CompleteWithoutTask
    BY <2>1 DEF Recv, WorkerMark, MarkChildStarted, InstallTask, CheckCurrent, CompleteWithoutTask
  <2>2. CASE CancelConnectionTask \/ CancelStale
    BY <2>2 DEF CancelConnectionTask, CancelStale, AbortTask, IdsOK
  <2>3. CASE SpawnAttempt
    BY <2>3 DEF SpawnAttempt
  <2> QED
    BY <2>1, <2>2, <2>3 DEF WorkerStep
<1>4. \A gen : Resending(gen) => Resending(gen)'
  BY <1>3 DEF Resending
<1>5. CASE Recv
  <2>1. mailbox # << >> /\ mailbox' = Tail(mailbox)
    BY <1>5 DEF Recv
  <2>2. CASE Current(Head(mailbox).gen)
    BY <1>5, <2>2 DEF Recv, FlagInv
  <2>3. CASE ~Current(Head(mailbox).gen)
    <3>1. retryScheduled' = retryScheduled /\ (stopping \/ Head(mailbox).gen # generation)
      BY <1>5, <2>3 DEF Recv, Current
    <3>2. \A gen : Queued(gen) /\ Head(mailbox).gen # gen => Queued(gen)'
      BY <2>1, QueuedTail
    <3> QED
      BY <1>1, <1>2, <1>4, <3>1, <3>2 DEF FlagInv
  <2> QED
    BY <2>2, <2>3
<1>6. CASE ~Recv
  <2>1. mailbox' = mailbox /\ (retryScheduled' => retryScheduled)
    <3>1. CASE WorkerMark \/ MarkChildStarted
      BY <3>1 DEF WorkerMark, MarkChildStarted
    <3>2. CASE CancelConnectionTask \/ SpawnAttempt \/ InstallTask \/ CheckCurrent \/ CancelStale
      BY <3>2 DEF CancelConnectionTask, SpawnAttempt, InstallTask, CheckCurrent, CancelStale, inner
    <3>3. CASE CompleteWithoutTask
      BY <3>3, CompleteErrFlag DEF CompleteWithoutTask
    <3> QED
      BY <1>6, <3>1, <3>2, <3>3 DEF WorkerStep
  <2>2. \A gen : Queued(gen) => Queued(gen)'
    BY <2>1 DEF Queued
  <2> QED
    BY <1>1, <1>2, <1>4, <2>1, <2>2 DEF FlagInv
<1> QED
  BY <1>5, <1>6

LEMMA FlagAttempt ==
  ASSUME TypeOK, TypeOK', FlagInv, AttemptStep
  PROVE  FlagInv'
<1> PICK a \in attempts :
      \/ \E result \in {"Online"} \cup AttemptErrors : FinishAttempt(a, result)
      \/ AttemptMark(a)
      \/ CompleteReady(a)
      \/ Resend(a)
      \/ FailResend(a)
  BY DEF AttemptStep
<1>1. a \in Attempts
  BY DEF TypeOK
<1>2. UNCHANGED <<worker, workerAborted, caller, generation, stopping>>
  <2>1. CASE CompleteReady(a)
    BY <2>1 DEF CompleteReady, CompleteErr, CompleteOk, inner, mail
  <2>2. CASE FailResend(a)
    BY <2>2, FailGenerationFlag DEF FailResend, mail
  <2>3. CASE AttemptMark(a) \/ Resend(a) \/ \E result \in {"Online"} \cup AttemptErrors : FinishAttempt(a, result)
    BY <2>3 DEF AttemptMark, Resend, FinishAttempt, inner, mail
  <2> QED
    BY <2>1, <2>2, <2>3
<1>3. (\A gen : Calling(gen) => Calling(gen)') /\ (MailboxClosed => MailboxClosed')
  BY <1>2 DEF Calling, MailboxClosed
<1>4. \A b \in attempts \ {a} : b \in attempts'
  BY DEF FinishAttempt, AttemptMark, CompleteReady, Resend, FailResend, Advance
<1>5. \A gen : a.gen # gen \/ a.pc \notin {"resend", "fail"} => (Resending(gen) => Resending(gen)')
  BY <1>4 DEF Resending
<1>6. ASSUME mailbox' = mailbox PROVE \A gen : Queued(gen) => Queued(gen)'
  BY <1>6 DEF Queued
<1>7. CASE AttemptMark(a) \/ \E result \in {"Online"} \cup AttemptErrors : FinishAttempt(a, result)
  <2>1. a.pc \notin {"resend", "fail"} /\ mailbox' = mailbox /\ retryScheduled' = retryScheduled
    BY <1>7 DEF AttemptMark, FinishAttempt, mail, inner
  <2> QED
    BY <1>2, <1>3, <1>5, <1>6, <2>1 DEF FlagInv
<1>8. CASE CompleteReady(a)
  <2>1. a.pc = "complete" /\ mailbox' = mailbox
    BY <1>8 DEF CompleteReady, mail
  <2>2. CASE retryScheduled' => retryScheduled
    BY <1>2, <1>3, <1>5, <1>6, <2>1, <2>2 DEF FlagInv
  <2>3. CASE retryScheduled' /\ ~retryScheduled
    <3>1. Current(a.gen) /\ CompleteOk(a.gen, a.req) /\ Unserved(a.gen, a.req) # {} /\ a.res = "Online"
      <4>1. ~(UNCHANGED inner) /\ ~CompleteErr(a.gen, a.res)
        BY <2>3, CompleteErrFlag DEF inner
      <4>2. Current(a.gen) /\ CompleteOk(a.gen, a.req) /\ a.res = "Online"
        BY <1>8, <4>1 DEF CompleteReady
      <4>3. Unserved(a.gen, a.req) # {}
        BY <2>3, <4>2 DEF CompleteOk
      <4> QED
        BY <4>2, <4>3
    <3>2. PICK wanted : attempts' = (attempts \ {a}) \cup {[a EXCEPT !.pc = "resend", !.req = wanted]}
      BY <1>8, <2>3, <3>1 DEF CompleteReady, Advance
    <3>3. [a EXCEPT !.pc = "resend", !.req = wanted].gen = a.gen
          /\ [a EXCEPT !.pc = "resend", !.req = wanted].pc = "resend"
      BY <1>1 DEF Attempts
    <3>4. \A gen : gen = a.gen => Resending(gen)'
      BY <3>2, <3>3 DEF Resending
    <3> QED
      BY <1>1, <1>2, <3>1, <3>4 DEF FlagInv, Current, Attempts
  <2> QED
    BY <2>2, <2>3 DEF TypeOK
<1>9. CASE Resend(a)
  <2>1. a.pc = "resend" /\ UNCHANGED inner
    BY <1>9 DEF Resend
  <2>2. CASE CanSend
    <3> DEFINE m == [gen |-> a.gen, req |-> a.req]
    <3>1. m \in Intents /\ m.gen = a.gen
      BY <1>1 DEF Intents, Attempts
    <3>2. mailbox' = Append(mailbox, m)
      BY <1>9, <2>2 DEF Resend
    <3> HIDE DEF m
    <3>3. \A gen : gen = a.gen \/ Queued(gen) => Queued(gen)'
      BY <3>1, <3>2, QueuedAppend
    <3> QED
      BY <1>2, <1>3, <1>5, <2>1, <3>3 DEF FlagInv, inner
  <2>3. CASE ~CanSend
    <3>1. mailbox' = mailbox /\ attempts' = (attempts \ {a}) \cup {[a EXCEPT !.pc = "fail", !.res = SendError]}
      BY <1>9, <2>3 DEF Resend, Advance
    <3>2. [a EXCEPT !.pc = "fail", !.res = SendError].gen = a.gen
          /\ [a EXCEPT !.pc = "fail", !.res = SendError].pc = "fail"
      BY <1>1 DEF Attempts
    <3>3. \A gen : gen = a.gen => Resending(gen)'
      BY <3>1, <3>2 DEF Resending
    <3> QED
      BY <1>2, <1>3, <1>5, <1>6, <2>1, <3>1, <3>3 DEF FlagInv, inner
  <2> QED
    BY <2>2, <2>3
<1>10. CASE FailResend(a)
  <2>1. mailbox' = mailbox /\ FailGeneration(a.gen, a.res, {})
    BY <1>10 DEF FailResend, mail
  <2>2. retryScheduled' = FALSE \/ (retryScheduled' = retryScheduled /\ generation # a.gen)
    BY <2>1, FailGenerationFlag
  <2> QED
    BY <1>2, <1>3, <1>5, <1>6, <2>1, <2>2 DEF FlagInv
<1> QED
  BY <1>7, <1>8, <1>9, <1>10

\* The flag that lets a demand join without an enqueue is never left over: as long as
\* it is set an intent of the generation is in the mailbox, in the hands of a caller
\* or of a finished attempt, unless the mailbox itself is closed.
THEOREM RetryFlagStaysHonest == Spec => []RetryFlagIsHonest
<1> DEFINE Inv == IdsOK /\ FlagInv
<1>1. Init => Inv
  BY DEF Init, IdsOK, FlagInv, Idle
<1>2. TypeOK /\ TypeOK' /\ Inv /\ [Next]_vars => Inv'
  <2> SUFFICES ASSUME TypeOK, TypeOK', Inv, [Next]_vars PROVE FlagInv'
    BY IdsStep
  <2>1. CASE UNCHANGED vars
    BY <2>1 DEF FlagInv, Queued, Calling, Resending, MailboxClosed, vars, inner, mail
  <2>2. CASE SweepStep
    <3>1. /\ UNCHANGED <<mailbox, caller, generation, stopping, retryScheduled, worker>>
          /\ workerAborted => workerAborted'
      <4>1. CASE \E s \in sweeps : SweepTake(s)
        BY <4>1 DEF SweepTake, inner, mail
      <4>2. CASE \E s \in sweeps : SweepMark(s)
        BY <4>2 DEF SweepMark, mail
      <4>3. CASE \E s \in sweeps : SweepAbort(s)
        BY <4>3 DEF SweepAbort, inner
      <4> QED
        BY <2>2, <4>1, <4>2, <4>3 DEF SweepStep
    <3>2. \A a \in attempts : a.pc \in {"resend", "fail"} => a \in attempts'
      <4>1. \/ AbortTask
            \/ attempts' = attempts
        BY <2>2 DEF SweepStep, SweepTake, SweepMark, SweepAbort
      <4> QED
        BY <4>1 DEF AbortTask, IdsOK
    <3>3. \A gen : /\ Queued(gen) => Queued(gen)'
                   /\ Calling(gen) => Calling(gen)'
                   /\ Resending(gen) => Resending(gen)'
      BY <3>1, <3>2 DEF Queued, Calling, Resending
    <3>4. MailboxClosed => MailboxClosed'
      BY <3>1 DEF MailboxClosed
    <3> QED
      BY <3>1, <3>3, <3>4 DEF FlagInv
  <2>3. CASE Disconnect \/ PathLost \/ Stop
    BY <2>3 DEF Disconnect, PathLost, Stop, Invalidate, Drain, FlagInv
  <2>4. CASE \E caps \in InboundCaps : AdmitInbound(caps)
    BY <2>4 DEF AdmitInbound, FlagInv, Queued, Calling, Resending, MailboxClosed, mail
  <2> QED
    BY <2>1, <2>2, <2>3, <2>4, FlagCaller, FlagWorker, FlagAttempt DEF Next, Environment
<1>3. TypeOK /\ Inv => RetryFlagIsHonest
  BY DEF FlagInv, RetryFlagIsHonest, InFlight, Queued, Calling, Resending
<1> QED
  BY <1>1, <1>2, <1>3, TypeCorrect, PTL DEF Spec

-----------------------------------------------------------------------------
(* Connect attempts: the inductive invariant                               *)

\* Stages that hold no reservation of their own, and those after a claim.
CaUnowned == {"idle", "a_session", "a_begin", "reuse", "retire", "control", "b_begin", "b_wait", "b_sleep"}
CaClaimed == {"a_attach", "b_attach", "c_attach", "register"}
CaStageA == {"a_race", "a_attach"}
CaStageBC == {"b_resolve", "b_again", "b_apply", "b_race", "b_attach", "c_reserve", "c_data", "c_attach"}
CaStages == CaUnowned \cup CaClaimed \cup CaStageA \cup CaStageBC

CaViews == [epoch : Nat, rev : Nat, live : BOOLEAN]
CaRecords ==
  [at : CaStages, id : 0..caIssued, owns : BOOLEAN, guard : BOOLEAN, again : BOOLEAN,
   offer : 0..caPub, view : CaViews, answer : 0..caPub]
CcCaches == [epoch : Nat, rev : Nat, content : Nat, fresh : BOOLEAN, retired : SUBSET Nat, expected : Nat]

\* What every field can hold; ids in use have been issued.
CaTyped ==
  /\ caIssued \in 0..CaMaxIds
  /\ caSession \in [id : 0..caIssued, phase : {"absent", "reserved", "claimed"}]
  /\ caSession.id = 0 <=> caSession.phase = "absent"
  /\ caRoute \in [kind : {"none", "direct", "relay"}, caps : SUBSET {"message", "stream"}, session : 0..caIssued]
  /\ caIndex \in [session : 0..caIssued, epoch : Nat, caps : SUBSET {"message", "stream"}]
  /\ caCache \in CcCaches
  /\ caPub \in 1..Len(CaHistory) /\ caHint \in 0..caPub
  /\ caStray \subseteq 1..caPub
  /\ caCleanup \subseteq 1..caIssued /\ caOrphans \subseteq 1..caIssued /\ caQuiet \subseteq 1..caIssued
  /\ caClosing \subseteq [id : 0..caIssued, lost : BOOLEAN]

CaReserved(i) == [id |-> i, phase |-> "reserved"]

\* What an attempt at its stage holds: nothing when idle, a reservation of its own under
\* the flag of its stage, and none that is still a reservation after its claim.
CaRecOK(r, s) ==
  /\ r.at = "idle" => r = CaIdle
  /\ r.at \in CaUnowned => ~r.owns /\ ~r.guard
  /\ r.at \in CaStageA => ~r.guard
  /\ r.at \in CaStageBC => ~r.owns
  /\ r.owns \/ r.guard => r.id # 0
  /\ r.at \in CaClaimed => s # CaReserved(r.id)
  /\ r.at = "b_apply" => r.answer # 0

\* Each attempt, and the two promises about reservations.
CaHeld ==
  /\ caAtt \in [CaAttempts -> CaRecords]
  /\ \A a \in CaAttempts : CaRecOK(caAtt[a], caSession)
  /\ DroppedReservationCleaned /\ SleeperHasWaker

CaInv == CaTyped /\ CaHeld

-----------------------------------------------------------------------------
(* Connect attempts: the candidate cache                                   *)

LEMMA CaSnapTyped ==
  ASSUME NEW i \in 1..Len(CaHistory)
  PROVE  CaSnap(i) \in [epoch : Nat \ {CcNoEpoch}, rev : Nat, content : Nat]
BY ConnectAttemptAssumption, ElementOfSeq DEF CaSnap

\* An epoch that is retired is in the set afterwards, whatever was evicted.
LEMMA CcRetires ==
  ASSUME NEW R \in SUBSET Nat, NEW e \in Nat, NEW r \in CcRetire(R, e)
  PROVE  r \in SUBSET Nat /\ e \in r
BY DEF CcRetire

\* The cache d is at least as new as c.
CcForward(c, d) ==
  CcHas(c) /\ CcHas(d) =>
    IF d.epoch = c.epoch THEN d.rev >= c.rev ELSE d.epoch \notin c.retired /\ c.epoch \in d.retired

LEMMA CcApplyForward ==
  ASSUME NEW c \in CcCaches, NEW s \in [epoch : Nat \ {CcNoEpoch}, rev : Nat, content : Nat],
         NEW d \in CcApply(c, s)
  PROVE  d \in CcCaches /\ CcForward(c, d)
<1>1. CASE ~CcHas(c)
  <2>1. d = CcFromSnapshot(s)
    BY <1>1 DEF CcApply
  <2>2. CcFromSnapshot(s) \in CcCaches
    BY DEF CcFromSnapshot, CcCaches, CcNoEpoch
  <2> QED
    BY <1>1, <2>1, <2>2 DEF CcForward
<1>2. CASE CcHas(c) /\ s.epoch \in c.retired
  BY <1>2 DEF CcApply, CcCaches, CcForward
<1>3. CASE CcHas(c) /\ s.epoch \notin c.retired
  <2> DEFINE lifts == IF c.expected \in {CcNoEpoch, s.epoch} THEN {c.retired} ELSE CcRetire(c.retired, c.expected)
             lifted == {[c EXCEPT !.expected = CcNoEpoch, !.retired = r] : r \in lifts}
  <2>1. ASSUME NEW r \in lifts PROVE r \in SUBSET Nat
    <3>1. c.retired \in SUBSET Nat /\ c.expected \in Nat
      BY DEF CcCaches
    <3> QED
      BY <3>1, CcRetires
  <2>2. ASSUME NEW x \in lifted
        PROVE  x \in CcCaches /\ x.epoch = c.epoch /\ x.rev = c.rev
    <3>1. PICK r \in lifts : x = [c EXCEPT !.expected = CcNoEpoch, !.retired = r]
      OBVIOUS
    <3>2. r \in SUBSET Nat
      BY <2>1
    <3> HIDE DEF lifts
    <3> QED
      BY <3>1, <3>2 DEF CcCaches, CcNoEpoch
  <2>6. CcApply(c, s) = IF s.epoch = c.epoch /\ s.rev < c.rev THEN lifted
          ELSE IF s.epoch = c.epoch /\ s.rev = c.rev
            THEN {[x EXCEPT !.fresh = @ \/ s.content = c.content] : x \in lifted}
          ELSE UNION {{[CcFromSnapshot(s) EXCEPT !.retired = r] : r \in CcRetire(x.retired, c.epoch)} : x \in lifted}
    BY <1>3 DEF CcApply
  <2> HIDE DEF lifted
  <2>3. CASE s.epoch = c.epoch /\ s.rev < c.rev
    <3>1. d \in lifted
      BY <2>6, <2>3
    <3> QED
      BY <2>2, <3>1 DEF CcForward, CcCaches
  <2>4. CASE s.epoch = c.epoch /\ s.rev = c.rev
    <3>1. PICK x \in lifted : d = [x EXCEPT !.fresh = @ \/ s.content = c.content]
      BY <2>6, <2>4
    <3>2. x \in CcCaches /\ x.epoch = c.epoch /\ x.rev = c.rev
      BY <2>2
    <3>3. d \in CcCaches /\ d.epoch = c.epoch /\ d.rev = c.rev
      BY <3>1, <3>2 DEF CcCaches
    <3> QED
      BY <3>3 DEF CcForward, CcCaches
  <2>5. CASE ~(s.epoch = c.epoch /\ s.rev < c.rev) /\ ~(s.epoch = c.epoch /\ s.rev = c.rev)
    <3>1. PICK x \in lifted : \E r \in CcRetire(x.retired, c.epoch) : d = [CcFromSnapshot(s) EXCEPT !.retired = r]
      BY <2>6, <2>5
    <3>2. PICK r \in CcRetire(x.retired, c.epoch) : d = [CcFromSnapshot(s) EXCEPT !.retired = r]
      BY <3>1
    <3>3. r \in SUBSET Nat /\ c.epoch \in r
      BY <2>2, CcRetires DEF CcCaches
    <3>4. d \in CcCaches /\ d.epoch = s.epoch /\ d.rev = s.rev /\ d.retired = r
      BY <3>2, <3>3 DEF CcCaches, CcFromSnapshot, CcNoEpoch
    <3> QED
      BY <1>3, <2>5, <3>3, <3>4 DEF CcForward, CcCaches
  <2> QED
    BY <2>3, <2>4, <2>5
<1> QED
  BY <1>1, <1>2, <1>3

LEMMA CcInvalidateForward ==
  ASSUME NEW c \in CcCaches, NEW e \in Nat, NEW d \in CcInvalidate(c, e)
  PROVE  d \in CcCaches /\ CcForward(c, d)
<1>1. CASE ~CcHas(c) \/ e = c.epoch
  <2>1. d = c
    BY <1>1 DEF CcInvalidate
  <2> QED
    BY <2>1 DEF CcCaches, CcForward
<1>2. CASE CcHas(c) /\ e # c.epoch
  <2>1. PICK r \in CcRetire(c.retired, c.epoch) :
          d = [c EXCEPT !.retired = r, !.expected = e, !.content = 0, !.fresh = FALSE]
    BY <1>2 DEF CcInvalidate
  <2>2. r \in SUBSET Nat
    BY CcRetires DEF CcCaches
  <2>3. d \in CcCaches /\ d.epoch = c.epoch /\ d.rev = c.rev
    BY <2>1, <2>2 DEF CcCaches
  <2> QED
    BY <2>3 DEF CcForward, CcCaches
<1> QED
  BY <1>1, <1>2

-----------------------------------------------------------------------------
(* Connect attempts: a step of one attempt                                 *)

\* The step leaves the attempts as att, or as att with the waiting ones woken.  A
\* reservation that ends wakes them.
LEMMA CaMoveAll ==
  ASSUME NEW att, att \in [CaAttempts -> CaRecords'],
         caAtt' \in {att, CaWoken(att)},
         \A b \in CaAttempts : CaRecOK(att[b], caSession'),
         \A b \in CaAttempts : att[b].at = "b_sleep" =>
            caAtt' = CaWoken(att) \/ caSession' = CaReserved(att[b].id) \/ att[b].id \in caQuiet',
         caSession'.phase = "reserved" /\ caSession'.id \notin caOrphans' =>
            \/ caSession'.id \in caCleanup'
            \/ \E b \in CaAttempts : att[b].id = caSession'.id /\ (att[b].owns \/ att[b].guard)
  PROVE  CaHeld'
<1>0. ASSUME NEW b \in CaAttempts
      PROVE  /\ CaWoken(att)[b] = IF att[b].at = "b_sleep" THEN [att[b] EXCEPT !.at = "b_wait"] ELSE att[b]
             /\ att[b] \in CaRecords'
  BY DEF CaWoken
<1>2. ASSUME NEW b \in CaAttempts
      PROVE  /\ CaWoken(att)[b] \in CaRecords'
             /\ CaWoken(att)[b].id = att[b].id /\ CaWoken(att)[b].owns = att[b].owns
             /\ CaWoken(att)[b].guard = att[b].guard /\ CaWoken(att)[b].at # "b_sleep"
             /\ CaRecOK(CaWoken(att)[b], caSession')
  <2>1. CASE att[b].at = "b_sleep"
    <3>1. /\ CaWoken(att)[b] = [att[b] EXCEPT !.at = "b_wait"] /\ att[b] \in CaRecords'
          /\ CaRecOK(att[b], caSession')
      BY <1>0, <2>1
    <3>2. [att[b] EXCEPT !.at = "b_wait"] \in CaRecords'
      BY <3>1 DEF CaRecords, CaStages, CaUnowned
    <3> QED
      BY <2>1, <3>1, <3>2 DEF CaRecords, CaRecOK, CaUnowned, CaStageA, CaStageBC, CaClaimed
  <2>2. CASE att[b].at # "b_sleep"
    BY <1>0, <2>2
  <2> QED
    BY <2>1, <2>2
<1>3. CaWoken(att) \in [CaAttempts -> CaRecords']
  <2>1. CaWoken(att) = [b \in CaAttempts |-> CaWoken(att)[b]]
    BY DEF CaWoken
  <2> HIDE DEF CaRecords
  <2> QED
    BY <1>2, <2>1
<1>4. (caAtt \in [CaAttempts -> CaRecords])'
  BY <1>3
<1>5. (\A b \in CaAttempts : CaRecOK(caAtt[b], caSession))'
  BY <1>2 DEF CaRecOK
<1>6. DroppedReservationCleaned'
  <2>1. SUFFICES ASSUME caSession'.phase = "reserved", caSession'.id \notin caOrphans' PROVE CaOwned(caSession.id)'
    BY DEF DroppedReservationCleaned
  <2>2. CASE caSession'.id \in caCleanup'
    BY <2>2 DEF CaOwned
  <2>3. CASE \E b \in CaAttempts : att[b].id = caSession'.id /\ (att[b].owns \/ att[b].guard)
    <3>1. PICK b \in CaAttempts : att[b].id = caSession'.id /\ (att[b].owns \/ att[b].guard)
      BY <2>3
    <3>2. caAtt'[b].id = caSession'.id /\ (caAtt'[b].owns \/ caAtt'[b].guard)
      BY <1>2, <3>1
    <3> QED
      BY <3>2 DEF CaOwned
  <2> QED
    BY <2>1, <2>2, <2>3
<1>7. SleeperHasWaker'
  <2> SUFFICES ASSUME NEW b \in CaAttempts, caAtt'[b].at = "b_sleep"
               PROVE  caSession' = CaReserved(caAtt'[b].id) \/ caAtt'[b].id \in caQuiet'
    BY DEF SleeperHasWaker, CaReserved
  <2>1. caAtt' # CaWoken(att)
    BY <1>2
  <2> QED
    BY <2>1
<1> QED
  BY <1>4, <1>5, <1>6, <1>7 DEF CaHeld

\* One attempt goes on as r.  A reservation it owned ends with the step, or is still
\* looked after by it, by a cleanup, or was left by Stage A.
CaMoves(a, r) ==
  /\ caIssued' = caIssued /\ caPub' = caPub /\ caQuiet' = caQuiet
  /\ caCleanup \subseteq caCleanup' /\ caOrphans \subseteq caOrphans'
  /\ caSession' = caSession \/ caSession'.phase # "reserved"
  /\ caAtt' \in {[caAtt EXCEPT ![a] = r], CaWoken([caAtt EXCEPT ![a] = r])}
  /\ caSession' # caSession => caAtt' = CaWoken([caAtt EXCEPT ![a] = r])
  /\ CaRecOK(r, caSession')
  /\ r.at = "b_sleep" => caSession' = CaReserved(r.id) \/ r.id \in caQuiet
  /\ caSession' = CaReserved(caAtt[a].id) /\ (caAtt[a].owns \/ caAtt[a].guard) =>
       (r.id = caAtt[a].id /\ (r.owns \/ r.guard)) \/ caAtt[a].id \in caCleanup' \cup caOrphans'

LEMMA CaMove ==
  ASSUME CaInv, NEW a \in CaAttempts, NEW r \in CaRecords, CaMoves(a, r)
  PROVE  CaHeld'
<1> DEFINE att == [caAtt EXCEPT ![a] = r]
<1>0. /\ caAtt \in [CaAttempts -> CaRecords] /\ (\A b \in CaAttempts : CaRecOK(caAtt[b], caSession))
      /\ DroppedReservationCleaned /\ SleeperHasWaker
      /\ caSession = CaReserved(caSession.id) \/ caSession.phase # "reserved"
  BY DEF CaInv, CaHeld, CaTyped, CaReserved
<1>1. /\ att \in [CaAttempts -> CaRecords] /\ att[a] = r
      /\ \A b \in CaAttempts : b # a => att[b] = caAtt[b]
  BY <1>0
<1>2. \A b \in CaAttempts : CaRecOK(att[b], caSession')
  <2> SUFFICES ASSUME NEW b \in CaAttempts, b # a PROVE CaRecOK(caAtt[b], caSession')
    BY <1>1 DEF CaMoves
  <2>1. caSession' # caSession => caSession' # CaReserved(caAtt[b].id)
    BY DEF CaMoves, CaReserved
  <2> QED
    BY <1>0, <2>1 DEF CaRecOK
<1>3. \A b \in CaAttempts : att[b].at = "b_sleep" =>
        caAtt' = CaWoken(att) \/ caSession' = CaReserved(att[b].id) \/ att[b].id \in caQuiet'
  <2> SUFFICES ASSUME NEW b \in CaAttempts, att[b].at = "b_sleep", caSession' = caSession, b # a
               PROVE  caSession' = CaReserved(att[b].id) \/ att[b].id \in caQuiet'
    BY <1>1 DEF CaMoves
  <2> QED
    BY <1>0, <1>1 DEF SleeperHasWaker, CaMoves, CaReserved
<1>4. caSession'.phase = "reserved" /\ caSession'.id \notin caOrphans' =>
            \/ caSession'.id \in caCleanup'
            \/ \E b \in CaAttempts : att[b].id = caSession'.id /\ (att[b].owns \/ att[b].guard)
  <2> SUFFICES ASSUME caSession'.phase = "reserved", caSession'.id \notin caOrphans', caSession'.id \notin caCleanup'
               PROVE  \E b \in CaAttempts : att[b].id = caSession'.id /\ (att[b].owns \/ att[b].guard)
    OBVIOUS
  <2>1. caSession' = caSession /\ caSession = CaReserved(caSession.id)
    BY <1>0 DEF CaMoves
  <2>2. PICK b \in CaAttempts : caAtt[b].id = caSession.id /\ (caAtt[b].owns \/ caAtt[b].guard)
    BY <1>0, <2>1 DEF DroppedReservationCleaned, CaOwned, CaMoves
  <2>3. CASE b = a
    <3>1. r.id = caSession.id /\ (r.owns \/ r.guard)
      BY <2>1, <2>2, <2>3 DEF CaMoves
    <3> QED
      BY <1>1, <2>1, <3>1
  <2>4. CASE b # a
    BY <1>1, <2>1, <2>2, <2>4
  <2> QED
    BY <2>3, <2>4
<1> HIDE DEF att
<1>5. caAtt' \in {att, CaWoken(att)} /\ att \in [CaAttempts -> CaRecords']
  BY <1>1 DEF CaMoves, att, CaRecords
<1> QED
  BY <1>1, <1>2, <1>3, <1>4, <1>5, CaMoveAll

-----------------------------------------------------------------------------
(* Connect attempts: one lemma per action                                  *)

\* What a step of an attempt leaves alone.
caStill == <<caIssued, caPub, caHint, caClosing, caOrphans, caQuiet>>

LEMMA CaWorldTyped ==
  ASSUME CaTyped, UNCHANGED caStill, caCache' = caCache \/ caCache' \in CcCaches,
         \/ caSession' \in {caSession, CaNoSession}
         \/ caSession' = [caSession EXCEPT !.phase = "claimed"] /\ caSession.id # 0,
         caRoute' \in {caRoute, CaNoRoute}, caIndex' \in {caIndex, CaNoEntry},
         caStray' \subseteq 1..caPub, caCleanup' \subseteq caCleanup
  PROVE  CaTyped'
<1>1. (caSession \in [id : 0..caIssued, phase : {"absent", "reserved", "claimed"}])' /\ (caSession.id = 0 <=> caSession.phase = "absent")'
  BY DEF CaTyped, CaNoSession, caStill
<1>2. (caRoute \in [kind : {"none", "direct", "relay"}, caps : SUBSET {"message", "stream"}, session : 0..caIssued])'
  BY DEF CaTyped, CaNoRoute, caStill
<1>3. (caIndex \in [session : 0..caIssued, epoch : Nat, caps : SUBSET {"message", "stream"}])'
  BY DEF CaTyped, CaNoEntry, caStill, CcNoEpoch
<1> QED
  BY <1>1, <1>2, <1>3 DEF CaTyped, caStill

\* An attempt that has returned.
LEMMA CaIdleTyped == CaTyped => CaIdle \in CaRecords /\ \A s : CaRecOK(CaIdle, s)
BY DEF CaTyped, CaIdle, CaRecords, CaStages, CaUnowned, CaViews, CaNoView, CcNoEpoch, CaRecOK,
       CaStageA, CaStageBC, CaClaimed

LEMMA CaLeaveTyped ==
  ASSUME CaInv, NEW a \in CaAttempts
  PROVE  CaLeave(a) \subseteq 1..caPub
<1>1. caAtt[a].offer \in 0..caPub /\ caPub \in Nat /\ caStray \subseteq 1..caPub
  BY DEF CaInv, CaHeld, CaTyped, CaRecords
<1>2. caAtt[a].offer # 0 => caAtt[a].offer \in 1..caPub
  BY <1>1
<1> QED
  BY <1>1, <1>2 DEF CaLeave

\* fail_session of i while the attempts become att.
LEMMA CaFails ==
  ASSUME CaInv, NEW i, NEW att, CaFail(i, att)
  PROVE  /\ caSession' \in {caSession, CaNoSession} /\ caSession' # CaReserved(i)
         /\ caRoute' \in {caRoute, CaNoRoute} /\ caIndex' \in {caIndex, CaNoEntry}
         /\ caAtt' \in {att, CaWoken(att)}
         /\ caSession' # caSession => caAtt' = CaWoken(att)
BY DEF CaFail, CaReserved, CaNoSession

LEMMA CaGiveUpInv ==
  ASSUME CaInv, NEW a \in CaAttempts, CaGiveUp(a)
  PROVE  CaInv'
<1>1. CaFail(caAtt[a].id, [caAtt EXCEPT ![a] = CaIdle]) /\ caStray' = CaLeave(a) /\ UNCHANGED <<caCache, caCleanup, caWorld>>
  BY DEF CaGiveUp, CaEnd
<1>2. CaTyped'
  BY <1>1, CaFails, CaWorldTyped, CaLeaveTyped DEF CaInv, caWorld, caStill
<1>3. CaIdle \in CaRecords /\ CaRecOK(CaIdle, caSession')
  BY CaIdleTyped DEF CaInv
<1>4. CaMoves(a, CaIdle)
  <2>1. caSession' = caSession \/ caSession'.phase # "reserved"
    BY <1>1, CaFails DEF CaNoSession
  <2>2. CaIdle.at # "b_sleep"
    BY DEF CaIdle
  <2> QED
    BY <1>1, <1>3, <2>1, <2>2, CaFails DEF CaMoves, caWorld
<1> QED
  BY <1>2, <1>3, <1>4, CaMove DEF CaInv

LEMMA CaReturnInv ==
  ASSUME CaInv, NEW a \in CaAttempts, CaReturn(a), ~caAtt[a].owns, ~caAtt[a].guard
  PROVE  CaInv'
<1>1. caAtt' = [caAtt EXCEPT ![a] = CaIdle] /\ caStray' = CaLeave(a)
      /\ UNCHANGED <<caSession, caRoute, caIndex, caCache, caCleanup, caWorld>>
  BY DEF CaReturn, CaEnd
<1>2. CaTyped'
  BY <1>1, CaWorldTyped, CaLeaveTyped DEF CaInv, caWorld, caStill
<1>3. CaIdle \in CaRecords /\ CaRecOK(CaIdle, caSession')
  BY CaIdleTyped DEF CaInv
<1>4. CaMoves(a, CaIdle)
  BY <1>1, <1>3 DEF CaMoves, CaIdle, caWorld
<1> QED
  BY <1>2, <1>3, <1>4, CaMove DEF CaInv

\* The attempt goes on as r; nothing else changes, the cache apart.
LEMMA CaOnInv ==
  ASSUME CaInv, NEW a \in CaAttempts, NEW r \in CaRecords, caAtt' = [caAtt EXCEPT ![a] = r],
         UNCHANGED <<caSession, caRoute, caIndex, caStray, caCleanup, caStill>>,
         caCache' = caCache \/ caCache' \in CcCaches,
         CaRecOK(r, caSession),
         r.at = "b_sleep" => caSession = CaReserved(r.id) \/ r.id \in caQuiet,
         caSession = CaReserved(caAtt[a].id) /\ (caAtt[a].owns \/ caAtt[a].guard) => r.id = caAtt[a].id /\ (r.owns \/ r.guard)
  PROVE  CaInv'
<1>1. CaTyped'
  BY CaWorldTyped DEF CaInv, CaTyped, caStill
<1>2. CaMoves(a, r)
  BY DEF CaMoves, caStill, CaRecOK
<1> QED
  BY <1>1, <1>2, CaMove DEF CaInv
LEMMA CaAttTyped ==
  ASSUME CaInv, NEW a \in CaAttempts
  PROVE  /\ caAtt \in [CaAttempts -> CaRecords] /\ caAtt[a] \in CaRecords /\ CaRecOK(caAtt[a], caSession)
         /\ CaTyped
         /\ caSession = CaReserved(caSession.id) \/ caSession.phase # "reserved"
BY DEF CaInv, CaHeld, CaTyped, CaReserved

\* Where a Stage A without a route leads.
LEMMA CaMissedTyped ==
  ASSUME CaInv, NEW a \in CaAttempts, caAtt[a].at \in {"idle", "a_begin", "a_race"}
  PROVE  /\ CaMissed(a) \in CaRecords /\ \A s : CaRecOK(CaMissed(a), s)
         /\ CaMissed(a).at # "b_sleep"
<1>0. caAtt[a] \in CaRecords /\ CaRecOK(caAtt[a], caSession) /\ CaIdle \in CaRecords /\ \A s : CaRecOK(CaIdle, s)
  BY CaAttTyped, CaIdleTyped
<1>1. CASE a \in CaProbes
  BY <1>0, <1>1 DEF CaMissed, CaIdle
<1>2. CASE a \notin CaProbes
  <2>1. [caAtt[a] EXCEPT !.at = "reuse", !.id = 0, !.owns = FALSE] \in CaRecords
    <3>1. 0 \in 0..caIssued
      BY DEF CaInv, CaTyped
    <3> QED
      BY <1>0, <3>1 DEF CaRecords, CaStages, CaUnowned, CaClaimed, CaStageA, CaStageBC
  <2>2. ~caAtt[a].guard
    BY <1>0 DEF CaRecOK, CaUnowned, CaStageA
  <2> QED
    BY <1>0, <1>2, <2>1, <2>2 DEF CaMissed, CaRecOK, CaRecords, CaStages, CaUnowned, CaClaimed, CaStageA, CaStageBC
<1> QED
  BY <1>1, <1>2

LEMMA CaStartInv ==
  ASSUME CaInv, NEW a \in CaAttempts, CaStart(a)
  PROVE  CaInv'
<1> DEFINE q(e) == [CaIdle EXCEPT !.at = "a_session", !.view.epoch = e]
<1>0. caAtt[a] \in CaRecords /\ CaRecOK(caAtt[a], caSession) /\ caAtt \in [CaAttempts -> CaRecords] /\ caAtt[a].at = "idle"
  BY CaAttTyped DEF CaStart
<1>1. ~caAtt[a].owns /\ ~caAtt[a].guard
  BY <1>0 DEF CaRecOK, CaUnowned
<1>2. UNCHANGED <<caSession, caRoute, caIndex, caCache, caStray, caCleanup, caStill>>
  BY DEF CaStart, caStill
<1>3. ASSUME NEW e \in Nat PROVE q(e) \in CaRecords /\ CaRecOK(q(e), caSession) /\ q(e).at # "b_sleep"
  <2>1. CaIdle \in CaRecords /\ CaRecOK(CaIdle, caSession)
    BY CaIdleTyped DEF CaInv
  <2> QED
    BY <2>1 DEF CaRecords, CaIdle, CaNoView, CaViews, CaRecOK, CaStages, CaUnowned, CaClaimed, CaStageA, CaStageBC
<1>4. (IF caCache.fresh THEN caCache.epoch ELSE CcNoEpoch) \in Nat
  BY DEF CaInv, CaTyped, CcCaches, CcNoEpoch
<1>5. \/ caAtt' = caAtt \/ caAtt' = [caAtt EXCEPT ![a] = CaMissed(a)]
      \/ caAtt' = [caAtt EXCEPT ![a] = q(IF caCache.fresh THEN caCache.epoch ELSE CcNoEpoch)]
  BY DEF CaStart
<1> HIDE DEF q
<1>6. CASE caAtt' = caAtt
  <2>1. caAtt' = [caAtt EXCEPT ![a] = caAtt[a]]
    BY <1>0, <1>6
  <2> QED
    BY <1>0, <1>1, <1>2, <2>1, CaOnInv
<1>7. CASE caAtt' = [caAtt EXCEPT ![a] = CaMissed(a)]
  BY <1>0, <1>1, <1>2, <1>7, CaMissedTyped, CaOnInv
<1>8. CASE caAtt' = [caAtt EXCEPT ![a] = q(IF caCache.fresh THEN caCache.epoch ELSE CcNoEpoch)]
  BY <1>1, <1>2, <1>3, <1>4, <1>8, CaOnInv
<1> QED
  BY <1>5, <1>6, <1>7, <1>8

\* Stages without a reservation lead to one another.
LEMMA CaStageASessionInv ==
  ASSUME CaInv, NEW a \in CaAttempts, CaStageASession(a)
  PROVE  CaInv'
<1> DEFINE r == IF caSession.id # 0 THEN [caAtt[a] EXCEPT !.at = "a_race", !.id = caSession.id]
                ELSE [caAtt[a] EXCEPT !.at = "a_begin"]
<1>0. caAtt[a] \in CaRecords /\ CaRecOK(caAtt[a], caSession) /\ caAtt \in [CaAttempts -> CaRecords]
      /\ caAtt[a].at = "a_session" /\ caSession.id \in 0..caIssued
  BY CaAttTyped DEF CaStageASession, CaTyped
<1>1. ~caAtt[a].owns /\ ~caAtt[a].guard
  BY <1>0 DEF CaRecOK, CaUnowned
<1>2. r \in CaRecords /\ CaRecOK(r, caSession) /\ r.at # "b_sleep"
  BY <1>0, <1>1 DEF CaRecords, CaRecOK, CaStages, CaUnowned, CaClaimed, CaStageA, CaStageBC
<1>3. caAtt' = [caAtt EXCEPT ![a] = r]
  BY <1>0 DEF CaStageASession, CaTo, CaRecords
<1>4. UNCHANGED <<caSession, caRoute, caIndex, caCache, caStray, caCleanup, caStill>>
  BY DEF CaStageASession, caWorld, caStill
<1> HIDE DEF r
<1> QED
  BY <1>1, <1>2, <1>3, <1>4, CaOnInv

\* A reservation under a new id: nobody has, sleeps on or cleans up that id yet.
LEMMA CaReserveInv ==
  ASSUME CaInv, NEW a \in CaAttempts, NEW r, r \in CaRecords',
         caSession.id = 0, caIssued < CaMaxIds, caIssued' = caIssued + 1,
         caSession' = CaReserved(caIssued + 1), caAtt' = [caAtt EXCEPT ![a] = r],
         UNCHANGED <<caRoute, caIndex, caCache, caStray, caCleanup, caPub, caHint, caClosing, caOrphans, caQuiet>>,
         r.id = caIssued + 1, r.owns \/ r.guard, CaRecOK(r, caSession'), r.at # "b_sleep"
  PROVE  CaInv'
<1>0. /\ caAtt \in [CaAttempts -> CaRecords] /\ (\A b \in CaAttempts : CaRecOK(caAtt[b], caSession))
      /\ DroppedReservationCleaned /\ SleeperHasWaker /\ CaTyped
  BY DEF CaInv, CaHeld
<1>1. caIssued \in Nat /\ CaMaxIds \in Nat /\ 0..caIssued \subseteq 0..caIssued' /\ 1..caIssued \subseteq 1..caIssued'
      /\ caIssued' \in 0..CaMaxIds /\ caIssued' \in 0..caIssued'
  BY <1>0, ConnectAttemptAssumption DEF CaTyped
<1>2. CaTyped'
  <2>1. (caSession \in [id : 0..caIssued, phase : {"absent", "reserved", "claimed"}])' /\ (caSession.id = 0 <=> caSession.phase = "absent")'
    BY <1>1 DEF CaReserved
  <2>2. (caRoute \in [kind : {"none", "direct", "relay"}, caps : SUBSET {"message", "stream"}, session : 0..caIssued])'
    BY <1>0, <1>1 DEF CaTyped
  <2>3. (caIndex \in [session : 0..caIssued, epoch : Nat, caps : SUBSET {"message", "stream"}])'
    BY <1>0, <1>1 DEF CaTyped
  <2>4. (caClosing \subseteq [id : 0..caIssued, lost : BOOLEAN])'
    BY <1>0, <1>1 DEF CaTyped
  <2> QED
    BY <1>0, <1>1, <2>1, <2>2, <2>3, <2>4 DEF CaTyped
<1>3. CaRecords \subseteq CaRecords'
  BY <1>1 DEF CaRecords
<1> DEFINE att == [caAtt EXCEPT ![a] = r]
<1>4. att \in [CaAttempts -> CaRecords'] /\ att[a] = r /\ \A b \in CaAttempts : b # a => att[b] = caAtt[b]
  BY <1>0, <1>3
<1>5. \A b \in CaAttempts : CaRecOK(att[b], caSession')
  <2> SUFFICES ASSUME NEW b \in CaAttempts, b # a PROVE CaRecOK(caAtt[b], caSession')
    BY <1>4
  <2>1. caAtt[b].id \in 0..caIssued
    BY <1>0 DEF CaRecords
  <2>2. caSession' # CaReserved(caAtt[b].id)
    BY <1>1, <2>1 DEF CaReserved
  <2> QED
    BY <1>0, <2>2 DEF CaRecOK
<1>6. \A b \in CaAttempts : att[b].at = "b_sleep" => att[b].id \in caQuiet'
  BY <1>0, <1>4 DEF SleeperHasWaker, CaTyped
<1>7. att[a].id = caSession'.id /\ (att[a].owns \/ att[a].guard)
  BY <1>4 DEF CaReserved
<1>8. caAtt' \in {att, CaWoken(att)}
  OBVIOUS
<1> HIDE DEF att
<1> QED
  BY <1>2, <1>4, <1>5, <1>6, <1>7, <1>8, CaMoveAll DEF CaInv

\* The record of an attempt that has reserved the next id.
LEMMA CaNumbered ==
  ASSUME CaTyped, NEW r \in CaRecords, caIssued' = caIssued + 1, caPub' = caPub
  PROVE  [r EXCEPT !.id = caIssued + 1] \in CaRecords'
<1>1. caIssued + 1 \in 0..(caIssued + 1) /\ 0..caIssued \subseteq 0..(caIssued + 1)
  BY DEF CaTyped
<1> QED
  BY <1>1 DEF CaRecords

LEMMA CaStageABeginInv ==
  ASSUME CaInv, NEW a \in CaAttempts, CaStageABegin(a)
  PROVE  CaInv'
<1>0. caAtt[a] \in CaRecords /\ CaRecOK(caAtt[a], caSession) /\ caAtt \in [CaAttempts -> CaRecords]
      /\ caAtt[a].at = "a_begin" /\ caSession.id \in 0..caIssued /\ caIssued \in Nat
  BY CaAttTyped DEF CaStageABegin, CaTyped
<1>1. ~caAtt[a].owns /\ ~caAtt[a].guard
  BY <1>0 DEF CaRecOK, CaUnowned
<1>2. CASE CaReserveId(a, [caAtt[a] EXCEPT !.at = "a_race", !.owns = TRUE])
  <2> DEFINE r == [[caAtt[a] EXCEPT !.at = "a_race", !.owns = TRUE] EXCEPT !.id = caIssued + 1]
  <2>1. caIssued' = caIssued + 1 /\ caPub' = caPub
    BY <1>2 DEF CaReserveId
  <2>4. /\ [caAtt[a] EXCEPT !.at = "a_race", !.owns = TRUE] \in CaRecords
        /\ r.id = caIssued + 1 /\ r.owns /\ r.at = "a_race"
    BY <1>0 DEF CaRecords, CaStages, CaUnowned, CaClaimed, CaStageA, CaStageBC
  <2>2. r \in CaRecords' /\ r.id = caIssued + 1 /\ r.owns /\ r.at = "a_race"
    BY <2>1, <2>4, CaNumbered DEF CaInv
  <2>3. CaRecOK(r, caSession')
    BY <1>0, <1>1, <2>2 DEF CaRecords, CaRecOK, CaStages, CaUnowned, CaClaimed, CaStageA, CaStageBC
  <2> HIDE DEF r
  <2> QED
    BY <1>2, <2>2, <2>3, CaReserveInv DEF CaReserveId, CaReserved, r
<1>3. CASE /\ caSession.phase = "claimed" /\ CaSupports(a)
           /\ caAtt' = [caAtt EXCEPT ![a].at = "a_race", ![a].id = caSession.id]
           /\ UNCHANGED <<caSession, caRoute, caIndex, caCache, caStray, caCleanup, caWorld>>
  <2> DEFINE r == [caAtt[a] EXCEPT !.at = "a_race", !.id = caSession.id]
  <2>1. r \in CaRecords /\ CaRecOK(r, caSession) /\ r.at # "b_sleep"
    BY <1>0, <1>1 DEF CaRecords, CaRecOK, CaStages, CaUnowned, CaClaimed, CaStageA, CaStageBC
  <2>2. caAtt' = [caAtt EXCEPT ![a] = r]
    BY <1>0, <1>3 DEF CaRecords
  <2> HIDE DEF r
  <2> QED
    BY <1>1, <1>3, <2>1, <2>2, CaOnInv DEF caWorld, caStill
<1>4. CASE /\ caAtt' = [caAtt EXCEPT ![a] = CaMissed(a)]
           /\ UNCHANGED <<caSession, caRoute, caIndex, caCache, caStray, caCleanup, caWorld>>
  BY <1>0, <1>1, <1>4, CaMissedTyped, CaOnInv DEF caWorld, caStill
<1> QED
  BY <1>2, <1>3, <1>4 DEF CaStageABegin

\* A candidate claims the reservation: everybody who waits for it is woken.
LEMMA CaClaimInv ==
  ASSUME CaInv, NEW a \in CaAttempts, NEW stage \in CaClaimed, CaClaim(a, stage),
         (stage = "a_attach" /\ caAtt[a].at \in CaStageA) \/ (stage # "a_attach" /\ caAtt[a].at \in CaStageBC)
  PROVE  CaInv'
<1> DEFINE r == [caAtt[a] EXCEPT !.at = stage]
<1>0. caAtt[a] \in CaRecords /\ CaRecOK(caAtt[a], caSession) /\ caAtt \in [CaAttempts -> CaRecords] /\ CaTyped
  BY CaAttTyped
<1>1. caSession' = [caSession EXCEPT !.phase = "claimed"] /\ caSession.id # 0
  BY <1>0 DEF CaClaim, CaTyped
<1>2. caSession'.phase = "claimed"
  BY <1>0, <1>1 DEF CaTyped
<1>3. CaTyped'
  BY <1>0, <1>1, CaWorldTyped DEF CaClaim, caWorld, caStill, CaTyped
<1>4. r \in CaRecords /\ r.at = stage
  BY <1>0 DEF CaRecords, CaStages
<1>5. CaRecOK(r, caSession')
  BY <1>0, <1>2, <1>4 DEF CaRecords, CaRecOK, CaReserved, CaUnowned, CaClaimed, CaStageA, CaStageBC
<1>6. caAtt' = CaWoken([caAtt EXCEPT ![a] = r])
  BY <1>0 DEF CaClaim, CaTo, CaRecords
<1>7. r.at # "b_sleep" /\ caSession' # CaReserved(caAtt[a].id)
  BY <1>2, <1>4 DEF CaClaimed, CaReserved
<1> HIDE DEF r
<1>8. CaMoves(a, r)
  BY <1>2, <1>5, <1>6, <1>7 DEF CaMoves, CaClaim, caWorld
<1> QED
  BY <1>3, <1>4, <1>8, CaMove DEF CaInv

\* Stage A ends without a route.
LEMMA CaStageAFailInv ==
  ASSUME CaInv, NEW a \in CaAttempts, NEW r \in CaRecords, CaStageAFail(a, r),
         \A s : CaRecOK(r, s), r.at # "b_sleep", ~caAtt[a].guard
  PROVE  CaInv'
<1>1. CASE caAtt[a].owns
  <2>1. CaFail(caAtt[a].id, [caAtt EXCEPT ![a] = r]) /\ UNCHANGED <<caCache, caStray, caCleanup, caWorld>>
    BY <1>1 DEF CaStageAFail
  <2>2. CaTyped'
    BY <2>1, CaFails, CaWorldTyped DEF CaInv, CaTyped, caWorld, caStill
  <2>3. caSession' = caSession \/ caSession'.phase # "reserved"
    BY <2>1, CaFails DEF CaNoSession
  <2>4. CaMoves(a, r)
    BY <2>1, <2>3, CaFails DEF CaMoves, caWorld
  <2> QED
    BY <2>2, <2>4, CaMove DEF CaInv
<1>2. CASE ~caAtt[a].owns
  BY <1>2, CaOnInv DEF CaStageAFail, caWorld, caStill
<1> QED
  BY <1>1, <1>2

LEMMA CaStageARaceInv ==
  ASSUME CaInv, NEW a \in CaAttempts, CaStageARace(a)
  PROVE  CaInv'
<1>0. caAtt[a].at = "a_race" /\ ~caAtt[a].guard
  BY CaAttTyped DEF CaStageARace, CaRecOK, CaStageA
<1>1. CASE CaClaim(a, "a_attach")
  BY <1>0, <1>1, CaClaimInv DEF CaStageA, CaClaimed
<1>2. CASE CaStageAFail(a, CaMissed(a))
  BY <1>0, <1>2, CaMissedTyped, CaStageAFailInv
<1> QED
  BY <1>1, <1>2 DEF CaStageARace

\* The path is published for the session that was claimed.
LEMMA CaAttachInv ==
  ASSUME CaInv, NEW a \in CaAttempts, NEW kind \in {"direct", "relay"}, CaAttach(a, kind, "register"),
         caAtt[a].at \in CaClaimed
  PROVE  CaInv'
<1> DEFINE r == [caAtt[a] EXCEPT !.at = "register", !.view.live = FALSE]
<1>0. caAtt[a] \in CaRecords /\ CaRecOK(caAtt[a], caSession) /\ caAtt \in [CaAttempts -> CaRecords] /\ CaTyped
  BY CaAttTyped
<1>1. caAtt[a].id \in 0..caIssued /\ caSession # CaReserved(caAtt[a].id)
  BY <1>0 DEF CaRecords, CaRecOK
<1>2. (caRoute \in [kind : {"none", "direct", "relay"}, caps : SUBSET {"message", "stream"}, session : 0..caIssued])'
  BY <1>1 DEF CaAttach, CaRoutes, caWorld
<1>3. CaTyped'
  BY <1>0, <1>2 DEF CaTyped, CaAttach, caWorld
<1>4. r \in CaRecords /\ r.at = "register" /\ r.id = caAtt[a].id /\ r.owns = caAtt[a].owns /\ r.guard = caAtt[a].guard
  BY <1>0 DEF CaRecords, CaViews, CaStages, CaUnowned, CaClaimed, CaStageA, CaStageBC
<1>5. CaRecOK(r, caSession')
  BY <1>0, <1>1, <1>4 DEF CaRecOK, CaAttach, CaStages, CaUnowned, CaClaimed, CaStageA, CaStageBC
<1>6. caAtt' = CaWoken([caAtt EXCEPT ![a] = r])
  <2>1. [caAtt EXCEPT ![a].at = "register", ![a].view.live = FALSE] = [caAtt EXCEPT ![a] = r]
    BY <1>0 DEF CaRecords
  <2> QED
    BY <2>1 DEF CaAttach
<1> HIDE DEF r
<1>8. CaMoves(a, r)
  BY <1>1, <1>4, <1>5, <1>6 DEF CaMoves, CaAttach, caWorld
<1> QED
  BY <1>3, <1>4, <1>8, CaMove DEF CaInv

LEMMA CaStageAAttachInv ==
  ASSUME CaInv, NEW a \in CaAttempts, CaStageAAttach(a)
  PROVE  CaInv'
<1>0. caAtt[a].at = "a_attach" /\ ~caAtt[a].guard /\ CaTyped
  BY CaAttTyped DEF CaStageAAttach, CaRecOK, CaStageA
<1>1. CASE CaAttach(a, "direct", "register")
  BY <1>0, <1>1, CaAttachInv DEF CaClaimed
<1>2. CASE CaStageAFail(a, CaIdle)
  <2>1. CaIdle.at # "b_sleep"
    BY DEF CaIdle
  <2> QED
    BY <1>0, <1>2, <2>1, CaIdleTyped, CaStageAFailInv
<1> QED
  BY <1>1, <1>2 DEF CaStageAAttach

LEMMA CaRegisterInv ==
  ASSUME CaInv, NEW a \in CaAttempts, CaRegister(a)
  PROVE  CaInv'
<1>0. caAtt[a] \in CaRecords /\ CaRecOK(caAtt[a], caSession) /\ CaTyped /\ caAtt[a].at = "register"
  BY CaAttTyped DEF CaRegister
<1>1. caAtt[a].id \in 0..caIssued /\ caAtt[a].view.epoch \in Nat /\ caSession # CaReserved(caAtt[a].id)
  BY <1>0 DEF CaRecords, CaViews, CaRecOK, CaClaimed
<1>2. (caIndex \in [session : 0..caIssued, epoch : Nat, caps : SUBSET {"message", "stream"}])'
  BY <1>0, <1>1 DEF CaRegister, CaTyped, caWorld
<1>3. CaTyped'
  BY <1>0, <1>2, CaLeaveTyped DEF CaTyped, CaRegister, caWorld
<1>4. CaIdle \in CaRecords /\ CaRecOK(CaIdle, caSession') /\ CaIdle.at = "idle"
  BY <1>0, CaIdleTyped DEF CaIdle
<1>5. CaMoves(a, CaIdle)
  BY <1>1, <1>4 DEF CaMoves, CaRegister, CaEnd, caWorld
<1> QED
  BY <1>3, <1>4, <1>5, CaMove DEF CaInv

LEMMA CaReuseInv ==
  ASSUME CaInv, NEW a \in CaAttempts, CaReuse(a)
  PROVE  CaInv'
<1>0. caAtt[a] \in CaRecords /\ CaRecOK(caAtt[a], caSession) /\ caAtt \in [CaAttempts -> CaRecords]
      /\ caAtt[a].at = "reuse" /\ caSession.id \in 0..caIssued
  BY CaAttTyped DEF CaReuse, CaTyped
<1>1. ~caAtt[a].owns /\ ~caAtt[a].guard
  BY <1>0 DEF CaRecOK, CaUnowned
<1>2. CASE CaGo(a, "control")
  <2> DEFINE r == [caAtt[a] EXCEPT !.at = "control"]
  <2>1. r \in CaRecords /\ CaRecOK(r, caSession) /\ r.at # "b_sleep"
    BY <1>0, <1>1 DEF CaRecords, CaRecOK, CaStages, CaUnowned, CaClaimed, CaStageA, CaStageBC
  <2>2. caAtt' = [caAtt EXCEPT ![a] = r]
    BY <1>0, <1>2 DEF CaGo, CaTo, CaRecords
  <2> HIDE DEF r
  <2> QED
    BY <1>1, <1>2, <2>1, <2>2, CaOnInv DEF CaGo, caWorld, caStill
<1>3. CASE /\ caAtt' = [caAtt EXCEPT ![a].at = "retire", ![a].id = caSession.id]
           /\ UNCHANGED <<caSession, caRoute, caIndex, caCache, caStray, caCleanup, caWorld>>
  <2> DEFINE r == [caAtt[a] EXCEPT !.at = "retire", !.id = caSession.id]
  <2>1. r \in CaRecords /\ CaRecOK(r, caSession) /\ r.at # "b_sleep"
    BY <1>0, <1>1 DEF CaRecords, CaRecOK, CaStages, CaUnowned, CaClaimed, CaStageA, CaStageBC
  <2>2. caAtt' = [caAtt EXCEPT ![a] = r]
    BY <1>0, <1>3 DEF CaRecords
  <2> HIDE DEF r
  <2> QED
    BY <1>1, <1>3, <2>1, <2>2, CaOnInv DEF caWorld, caStill
<1>4. CASE CaReturn(a)
  BY <1>1, <1>4, CaReturnInv
<1> QED
  BY <1>2, <1>3, <1>4 DEF CaReuse

LEMMA CaRetireInv ==
  ASSUME CaInv, NEW a \in CaAttempts, CaRetire(a)
  PROVE  CaInv'
<1> DEFINE r == [caAtt[a] EXCEPT !.at = "control", !.id = 0]
<1>0. caAtt[a] \in CaRecords /\ CaRecOK(caAtt[a], caSession) /\ caAtt \in [CaAttempts -> CaRecords]
      /\ caAtt[a].at = "retire" /\ 0 \in 0..caIssued /\ CaTyped
  BY CaAttTyped DEF CaRetire, CaTyped
<1>1. ~caAtt[a].owns /\ ~caAtt[a].guard
  BY <1>0 DEF CaRecOK, CaUnowned
<1>2. r \in CaRecords /\ (\A s : CaRecOK(r, s)) /\ r.at # "b_sleep"
  BY <1>0, <1>1 DEF CaRecords, CaRecOK, CaStages, CaUnowned, CaClaimed, CaStageA, CaStageBC
<1>3. [caAtt EXCEPT ![a].at = "control", ![a].id = 0] = [caAtt EXCEPT ![a] = r]
  BY <1>0 DEF CaRecords
<1> HIDE DEF r
<1>4. CaFail(caAtt[a].id, [caAtt EXCEPT ![a] = r]) /\ UNCHANGED <<caCache, caStray, caCleanup, caWorld>>
  BY <1>3 DEF CaRetire
<1>5. CaTyped'
  BY <1>0, <1>4, CaFails, CaWorldTyped DEF CaTyped, caWorld, caStill
<1>6. caSession' = caSession \/ caSession'.phase # "reserved"
  BY <1>4, CaFails DEF CaNoSession
<1>7. CaMoves(a, r)
  BY <1>1, <1>2, <1>4, <1>6, CaFails DEF CaMoves, caWorld
<1> QED
  BY <1>2, <1>5, <1>7, CaMove DEF CaInv

LEMMA CaControlInv ==
  ASSUME CaInv, NEW a \in CaAttempts, CaControl(a)
  PROVE  CaInv'
<1>0. caAtt[a] \in CaRecords /\ CaRecOK(caAtt[a], caSession) /\ caAtt \in [CaAttempts -> CaRecords]
      /\ caAtt[a].at = "control"
  BY CaAttTyped DEF CaControl
<1>1. ~caAtt[a].owns /\ ~caAtt[a].guard
  BY <1>0 DEF CaRecOK, CaUnowned
<1>2. CASE CaGo(a, "b_begin")
  <2> DEFINE r == [caAtt[a] EXCEPT !.at = "b_begin"]
  <2>1. r \in CaRecords /\ CaRecOK(r, caSession) /\ r.at # "b_sleep"
    BY <1>0, <1>1 DEF CaRecords, CaRecOK, CaStages, CaUnowned, CaClaimed, CaStageA, CaStageBC
  <2>2. caAtt' = [caAtt EXCEPT ![a] = r]
    BY <1>0, <1>2 DEF CaGo, CaTo, CaRecords
  <2> HIDE DEF r
  <2> QED
    BY <1>1, <1>2, <2>1, <2>2, CaOnInv DEF CaGo, caWorld, caStill
<1>3. CASE CaReturn(a)
  BY <1>1, <1>3, CaReturnInv
<1> QED
  BY <1>2, <1>3 DEF CaControl

LEMMA CaBeginInv ==
  ASSUME CaInv, NEW a \in CaAttempts, CaBegin(a)
  PROVE  CaInv'
<1>0. caAtt[a] \in CaRecords /\ CaRecOK(caAtt[a], caSession) /\ caAtt \in [CaAttempts -> CaRecords]
      /\ caAtt[a].at = "b_begin" /\ caSession.id \in 0..caIssued /\ caIssued \in Nat
  BY CaAttTyped DEF CaBegin, CaTyped
<1>1. ~caAtt[a].owns /\ ~caAtt[a].guard
  BY <1>0 DEF CaRecOK, CaUnowned
<1>2. CASE CaReserveId(a, [caAtt[a] EXCEPT !.at = "b_resolve", !.guard = TRUE])
  <2> DEFINE r == [[caAtt[a] EXCEPT !.at = "b_resolve", !.guard = TRUE] EXCEPT !.id = caIssued + 1]
  <2>1. caIssued' = caIssued + 1 /\ caPub' = caPub
    BY <1>2 DEF CaReserveId
  <2>4. /\ [caAtt[a] EXCEPT !.at = "b_resolve", !.guard = TRUE] \in CaRecords
        /\ r.id = caIssued + 1 /\ r.guard /\ r.at = "b_resolve"
    BY <1>0 DEF CaRecords, CaStages, CaUnowned, CaClaimed, CaStageA, CaStageBC
  <2>2. r \in CaRecords'
    BY <2>1, <2>4, CaNumbered DEF CaInv
  <2>3. CaRecOK(r, caSession')
    BY <1>0, <1>1, <2>4 DEF CaRecords, CaRecOK, CaStages, CaUnowned, CaClaimed, CaStageA, CaStageBC
  <2> HIDE DEF r
  <2> QED
    BY <1>2, <2>2, <2>3, <2>4, CaReserveInv DEF CaReserveId, CaReserved, r
<1>3. CASE /\ caSession.phase = "reserved"
           /\ caAtt' = [caAtt EXCEPT ![a].at = "b_wait", ![a].id = caSession.id]
           /\ UNCHANGED <<caSession, caRoute, caIndex, caCache, caStray, caCleanup, caWorld>>
  <2> DEFINE r == [caAtt[a] EXCEPT !.at = "b_wait", !.id = caSession.id]
  <2>1. r \in CaRecords /\ CaRecOK(r, caSession) /\ r.at # "b_sleep"
    BY <1>0, <1>1 DEF CaRecords, CaRecOK, CaStages, CaUnowned, CaClaimed, CaStageA, CaStageBC
  <2>2. caAtt' = [caAtt EXCEPT ![a] = r]
    BY <1>0, <1>3 DEF CaRecords
  <2> HIDE DEF r
  <2> QED
    BY <1>1, <1>3, <2>1, <2>2, CaOnInv DEF caWorld, caStill
<1>4. CASE CaReturn(a)
  BY <1>1, <1>4, CaReturnInv
<1> QED
  BY <1>2, <1>3, <1>4 DEF CaBegin

\* The waiting loop sleeps on the reservation it has just seen.
LEMMA CaWaitInv ==
  ASSUME CaInv, NEW a \in CaAttempts, CaWait(a)
  PROVE  CaInv'
<1>0. caAtt[a] \in CaRecords /\ CaRecOK(caAtt[a], caSession) /\ caAtt \in [CaAttempts -> CaRecords]
      /\ caAtt[a].at = "b_wait" /\ 0 \in 0..caIssued
  BY CaAttTyped DEF CaWait, CaTyped
<1>1. ~caAtt[a].owns /\ ~caAtt[a].guard
  BY <1>0 DEF CaRecOK, CaUnowned
<1>2. CASE caSession = CaReserved(caAtt[a].id) /\ CaGo(a, "b_sleep")
  <2> DEFINE r == [caAtt[a] EXCEPT !.at = "b_sleep"]
  <2>1. r \in CaRecords /\ CaRecOK(r, caSession) /\ caSession = CaReserved(r.id)
    BY <1>0, <1>1, <1>2 DEF CaRecords, CaRecOK, CaStages, CaUnowned, CaClaimed, CaStageA, CaStageBC
  <2>2. caAtt' = [caAtt EXCEPT ![a] = r]
    BY <1>0, <1>2 DEF CaGo, CaTo, CaRecords
  <2> HIDE DEF r
  <2> QED
    BY <1>1, <1>2, <2>1, <2>2, CaOnInv DEF CaGo, caWorld, caStill
<1>3. CASE CaReturn(a)
  BY <1>1, <1>3, CaReturnInv
<1>4. CASE /\ caAtt' = [caAtt EXCEPT ![a].at = "b_begin", ![a].again = TRUE, ![a].id = 0]
           /\ UNCHANGED <<caSession, caRoute, caIndex, caCache, caStray, caCleanup, caWorld>>
  <2> DEFINE r == [caAtt[a] EXCEPT !.at = "b_begin", !.again = TRUE, !.id = 0]
  <2>1. r \in CaRecords /\ CaRecOK(r, caSession) /\ r.at # "b_sleep"
    BY <1>0, <1>1 DEF CaRecords, CaRecOK, CaStages, CaUnowned, CaClaimed, CaStageA, CaStageBC
  <2>2. caAtt' = [caAtt EXCEPT ![a] = r]
    BY <1>0, <1>4 DEF CaRecords
  <2> HIDE DEF r
  <2> QED
    BY <1>1, <1>4, <2>1, <2>2, CaOnInv DEF caWorld, caStill
<1> QED
  BY <1>2, <1>3, <1>4 DEF CaWait, CaReserved

\* A stage that keeps its reservation, under its guard, leads to another.
LEMMA CaHoldInv ==
  ASSUME CaInv, NEW a \in CaAttempts, NEW r \in CaRecords, caAtt' = [caAtt EXCEPT ![a] = r],
         caAtt[a].at \in CaStageBC,
         UNCHANGED <<caSession, caRoute, caIndex, caCache, caStray, caCleanup, caWorld>>,
         r.id = caAtt[a].id, r.owns = caAtt[a].owns, r.guard = caAtt[a].guard,
         r.at \in CaStageBC \ CaClaimed, r.at = "b_apply" => r.answer # 0
  PROVE  CaInv'
<1>1. CaRecOK(caAtt[a], caSession)
  BY CaAttTyped
<1>2. CaRecOK(r, caSession) /\ r.at # "b_sleep"
  BY <1>1 DEF CaRecOK, CaStages, CaUnowned, CaClaimed, CaStageA, CaStageBC
<1> QED
  BY <1>2, CaOnInv DEF caWorld, caStill

LEMMA CaResolveInv ==
  ASSUME CaInv, NEW a \in CaAttempts, CaResolve(a)
  PROVE  CaInv'
<1>0. caAtt[a] \in CaRecords /\ caAtt \in [CaAttempts -> CaRecords] /\ caAtt[a].at \in CaStageBC
      /\ caPub \in 0..caPub /\ caPub # 0
  BY CaAttTyped DEF CaResolve, CaTyped, CaStageBC
<1>1. CASE CaGo(a, "b_again")
  <2> DEFINE r == [caAtt[a] EXCEPT !.at = "b_again"]
  <2>1. r \in CaRecords /\ r.at = "b_again" /\ r.id = caAtt[a].id /\ r.owns = caAtt[a].owns /\ r.guard = caAtt[a].guard
    BY <1>0 DEF CaRecords, CaStages, CaStageBC
  <2>2. caAtt' = [caAtt EXCEPT ![a] = r]
    BY <1>0, <1>1 DEF CaGo, CaTo, CaRecords
  <2> HIDE DEF r
  <2> QED
    BY <1>0, <1>1, <2>1, <2>2, CaHoldInv DEF CaGo, CaStageBC, CaClaimed
<1>2. CASE /\ caAtt' = [caAtt EXCEPT ![a].at = "b_apply", ![a].answer = caPub]
           /\ UNCHANGED <<caSession, caRoute, caIndex, caCache, caStray, caCleanup, caWorld>>
  <2> DEFINE r == [caAtt[a] EXCEPT !.at = "b_apply", !.answer = caPub]
  <2>1. r \in CaRecords /\ r.at = "b_apply" /\ r.id = caAtt[a].id /\ r.owns = caAtt[a].owns
        /\ r.guard = caAtt[a].guard /\ r.answer # 0
    BY <1>0 DEF CaRecords, CaStages, CaStageBC
  <2>2. caAtt' = [caAtt EXCEPT ![a] = r]
    BY <1>0, <1>2 DEF CaRecords
  <2> HIDE DEF r
  <2> QED
    BY <1>0, <1>2, <2>1, <2>2, CaHoldInv DEF CaStageBC, CaClaimed
<1> QED
  BY <1>1, <1>2, CaGiveUpInv DEF CaResolve

\* The Resolve is applied: the obsolete session goes, or with it the attempt's own.
LEMMA CaApplyInv ==
  ASSUME CaInv, NEW a \in CaAttempts, CaApply(a)
  PROVE  CaInv'
<1> DEFINE i == caAtt[a].answer
           stale == CaTakeObsolete(i) /\ caIndex.session = caSession.id /\ caSession.id # caAtt[a].id
           v == [epoch |-> CaSnap(i).epoch, rev |-> CaSnap(i).rev, live |-> TRUE]
           r == [caAtt[a] EXCEPT !.at = "b_race", !.offer = i, !.answer = 0, !.view = v]
<1>0. caAtt[a] \in CaRecords /\ CaRecOK(caAtt[a], caSession) /\ caAtt \in [CaAttempts -> CaRecords]
      /\ caAtt[a].at = "b_apply" /\ CaTyped
  BY CaAttTyped DEF CaApply
<1>1. i \in 1..Len(CaHistory) /\ i \in 0..caPub /\ 0 \in 0..caPub
  <2>1. i \in 0..caPub /\ i # 0 /\ caPub \in 1..Len(CaHistory)
    BY <1>0 DEF CaRecords, CaRecOK, CaTyped
  <2>2. Len(CaHistory) \in Nat
    BY ConnectAttemptAssumption, LenProperties
  <2> QED
    BY <2>1, <2>2
<1>2. CaSnap(i) \in [epoch : Nat \ {CcNoEpoch}, rev : Nat, content : Nat]
  BY <1>1, CaSnapTyped
<1>3. /\ caCache' \in CcApply(caCache, CaSnap(i)) /\ caIndex' \in {caIndex, CaNoEntry}
      /\ UNCHANGED <<caStray, caCleanup, caWorld>>
  BY DEF CaApply
<1>4. caCache' \in CcCaches
  BY <1>0, <1>2, <1>3, CcApplyForward DEF CaTyped
<1>5. CASE /\ caSession' = IF stale THEN CaNoSession ELSE caSession
           /\ caAtt' = IF stale THEN CaWoken([caAtt EXCEPT ![a] = r]) ELSE [caAtt EXCEPT ![a] = r]
           /\ UNCHANGED caRoute
  <2>1. v \in CaViews
    BY <1>2 DEF CaViews
  <2> HIDE DEF v, i
  <2>2. r \in CaRecords /\ r.at = "b_race" /\ r.id = caAtt[a].id /\ r.owns = caAtt[a].owns /\ r.guard = caAtt[a].guard
    BY <1>0, <1>1, <2>1 DEF CaRecords, CaStages, CaStageBC
  <2>3. CaRecOK(r, caSession')
    BY <1>0, <2>2 DEF CaRecOK, CaUnowned, CaClaimed, CaStageA, CaStageBC
  <2> HIDE DEF r, stale
  <2>4. caSession' \in {caSession, CaNoSession} /\ CaNoSession.phase # "reserved"
    BY <1>5 DEF CaNoSession
  <2>5. CaTyped'
    BY <1>0, <1>3, <1>4, <1>5, <2>4, CaWorldTyped DEF caWorld, caStill, CaTyped
  <2>6. CaMoves(a, r)
    BY <1>3, <1>5, <2>2, <2>3, <2>4 DEF CaMoves, caWorld
  <2> QED
    BY <2>2, <2>5, <2>6, CaMove DEF CaInv
<1>6. CASE /\ caSession' = IF stale \/ caSession.id = caAtt[a].id THEN CaNoSession ELSE caSession
           /\ caRoute' = IF caRoute.session = caAtt[a].id THEN CaNoRoute ELSE caRoute
           /\ caAtt' = CaWoken([caAtt EXCEPT ![a] = CaIdle])
  <2> HIDE DEF stale
  <2>1. caSession' \in {caSession, CaNoSession} /\ CaNoSession.phase # "reserved" /\ caSession' # CaReserved(caAtt[a].id)
    BY <1>6 DEF CaNoSession, CaReserved
  <2>2. CaTyped'
    BY <1>0, <1>3, <1>4, <1>6, <2>1, CaWorldTyped DEF caWorld, caStill, CaTyped
  <2>3. CaIdle \in CaRecords /\ CaRecOK(CaIdle, caSession') /\ CaIdle.at # "b_sleep"
    BY <1>0, CaIdleTyped DEF CaIdle
  <2>4. CaMoves(a, CaIdle)
    BY <1>3, <1>6, <2>1, <2>3 DEF CaMoves, caWorld
  <2> QED
    BY <2>2, <2>3, <2>4, CaMove DEF CaInv
<1>7. [caAtt EXCEPT ![a].at = "b_race", ![a].offer = i, ![a].answer = 0, ![a].view = v] = [caAtt EXCEPT ![a] = r]
  <2> HIDE DEF v, i
  <2> QED
    BY <1>0 DEF CaRecords
<1>8. \/ /\ caSession' = IF stale THEN CaNoSession ELSE caSession
         /\ LET next == [caAtt EXCEPT ![a].at = "b_race", ![a].offer = i, ![a].answer = 0, ![a].view = v]
            IN caAtt' = IF stale THEN CaWoken(next) ELSE next
         /\ UNCHANGED caRoute
      \/ /\ caSession' = IF stale \/ caSession.id = caAtt[a].id THEN CaNoSession ELSE caSession
         /\ caRoute' = IF caRoute.session = caAtt[a].id THEN CaNoRoute ELSE caRoute
         /\ caAtt' = CaWoken(CaEnd(caAtt, a))
  BY DEF CaApply
<1> HIDE DEF i, v, r, stale
<1> QED
  BY <1>5, <1>6, <1>7, <1>8 DEF CaEnd

\* An attempt whose Answer task is at work.
LEMMA CaAnsweredInv ==
  ASSUME CaInv, NEW a \in CaAttempts, NEW r \in CaRecords, caAtt' = [caAtt EXCEPT ![a] = r],
         UNCHANGED <<caSession, caRoute, caIndex, caStray, caCleanup, caWorld>>,
         caCache' = caCache \/ caCache' \in CcCaches, caAtt[a] # CaIdle,
         r.at = caAtt[a].at, r.id = caAtt[a].id, r.owns = caAtt[a].owns, r.guard = caAtt[a].guard,
         r.at = "b_apply" => r.answer # 0
  PROVE  CaInv'
<1>1. CaRecOK(caAtt[a], caSession) /\ SleeperHasWaker
  BY CaAttTyped DEF CaInv, CaHeld
<1>2. CaRecOK(r, caSession)
  BY <1>1 DEF CaRecOK
<1>3. r.at = "b_sleep" => caSession = CaReserved(r.id) \/ r.id \in caQuiet
  BY <1>1 DEF SleeperHasWaker, CaReserved
<1> QED
  BY <1>2, <1>3, CaOnInv DEF caWorld, caStill

LEMMA CaAnswerInv ==
  ASSUME CaInv, NEW a \in CaAttempts, CaAnswer(a)
  PROVE  CaInv'
<1>0. caAtt[a] \in CaRecords /\ CaRecOK(caAtt[a], caSession) /\ caAtt \in [CaAttempts -> CaRecords]
      /\ CaTyped /\ caAtt[a].offer \in 0..caPub /\ caAtt[a].offer # 0 /\ caAtt[a] # CaIdle
      /\ UNCHANGED <<caSession, caRoute, caIndex, caStray, caCleanup, caWorld>>
  BY CaAttTyped DEF CaAnswer, CaIdle, CaRecords
<1>1. ASSUME NEW i \in caAtt[a].offer..caPub, caCache' \in CcApply(caCache, CaSnap(i)),
             caAtt' = [caAtt EXCEPT ![a].offer = 0, ![a].answer = i]
      PROVE  CaInv'
  <2> DEFINE r == [caAtt[a] EXCEPT !.offer = 0, !.answer = i]
  <2>1. i \in 1..Len(CaHistory) /\ i \in 0..caPub /\ 0 \in 0..caPub /\ i # 0
    <3>1. caPub \in 1..Len(CaHistory) /\ Len(CaHistory) \in Nat
      BY <1>0, ConnectAttemptAssumption, LenProperties DEF CaTyped
    <3> QED
      BY <1>0, <3>1
  <2>2. CaSnap(i) \in [epoch : Nat \ {CcNoEpoch}, rev : Nat, content : Nat]
    BY <2>1, CaSnapTyped
  <2>3. caCache' \in CcCaches
    BY <1>0, <1>1, <2>2, CcApplyForward DEF CaTyped
  <2>4. /\ r \in CaRecords /\ r.at = caAtt[a].at /\ r.id = caAtt[a].id /\ r.owns = caAtt[a].owns
        /\ r.guard = caAtt[a].guard /\ r.answer # 0
    BY <1>0, <2>1 DEF CaRecords
  <2>5. caAtt' = [caAtt EXCEPT ![a] = r]
    BY <1>0, <1>1 DEF CaRecords
  <2> HIDE DEF r
  <2> QED
    BY <1>0, <2>3, <2>4, <2>5, CaAnsweredInv
<1>2. ASSUME UNCHANGED caCache, caAtt' = [caAtt EXCEPT ![a].offer = 0]
      PROVE  CaInv'
  <2> DEFINE r == [caAtt[a] EXCEPT !.offer = 0]
  <2>1. 0 \in 0..caPub
    BY <1>0 DEF CaTyped
  <2>4. /\ r \in CaRecords /\ r.at = caAtt[a].at /\ r.id = caAtt[a].id /\ r.owns = caAtt[a].owns
        /\ r.guard = caAtt[a].guard /\ r.answer = caAtt[a].answer
    BY <1>0, <2>1 DEF CaRecords
  <2>5. caAtt' = [caAtt EXCEPT ![a] = r]
    BY <1>0, <1>2 DEF CaRecords
  <2> HIDE DEF r
  <2> QED
    BY <1>0, <1>2, <2>4, <2>5, CaAnsweredInv DEF CaRecOK
<1> QED
  BY <1>1, <1>2 DEF CaAnswer

LEMMA CaAnswerApplyInv ==
  ASSUME CaInv, NEW a \in CaAttempts, CaAnswerApply(a)
  PROVE  CaInv'
<1> DEFINE s == CaSnap(caAtt[a].answer)
<1>0. caAtt[a] \in CaRecords /\ CaRecOK(caAtt[a], caSession) /\ caAtt \in [CaAttempts -> CaRecords]
      /\ CaTyped /\ caAtt[a].answer \in 0..caPub /\ caAtt[a].answer # 0 /\ caAtt[a] # CaIdle
      /\ caAtt[a].at # "b_apply"
      /\ UNCHANGED <<caSession, caRoute, caIndex, caCache, caStray, caCleanup, caWorld>>
  BY CaAttTyped DEF CaAnswerApply, CaIdle, CaRecords
<1>1. caAtt[a].answer \in 1..Len(CaHistory) /\ 0 \in 0..caPub
  <2>1. caPub \in 1..Len(CaHistory) /\ Len(CaHistory) \in Nat
    BY <1>0, ConnectAttemptAssumption, LenProperties DEF CaTyped
  <2> QED
    BY <1>0, <2>1
<1>2. s.epoch \in Nat /\ s.rev \in Nat
  BY <1>1, CaSnapTyped
<1>3. \/ caAtt' = [caAtt EXCEPT ![a].answer = 0, ![a].view.epoch = s.epoch, ![a].view.rev = s.rev]
      \/ caAtt' = [caAtt EXCEPT ![a].answer = 0]
  BY DEF CaAnswerApply
<1> HIDE DEF s
<1>4. CASE caAtt' = [caAtt EXCEPT ![a].answer = 0, ![a].view.epoch = s.epoch, ![a].view.rev = s.rev]
  <2> DEFINE r == [caAtt[a] EXCEPT !.answer = 0, !.view.epoch = s.epoch, !.view.rev = s.rev]
  <2>4. /\ r \in CaRecords /\ r.at = caAtt[a].at /\ r.id = caAtt[a].id /\ r.owns = caAtt[a].owns
        /\ r.guard = caAtt[a].guard
    BY <1>0, <1>1, <1>2 DEF CaRecords, CaViews
  <2>5. caAtt' = [caAtt EXCEPT ![a] = r]
    BY <1>0, <1>4 DEF CaRecords
  <2> HIDE DEF r
  <2> QED
    BY <1>0, <2>4, <2>5, CaAnsweredInv
<1>5. CASE caAtt' = [caAtt EXCEPT ![a].answer = 0]
  <2> DEFINE r == [caAtt[a] EXCEPT !.answer = 0]
  <2>4. /\ r \in CaRecords /\ r.at = caAtt[a].at /\ r.id = caAtt[a].id /\ r.owns = caAtt[a].owns
        /\ r.guard = caAtt[a].guard
    BY <1>0, <1>1, <1>2 DEF CaRecords, CaViews
  <2>5. caAtt' = [caAtt EXCEPT ![a] = r]
    BY <1>0, <1>5 DEF CaRecords
  <2> HIDE DEF r
  <2> QED
    BY <1>0, <2>4, <2>5, CaAnsweredInv
<1> QED
  BY <1>3, <1>4, <1>5

LEMMA CaRaceInv ==
  ASSUME CaInv, NEW a \in CaAttempts, CaRace(a)
  PROVE  CaInv'
<1>0. caAtt[a] \in CaRecords /\ caAtt \in [CaAttempts -> CaRecords] /\ caAtt[a].at = "b_race"
  BY CaAttTyped DEF CaRace
<1>1. CASE CaClaim(a, "b_attach")
  BY <1>0, <1>1, CaClaimInv DEF CaStageBC, CaClaimed
<1>2. CASE /\ caAtt' = [caAtt EXCEPT ![a].at = "c_reserve", ![a].view.live = FALSE]
           /\ UNCHANGED <<caSession, caRoute, caIndex, caCache, caStray, caCleanup, caWorld>>
  <2> DEFINE r == [caAtt[a] EXCEPT !.at = "c_reserve", !.view.live = FALSE]
  <2>1. r \in CaRecords /\ r.at = "c_reserve" /\ r.id = caAtt[a].id /\ r.owns = caAtt[a].owns /\ r.guard = caAtt[a].guard
    BY <1>0 DEF CaRecords, CaViews, CaStages, CaStageBC
  <2>2. caAtt' = [caAtt EXCEPT ![a] = r]
    BY <1>0, <1>2 DEF CaRecords
  <2> HIDE DEF r
  <2> QED
    BY <1>0, <1>2, <2>1, <2>2, CaHoldInv DEF CaStageBC, CaClaimed
<1> QED
  BY <1>1, <1>2, CaGiveUpInv DEF CaRace

LEMMA CaStageBAttachInv ==
  ASSUME CaInv, NEW a \in CaAttempts, CaStageBAttach(a)
  PROVE  CaInv'
BY CaAttachInv, CaGiveUpInv DEF CaStageBAttach, CaClaimed

LEMMA CaReserveRelayInv ==
  ASSUME CaInv, NEW a \in CaAttempts, CaReserve(a)
  PROVE  CaInv'
<1>0. caAtt[a] \in CaRecords /\ caAtt \in [CaAttempts -> CaRecords] /\ caAtt[a].at = "c_reserve"
  BY CaAttTyped DEF CaReserve
<1>1. CASE CaGo(a, "c_data")
  <2> DEFINE r == [caAtt[a] EXCEPT !.at = "c_data"]
  <2>1. r \in CaRecords /\ r.at = "c_data" /\ r.id = caAtt[a].id /\ r.owns = caAtt[a].owns /\ r.guard = caAtt[a].guard
    BY <1>0 DEF CaRecords, CaStages, CaStageBC
  <2>2. caAtt' = [caAtt EXCEPT ![a] = r]
    BY <1>0, <1>1 DEF CaGo, CaTo, CaRecords
  <2> HIDE DEF r
  <2> QED
    BY <1>0, <1>1, <2>1, <2>2, CaHoldInv DEF CaGo, CaStageBC, CaClaimed
<1> QED
  BY <1>1, CaGiveUpInv DEF CaReserve

LEMMA CaRelayDataInv ==
  ASSUME CaInv, NEW a \in CaAttempts, CaRelayData(a)
  PROVE  CaInv'
BY CaClaimInv, CaGiveUpInv DEF CaRelayData, CaClaimed, CaStageBC

LEMMA CaRelayAttachInv ==
  ASSUME CaInv, NEW a \in CaAttempts, CaRelayAttach(a)
  PROVE  CaInv'
BY CaAttachInv, CaGiveUpInv DEF CaRelayAttach, CaClaimed

\* The attempt is dropped: its guard hands the reservation to the cleanup, and what a
\* Stage A owned is left behind.
LEMMA CaAbortInv ==
  ASSUME CaInv, NEW a \in CaAttempts, CaAbort(a)
  PROVE  CaInv'
<1>0. caAtt[a] \in CaRecords /\ CaRecOK(caAtt[a], caSession) /\ CaTyped
  BY CaAttTyped
<1>1. caAtt[a].owns \/ caAtt[a].guard => caAtt[a].id \in 1..caIssued
  <2>1. caAtt[a].id \in 0..caIssued /\ caIssued \in Nat
    BY <1>0 DEF CaRecords, CaTyped
  <2> QED
    BY <1>0, <2>1 DEF CaRecOK
<1>2. /\ caCleanup' = IF caAtt[a].guard THEN caCleanup \cup {caAtt[a].id} ELSE caCleanup
      /\ caOrphans' = IF caAtt[a].owns THEN caOrphans \cup {caAtt[a].id} ELSE caOrphans
      /\ caAtt' = [caAtt EXCEPT ![a] = CaIdle] /\ caStray' = CaLeave(a)
      /\ UNCHANGED <<caSession, caRoute, caIndex, caCache, caIssued, caPub, caHint, caClosing, caQuiet>>
  BY DEF CaAbort, CaGuarded, CaEnd
<1>3. CaTyped'
  BY <1>0, <1>1, <1>2, CaLeaveTyped DEF CaTyped
<1>4. CaIdle \in CaRecords /\ CaRecOK(CaIdle, caSession') /\ CaIdle.at # "b_sleep"
  BY <1>0, CaIdleTyped DEF CaIdle
<1>5. CaMoves(a, CaIdle)
  BY <1>2, <1>4 DEF CaMoves
<1> QED
  BY <1>3, <1>4, <1>5, CaMove DEF CaInv

\* A step of no attempt: they stay as they are, or are woken.
LEMMA CaRestHeld ==
  ASSUME CaInv, CaRecords \subseteq CaRecords', caAtt' \in {caAtt, CaWoken(caAtt)},
         caQuiet \subseteq caQuiet', caOrphans' = caOrphans,
         caSession' = caSession \/ caSession'.phase # "reserved",
         caSession' # caSession => caAtt' = CaWoken(caAtt) \/ caSession.phase # "reserved" \/ caSession.id \in caQuiet',
         caSession' = caSession => \A i \in caCleanup : i \in caCleanup' \/ caSession # CaReserved(i)
  PROVE  CaHeld'
<1>0. /\ caAtt \in [CaAttempts -> CaRecords] /\ (\A b \in CaAttempts : CaRecOK(caAtt[b], caSession))
      /\ DroppedReservationCleaned /\ SleeperHasWaker
      /\ caSession = CaReserved(caSession.id) \/ caSession.phase # "reserved"
  BY DEF CaInv, CaHeld, CaTyped, CaReserved
<1>1. caAtt \in [CaAttempts -> CaRecords']
  BY <1>0
<1>2. \A b \in CaAttempts : CaRecOK(caAtt[b], caSession')
  <2> SUFFICES ASSUME NEW b \in CaAttempts PROVE CaRecOK(caAtt[b], caSession')
    OBVIOUS
  <2>1. caSession' # caSession => caSession' # CaReserved(caAtt[b].id)
    BY DEF CaReserved
  <2> QED
    BY <1>0, <2>1 DEF CaRecOK
<1>3. \A b \in CaAttempts : caAtt[b].at = "b_sleep" =>
        caAtt' = CaWoken(caAtt) \/ caSession' = CaReserved(caAtt[b].id) \/ caAtt[b].id \in caQuiet'
  <2> SUFFICES ASSUME NEW b \in CaAttempts, caAtt[b].at = "b_sleep", caAtt' # CaWoken(caAtt),
                      caAtt[b].id \notin caQuiet'
               PROVE  caSession' = CaReserved(caAtt[b].id)
    OBVIOUS
  <2>1. caSession = CaReserved(caAtt[b].id)
    BY <1>0 DEF SleeperHasWaker, CaReserved
  <2> QED
    BY <2>1 DEF CaReserved
<1>4. caSession'.phase = "reserved" /\ caSession'.id \notin caOrphans' =>
            \/ caSession'.id \in caCleanup'
            \/ \E b \in CaAttempts : caAtt[b].id = caSession'.id /\ (caAtt[b].owns \/ caAtt[b].guard)
  BY <1>0 DEF DroppedReservationCleaned, CaOwned
<1> QED
  BY <1>1, <1>2, <1>3, <1>4, CaMoveAll

LEMMA CaStrayAnswerInv ==
  ASSUME CaInv, NEW o \in caStray, CaStrayAnswer(o)
  PROVE  CaInv'
<1>0. CaTyped /\ UNCHANGED <<caSession, caRoute, caIndex, caAtt, caCleanup, caWorld>> /\ caStray' \subseteq caStray
  BY DEF CaInv, CaStrayAnswer
<1>1. caCache' = caCache \/ caCache' \in CcCaches
  <2> SUFFICES ASSUME NEW i \in o..caPub, caCache' \in CcApply(caCache, CaSnap(i)) PROVE caCache' \in CcCaches
    BY DEF CaStrayAnswer
  <2>1. i \in 1..Len(CaHistory)
    <3>1. caPub \in 1..Len(CaHistory) /\ Len(CaHistory) \in Nat /\ o \in 1..caPub
      BY <1>0, ConnectAttemptAssumption, LenProperties DEF CaTyped
    <3> QED
      BY <3>1
  <2> QED
    BY <1>0, <2>1, CaSnapTyped, CcApplyForward DEF CaTyped
<1>2. CaTyped'
  BY <1>0, <1>1, CaWorldTyped DEF caWorld, caStill, CaTyped
<1>3. CaHeld'
  BY <1>0, CaRestHeld DEF caWorld, CaRecords
<1> QED
  BY <1>2, <1>3 DEF CaInv

LEMMA CaCleanUpInv ==
  ASSUME CaInv, NEW i \in caCleanup, CaCleanUp(i)
  PROVE  CaInv'
<1>0. CaTyped /\ CaFail(i, caAtt) /\ caCleanup' = caCleanup \ {i} /\ UNCHANGED <<caCache, caStray, caWorld>>
  BY DEF CaInv, CaCleanUp
<1>1. /\ caSession' \in {caSession, CaNoSession} /\ caSession' # CaReserved(i)
      /\ caRoute' \in {caRoute, CaNoRoute} /\ caIndex' \in {caIndex, CaNoEntry}
      /\ caAtt' \in {caAtt, CaWoken(caAtt)}
      /\ caSession' # caSession => caAtt' = CaWoken(caAtt)
      /\ CaNoSession.phase # "reserved"
  BY <1>0, CaFails DEF CaNoSession
<1>2. CaTyped'
  BY <1>0, <1>1, CaWorldTyped DEF caWorld, caStill, CaTyped
<1>3. CaHeld'
  BY <1>0, <1>1, CaRestHeld DEF caWorld, CaRecords
<1> QED
  BY <1>2, <1>3 DEF CaInv

LEMMA CaInboundInv ==
  ASSUME CaInv, CaInbound
  PROVE  CaInv'
<1>0. CaTyped /\ CaNoEntry \in [session : 0..caIssued, epoch : Nat, caps : SUBSET {"message", "stream"}]
  BY DEF CaInv, CaTyped, CaNoEntry, CcNoEpoch
<1>1. /\ caIssued' \in {caIssued, caIssued + 1} /\ caIssued' \in 0..CaMaxIds
      /\ caSession'.phase = "claimed" /\ caSession'.id \in 0..caIssued' /\ caSession'.id # 0
      /\ caSession' = [id |-> caSession'.id, phase |-> "claimed"]
  <2>0. caIssued \in 0..CaMaxIds /\ CaMaxIds \in Nat /\ caSession.id \in 0..caIssued
        /\ caSession \in [id : 0..caIssued, phase : {"absent", "reserved", "claimed"}]
    BY <1>0, ConnectAttemptAssumption DEF CaTyped
  <2>1. CASE caSession.phase = "reserved"
    BY <1>0, <2>0, <2>1 DEF CaInbound, CaTyped
  <2>2. CASE caSession.phase # "reserved"
    BY <2>0, <2>2 DEF CaInbound
  <2> QED
    BY <2>1, <2>2
<1>2. /\ caRoute' = [kind |-> "direct", session |-> caSession'.id, caps |-> {"message", "stream"}]
      /\ caIndex' \in {caIndex, CaNoEntry} /\ caAtt' = CaWoken(caAtt)
      /\ UNCHANGED <<caCache, caStray, caCleanup, caPub, caHint, caClosing, caOrphans, caQuiet>>
  BY DEF CaInbound
<1>3. caIssued \in Nat /\ 0..caIssued \subseteq 0..caIssued' /\ 1..caIssued \subseteq 1..caIssued'
  BY <1>0, <1>1 DEF CaTyped
<1>4. CaTyped'
  <2>1. (caSession \in [id : 0..caIssued, phase : {"absent", "reserved", "claimed"}])' /\ (caSession.id = 0 <=> caSession.phase = "absent")'
    BY <1>1
  <2>2. (caRoute \in [kind : {"none", "direct", "relay"}, caps : SUBSET {"message", "stream"}, session : 0..caIssued])'
    BY <1>1, <1>2
  <2>3. (caIndex \in [session : 0..caIssued, epoch : Nat, caps : SUBSET {"message", "stream"}])'
    BY <1>0, <1>2, <1>3 DEF CaTyped
  <2>4. (caClosing \subseteq [id : 0..caIssued, lost : BOOLEAN])'
    BY <1>0, <1>2, <1>3 DEF CaTyped
  <2> QED
    BY <1>0, <1>1, <1>2, <1>3, <2>1, <2>2, <2>3, <2>4 DEF CaTyped
<1>5. CaRecords \subseteq CaRecords'
  BY <1>2, <1>3 DEF CaRecords
<1>6. CaHeld'
  <2>1. \A i \in caCleanup : i \in caCleanup'
    BY <1>2
  <2> QED
    BY <1>1, <1>2, <1>5, <2>1, CaRestHeld
<1> QED
  BY <1>4, <1>6 DEF CaInv

LEMMA CaClosePathInv ==
  ASSUME CaInv, CaClosePath
  PROVE  CaInv'
<1>0. CaTyped /\ CaNoRoute \in [kind : {"none", "direct", "relay"}, caps : SUBSET {"message", "stream"}, session : 0..caIssued]
  BY DEF CaInv, CaTyped, CaNoRoute
<1>1. /\ caRoute' = CaNoRoute /\ caAtt' = CaWoken(caAtt)
      /\ UNCHANGED <<caSession, caIndex, caCache, caStray, caCleanup, caIssued, caPub, caHint, caOrphans, caQuiet>>
      /\ \E lost \in BOOLEAN : caClosing' = {[id |-> caSession.id, lost |-> lost]}
  BY DEF CaClosePath
<1>2. caClosing' \subseteq [id : 0..caIssued, lost : BOOLEAN]
  <2>1. caSession.id \in 0..caIssued
    BY <1>0 DEF CaTyped
  <2> QED
    BY <1>1, <2>1
<1>3. CaTyped'
  BY <1>0, <1>1, <1>2 DEF CaTyped
<1>4. CaHeld'
  BY <1>1, CaRestHeld DEF CaRecords
<1> QED
  BY <1>3, <1>4 DEF CaInv

LEMMA CaCloseSessionInv ==
  ASSUME CaInv, NEW c \in caClosing, CaCloseSession(c)
  PROVE  CaInv'
<1> DEFINE retire == caSession.id = c.id /\ c.id # 0 /\ (c.lost => ~CaConnected)
<1>0. CaTyped /\ c \in [id : 0..caIssued, lost : BOOLEAN] /\ caIssued \in Nat
      /\ CaNoEntry \in [session : 0..caIssued, epoch : Nat, caps : SUBSET {"message", "stream"}]
      /\ CaNoSession \in [id : 0..caIssued, phase : {"absent", "reserved", "claimed"}]
      /\ CaNoSession.id = 0 /\ CaNoSession.phase = "absent"
  BY DEF CaInv, CaTyped, CaNoEntry, CcNoEpoch, CaNoSession
<1>1. /\ caClosing' = caClosing \ {c}
      /\ caSession' = IF retire THEN CaNoSession ELSE caSession
      /\ caIndex' \in {caIndex, CaNoEntry}
      /\ caQuiet' = IF retire /\ caSession.phase = "reserved" THEN caQuiet \cup {c.id} ELSE caQuiet
      /\ UNCHANGED <<caRoute, caCache, caAtt, caStray, caCleanup, caIssued, caPub, caHint, caOrphans>>
  BY DEF CaCloseSession
<1>2. retire => c.id \in 1..caIssued /\ caSession.id = c.id
  BY <1>0
<1> HIDE DEF retire
<1>3. caQuiet' \subseteq 1..caIssued /\ caQuiet \subseteq caQuiet'
  BY <1>0, <1>1, <1>2 DEF CaTyped
<1>4. CaTyped'
  BY <1>0, <1>1, <1>3 DEF CaTyped
<1>5. CaHeld'
  BY <1>0, <1>1, <1>2, <1>3, CaRestHeld DEF CaRecords
<1> QED
  BY <1>4, <1>5 DEF CaInv

LEMMA CaPublishInv ==
  ASSUME CaInv, CaPublish
  PROVE  CaInv'
<1>0. CaTyped /\ caPub \in 1..Len(CaHistory) /\ Len(CaHistory) \in Nat /\ caHint \in 0..caPub
  BY ConnectAttemptAssumption, LenProperties DEF CaInv, CaTyped
<1>1. /\ caPub' = caPub + 1 /\ caPub' \in 1..Len(CaHistory) /\ caHint' \in 0..caPub'
      /\ 0..caPub \subseteq 0..caPub' /\ 1..caPub \subseteq 1..caPub'
      /\ UNCHANGED <<caSession, caRoute, caIndex, caCache, caAtt, caStray, caCleanup, caIssued,
                     caClosing, caOrphans, caQuiet>>
  BY <1>0 DEF CaPublish
<1>2. CaTyped'
  BY <1>0, <1>1 DEF CaTyped
<1>3. CaRecords \subseteq CaRecords'
  BY <1>1 DEF CaRecords
<1>4. CaHeld'
  BY <1>1, <1>3, CaRestHeld
<1> QED
  BY <1>2, <1>4 DEF CaInv

LEMMA CaTakeHintInv ==
  ASSUME CaInv, CaTakeHint
  PROVE  CaInv'
<1>0. CaTyped /\ caPub \in 1..Len(CaHistory) /\ Len(CaHistory) \in Nat /\ caHint \in 0..caPub
  BY ConnectAttemptAssumption, LenProperties DEF CaInv, CaTyped
<1>1. /\ caHint # 0 /\ caHint' = 0 /\ caCache' \in CcInvalidate(caCache, CaSnap(caHint).epoch)
      /\ UNCHANGED <<caSession, caRoute, caIndex, caAtt, caStray, caCleanup, caIssued, caPub,
                     caClosing, caOrphans, caQuiet>>
  BY DEF CaTakeHint
<1>2. caHint \in 1..Len(CaHistory) /\ 0 \in 0..caPub
  BY <1>0, <1>1
<1>3. CaSnap(caHint).epoch \in Nat
  BY <1>2, CaSnapTyped
<1>4. caCache' \in CcCaches
  BY <1>0, <1>1, <1>3, CcInvalidateForward DEF CaTyped
<1>5. CaTyped'
  BY <1>0, <1>1, <1>2, <1>4 DEF CaTyped
<1>6. CaHeld'
  BY <1>1, CaRestHeld DEF CaRecords
<1> QED
  BY <1>5, <1>6 DEF CaInv

LEMMA CaForgetCacheInv ==
  ASSUME CaInv, CaForgetCache
  PROVE  CaInv' /\ CcForward(caCache, caCache')
<1>0. CaTyped /\ caCache \in CcCaches
  BY DEF CaInv, CaTyped
<1>1. /\ caCache' \in {[caCache EXCEPT !.fresh = FALSE], CcNone}
      /\ UNCHANGED <<caSession, caRoute, caIndex, caAtt, caStray, caCleanup, caStill>>
  BY DEF CaForgetCache, caStill
<1>2. caCache' \in CcCaches /\ CcForward(caCache, caCache')
  <2>1. CASE caCache' = CcNone
    <3>1. CcNone \in CcCaches /\ ~CcHas(CcNone)
      BY DEF CcNone, CcCaches, CcNoEpoch, CcHas
    <3> QED
      BY <2>1, <3>1 DEF CcForward
  <2>2. CASE caCache' = [caCache EXCEPT !.fresh = FALSE]
    <3>1. caCache' \in CcCaches /\ caCache'.epoch = caCache.epoch /\ caCache'.rev = caCache.rev
      BY <1>0, <2>2 DEF CcCaches
    <3> QED
      BY <3>1 DEF CcCaches, CcForward
  <2> QED
    BY <1>1, <2>1, <2>2
<1>3. CaTyped'
  BY <1>0, <1>1, <1>2, CaWorldTyped DEF CaTyped, caStill
<1>4. CaHeld'
  BY <1>1, CaRestHeld DEF CaRecords, caStill
<1> QED
  BY <1>2, <1>3, <1>4 DEF CaInv

-----------------------------------------------------------------------------
(* Connect attempts: reservations                                          *)

LEMMA CaInvInit == ConnectAttemptInit => CaInv
<1> SUFFICES ASSUME ConnectAttemptInit PROVE CaInv
  OBVIOUS
<1>0. CaMaxIds \in Nat /\ 1 \in 1..Len(CaHistory)
  <2>1. Len(CaHistory) \in Nat /\ Len(CaHistory) # 0
    BY ConnectAttemptAssumption, LenProperties, EmptySeq
  <2> QED
    BY <2>1, ConnectAttemptAssumption
<1>1. CcNone \in CcCaches
  BY DEF CcNone, CcCaches, CcNoEpoch
<1>2. CaTyped
  BY <1>0, <1>1 DEF ConnectAttemptInit, CaTyped, CaNoSession, CaNoRoute, CaNoEntry, CcNoEpoch
<1>3. CaIdle \in CaRecords /\ \A s : CaRecOK(CaIdle, s)
  BY <1>2, CaIdleTyped
<1>4. caAtt = [a \in CaAttempts |-> CaIdle] /\ caSession = CaNoSession
  BY DEF ConnectAttemptInit
<1>5. DroppedReservationCleaned
  BY <1>4 DEF DroppedReservationCleaned, CaNoSession
<1>6. SleeperHasWaker
  BY <1>4 DEF SleeperHasWaker, CaIdle
<1> QED
  BY <1>2, <1>3, <1>4, <1>5, <1>6 DEF CaInv, CaHeld

LEMMA CaStepInv ==
  ASSUME CaInv, NEW a \in CaAttempts, CaStep(a)
  PROVE  CaInv'
BY CaStageASessionInv, CaStageABeginInv, CaStageARaceInv, CaStageAAttachInv, CaRegisterInv,
   CaReuseInv, CaRetireInv, CaControlInv, CaBeginInv, CaWaitInv, CaResolveInv, CaApplyInv,
   CaRaceInv, CaStageBAttachInv, CaReserveRelayInv, CaRelayDataInv, CaRelayAttachInv DEF CaStep

LEMMA CaInvStep == CaInv /\ [ConnectAttemptNext]_caVars => CaInv'
<1> SUFFICES ASSUME CaInv, [ConnectAttemptNext]_caVars PROVE CaInv'
  OBVIOUS
<1>1. CASE UNCHANGED caVars
  <2>1. CaTyped'
    BY <1>1 DEF CaInv, CaTyped, caVars
  <2>2. CaHeld'
    BY <1>1, CaRestHeld DEF caVars, CaRecords
  <2> QED
    BY <2>1, <2>2 DEF CaInv
<1>2. ASSUME NEW a \in CaAttempts, CaStart(a) \/ CaStep(a) \/ CaAnswer(a) \/ CaAnswerApply(a) \/ CaAbort(a)
      PROVE  CaInv'
  BY <1>2, CaStartInv, CaStepInv, CaAnswerInv, CaAnswerApplyInv, CaAbortInv
<1> QED
  BY <1>1, <1>2, CaStrayAnswerInv, CaCleanUpInv, CaCloseSessionInv, CaInboundInv, CaClosePathInv,
     CaPublishInv, CaTakeHintInv, CaForgetCacheInv DEF ConnectAttemptNext

LEMMA CaWatched == CaInv => ReservationsWatched
<1> SUFFICES ASSUME CaInv PROVE ReservationsWatched
  OBVIOUS
<1>1. CaTyped /\ CaHeld /\ CaMaxIds \in Nat
  BY ConnectAttemptAssumption DEF CaInv
<1>2. caIssued \in Nat /\ 0..caIssued \subseteq 0..CaMaxIds /\ 1..caIssued \subseteq 1..CaMaxIds
  BY <1>1 DEF CaTyped
<1>3. \A a \in CaAttempts :
       /\ caAtt[a].id \in 0..CaMaxIds /\ caAtt[a].offer \in 0..caPub /\ caAtt[a].answer \in 0..caPub
       /\ caAtt[a].at \in CaStages
  BY <1>1, <1>2 DEF CaHeld, CaRecords
<1>4. CaStages = {"idle", "a_session", "a_begin", "a_race", "a_attach", "register", "reuse",
            "retire", "control", "b_begin", "b_wait", "b_sleep", "b_resolve", "b_again", "b_apply",
            "b_race", "b_attach", "c_reserve", "c_data", "c_attach"}
  BY DEF CaStages, CaUnowned, CaClaimed, CaStageA, CaStageBC
<1>5. caSession \in [id : 0..CaMaxIds, phase : {"absent", "reserved", "claimed"}]
      /\ caIndex.session \in 0..CaMaxIds /\ caClosing \subseteq [id : 0..CaMaxIds, lost : BOOLEAN]
      /\ caCleanup \cup caOrphans \cup caQuiet \subseteq 1..CaMaxIds /\ caRoute.kind \in {"none", "direct", "relay"}
  BY <1>1, <1>2 DEF CaTyped
<1>6. ConnectAttemptTypeOK
  BY <1>1, <1>3, <1>4, <1>5 DEF ConnectAttemptTypeOK, CaTyped
<1> QED
  BY <1>1, <1>6 DEF ReservationsWatched, CaHeld

\* Whatever connects, probes, aborts, closes and incoming connections overlap: a session
\* that begin_connect reserved is owned by a running attempt or a pending cleanup, or was left
\* by an aborted Stage A; and whoever waits for a reservation waits for the current one, or
\* for one a close has retired after its notification.
THEOREM ReservationsStayWatched == ConnectAttemptSpec => []ReservationsWatched
<1>1. ConnectAttemptSpec => []CaInv
  BY CaInvInit, CaInvStep, PTL DEF ConnectAttemptSpec
<1> QED
  BY <1>1, CaWatched, PTL

-----------------------------------------------------------------------------
(* Connect attempts: views                                                 *)

\* What a step may do to the view of attempt b.
CaViewSettles(b) ==
  caAtt[b].at = caAtt'[b].at /\ caAtt[b].view # caAtt'[b].view =>
    /\ caAtt[b].view.live
    /\ caAtt[b].view.epoch = caAtt'[b].view.epoch => caAtt[b].view.rev <= caAtt'[b].view.rev

\* Waking an attempt leaves its view alone and is a change of stage.
LEMMA CaWokenView ==
  ASSUME CaInv, NEW att, NEW b \in CaAttempts, att[b] = caAtt[b], caAtt' \in {att, CaWoken(att)}
  PROVE  CaViewSettles(b)
<1>1. CaWoken(att)[b] = IF caAtt[b].at = "b_sleep" THEN [caAtt[b] EXCEPT !.at = "b_wait"] ELSE caAtt[b]
  BY DEF CaWoken
<1>2. caAtt[b] \in CaRecords
  BY CaAttTyped
<1> QED
  BY <1>1, <1>2 DEF CaViewSettles, CaRecords

\* The attempt a goes on to another stage.
CaLeads(a, r) ==
  /\ caAtt' \in {[caAtt EXCEPT ![a] = r], CaWoken([caAtt EXCEPT ![a] = r])}
  /\ r.at # caAtt[a].at
  /\ r.at = "b_sleep" => caAtt' = [caAtt EXCEPT ![a] = r]
LEMMA CaStageView ==
  ASSUME CaInv, NEW a \in CaAttempts, NEW r, CaLeads(a, r)
  PROVE  \A b \in CaAttempts : CaViewSettles(b)
<1>0. caAtt \in [CaAttempts -> CaRecords]
  BY CaAttTyped
<1> DEFINE att == [caAtt EXCEPT ![a] = r]
<1>1. att[a] = r /\ \A b \in CaAttempts : b # a => att[b] = caAtt[b]
  BY <1>0
<1>2. CaViewSettles(a)
  <2>1. CaWoken(att)[a] = IF r.at = "b_sleep" THEN [r EXCEPT !.at = "b_wait"] ELSE r
    BY <1>1 DEF CaWoken
  <2> QED
    BY <1>1, <2>1 DEF CaViewSettles, CaLeads
<1> HIDE DEF att
<1>3. caAtt' \in {att, CaWoken(att)}
  BY DEF att, CaLeads
<1> QED
  BY <1>1, <1>2, <1>3, CaWokenView

\* Stages as the actions write them.
LEMMA CaGoView ==
  ASSUME CaInv, NEW a \in CaAttempts, NEW stage, stage # caAtt[a].at,
         caAtt' = CaTo(a, stage) \/ (caAtt' = CaWoken(CaTo(a, stage)) /\ stage # "b_sleep")
  PROVE  \A b \in CaAttempts : CaViewSettles(b)
<1> DEFINE r == [caAtt[a] EXCEPT !.at = stage]
<1>0. caAtt \in [CaAttempts -> CaRecords] /\ caAtt[a] \in CaRecords
  BY CaAttTyped
<1>1. CaTo(a, stage) = [caAtt EXCEPT ![a] = r] /\ r.at = stage
  BY <1>0 DEF CaTo, CaRecords
<1> HIDE DEF r
<1>2. CaLeads(a, r)
  BY <1>1 DEF CaLeads
<1> QED
  BY <1>2, CaStageView

LEMMA CaEndView ==
  ASSUME CaInv, NEW a \in CaAttempts, caAtt[a].at # "idle",
         caAtt' \in {CaEnd(caAtt, a), CaWoken(CaEnd(caAtt, a))}
  PROVE  \A b \in CaAttempts : CaViewSettles(b)
<1>1. CaIdle.at = "idle"
  BY DEF CaIdle
<1> QED
  BY <1>1, CaStageView DEF CaEnd, CaLeads

LEMMA CaOthersView ==
  ASSUME CaInv, caAtt' \in {caAtt, CaWoken(caAtt)}
  PROVE  \A b \in CaAttempts : CaViewSettles(b)
BY CaWokenView

LEMMA CaGiveUpView ==
  ASSUME CaInv, NEW a \in CaAttempts, caAtt[a].at # "idle", CaGiveUp(a) \/ CaReturn(a)
  PROVE  \A b \in CaAttempts : CaViewSettles(b)
BY CaEndView DEF CaGiveUp, CaReturn, CaFail

LEMMA CaAttachView ==
  ASSUME CaInv, NEW a \in CaAttempts, NEW kind, CaAttach(a, kind, "register"), caAtt[a].at # "register"
  PROVE  \A b \in CaAttempts : CaViewSettles(b)
<1> DEFINE r == [caAtt[a] EXCEPT !.at = "register", !.view.live = FALSE]
<1>0. caAtt \in [CaAttempts -> CaRecords] /\ caAtt[a] \in CaRecords
  BY CaAttTyped
<1>1. [caAtt EXCEPT ![a].at = "register", ![a].view.live = FALSE] = [caAtt EXCEPT ![a] = r] /\ r.at = "register"
  BY <1>0 DEF CaRecords
<1>2. caAtt' = CaWoken([caAtt EXCEPT ![a] = r])
  BY <1>1 DEF CaAttach
<1> HIDE DEF r
<1> QED
  BY <1>1, <1>2, CaStageView DEF CaLeads

LEMMA CaStageAFailView ==
  ASSUME CaInv, NEW a \in CaAttempts, NEW r, CaStageAFail(a, r), r.at \notin {"b_sleep", caAtt[a].at}
  PROVE  \A b \in CaAttempts : CaViewSettles(b)
BY CaStageView DEF CaStageAFail, CaFail, CaLeads

LEMMA CaMissedAt ==
  ASSUME CaInv, NEW a \in CaAttempts
  PROVE  CaMissed(a).at = IF a \in CaProbes THEN "idle" ELSE "reuse"
<1>0. caAtt[a] \in CaRecords
  BY CaAttTyped
<1> QED
  BY <1>0 DEF CaMissed, CaIdle, CaRecords

LEMMA CaStartView ==
  ASSUME CaInv, NEW a \in CaAttempts, CaStart(a)
  PROVE  \A b \in CaAttempts : CaViewSettles(b)
<1> DEFINE q(e) == [CaIdle EXCEPT !.at = "a_session", !.view.epoch = e]
<1>0. caAtt[a].at = "idle" /\ caAtt[a] = CaIdle /\ caAtt \in [CaAttempts -> CaRecords]
  BY CaAttTyped DEF CaStart, CaRecOK
<1>1. \/ caAtt' = caAtt \/ caAtt' = [caAtt EXCEPT ![a] = CaMissed(a)]
      \/ caAtt' = [caAtt EXCEPT ![a] = q(IF caCache.fresh THEN caCache.epoch ELSE CcNoEpoch)]
  BY DEF CaStart
<1>2. \A e : q(e).at = "a_session"
  BY DEF CaIdle
<1> HIDE DEF q
<1>3. CASE caAtt' = [caAtt EXCEPT ![a] = CaMissed(a)] /\ a \in CaProbes
  <2>1. caAtt' = caAtt
    BY <1>0, <1>3 DEF CaMissed
  <2> QED
    BY <2>1, CaOthersView
<1>4. CASE caAtt' = [caAtt EXCEPT ![a] = CaMissed(a)] /\ a \notin CaProbes
  <2>1. CaLeads(a, CaMissed(a))
    BY <1>0, <1>4, CaMissedAt DEF CaLeads
  <2> QED
    BY <2>1, CaStageView
<1>5. CASE caAtt' = [caAtt EXCEPT ![a] = q(IF caCache.fresh THEN caCache.epoch ELSE CcNoEpoch)]
  <2>1. CaLeads(a, q(IF caCache.fresh THEN caCache.epoch ELSE CcNoEpoch))
    BY <1>0, <1>2, <1>5 DEF CaLeads
  <2> QED
    BY <2>1, CaStageView
<1> QED
  BY <1>1, <1>3, <1>4, <1>5, CaOthersView

\* Every stage leads to another one.
LEMMA CaStepView ==
  ASSUME CaInv, NEW a \in CaAttempts, CaStep(a)
  PROVE  \A b \in CaAttempts : CaViewSettles(b)
<1>0. caAtt \in [CaAttempts -> CaRecords] /\ caAtt[a] \in CaRecords
  BY CaAttTyped
<1> DEFINE Writes(r) == caAtt' \in {[caAtt EXCEPT ![a] = r], CaWoken([caAtt EXCEPT ![a] = r])}
<1>1. CASE CaStageASession(a)
  <2> DEFINE r == [caAtt[a] EXCEPT !.at = "a_race", !.id = caSession.id]
  <2>1. [caAtt EXCEPT ![a].at = "a_race", ![a].id = caSession.id] = [caAtt EXCEPT ![a] = r] /\ r.at = "a_race"
    BY <1>0 DEF CaRecords
  <2> HIDE DEF r
  <2> QED
    BY <1>1, <2>1, CaStageView, CaGoView DEF CaStageASession, CaLeads
<1>2. CASE CaStageABegin(a)
  <2> DEFINE r == [caAtt[a] EXCEPT !.at = "a_race", !.id = caSession.id]
             n == [[caAtt[a] EXCEPT !.at = "a_race", !.owns = TRUE] EXCEPT !.id = caIssued + 1]
  <2>1. [caAtt EXCEPT ![a].at = "a_race", ![a].id = caSession.id] = [caAtt EXCEPT ![a] = r] /\ r.at = "a_race"
        /\ n.at = "a_race"
    BY <1>0 DEF CaRecords
  <2>2. \/ caAtt' = [caAtt EXCEPT ![a] = n] \/ caAtt' = [caAtt EXCEPT ![a] = r]
        \/ caAtt' = [caAtt EXCEPT ![a] = CaMissed(a)]
    BY <1>2, <2>1 DEF CaStageABegin, CaReserveId
  <2> HIDE DEF r, n
  <2>3. caAtt[a].at = "a_begin"
    BY <1>2 DEF CaStageABegin
  <2> QED
    BY <2>1, <2>2, <2>3, CaMissedAt, CaStageView DEF CaLeads
<1>3. CASE CaStageARace(a)
  BY <1>3, CaGoView, CaMissedAt, CaStageAFailView DEF CaStageARace, CaClaim
<1>4. CASE CaStageAAttach(a)
  <2>1. CaIdle.at = "idle"
    BY DEF CaIdle
  <2> QED
    BY <1>4, <2>1, CaAttachView, CaStageAFailView DEF CaStageAAttach
<1>5. CASE CaRegister(a)
  BY <1>5, CaEndView DEF CaRegister
<1>6. CASE CaReuse(a)
  <2> DEFINE r == [caAtt[a] EXCEPT !.at = "retire", !.id = caSession.id]
  <2>1. [caAtt EXCEPT ![a].at = "retire", ![a].id = caSession.id] = [caAtt EXCEPT ![a] = r] /\ r.at = "retire"
    BY <1>0 DEF CaRecords
  <2>2. CaGo(a, "control") \/ caAtt' = [caAtt EXCEPT ![a] = r] \/ CaReturn(a)
    BY <1>6, <2>1 DEF CaReuse
  <2> HIDE DEF r
  <2>3. caAtt[a].at = "reuse"
    BY <1>6 DEF CaReuse
  <2> QED
    BY <2>1, <2>2, <2>3, CaGoView, CaStageView, CaGiveUpView DEF CaGo, CaLeads
<1>7. CASE CaRetire(a)
  <2> DEFINE r == [caAtt[a] EXCEPT !.at = "control", !.id = 0]
  <2>1. [caAtt EXCEPT ![a].at = "control", ![a].id = 0] = [caAtt EXCEPT ![a] = r] /\ r.at = "control"
    BY <1>0 DEF CaRecords
  <2>2. Writes(r) /\ caAtt[a].at = "retire"
    BY <1>7, <2>1 DEF CaRetire, CaFail
  <2> HIDE DEF r
  <2> QED
    BY <2>1, <2>2, CaStageView DEF CaLeads
<1>8. CASE CaControl(a)
  BY <1>8, CaGoView, CaGiveUpView DEF CaControl, CaGo
<1>9. CASE CaBegin(a)
  <2> DEFINE r == [caAtt[a] EXCEPT !.at = "b_wait", !.id = caSession.id]
             n == [[caAtt[a] EXCEPT !.at = "b_resolve", !.guard = TRUE] EXCEPT !.id = caIssued + 1]
  <2>1. [caAtt EXCEPT ![a].at = "b_wait", ![a].id = caSession.id] = [caAtt EXCEPT ![a] = r] /\ r.at = "b_wait"
        /\ n.at = "b_resolve"
    BY <1>0 DEF CaRecords
  <2>2. caAtt' = [caAtt EXCEPT ![a] = n] \/ caAtt' = [caAtt EXCEPT ![a] = r] \/ CaReturn(a)
    BY <1>9, <2>1 DEF CaBegin, CaReserveId
  <2> HIDE DEF r, n
  <2>3. caAtt[a].at = "b_begin"
    BY <1>9 DEF CaBegin
  <2> QED
    BY <2>1, <2>2, <2>3, CaStageView, CaGiveUpView DEF CaLeads
<1>10. CASE CaWait(a)
  <2> DEFINE r == [caAtt[a] EXCEPT !.at = "b_begin", !.again = TRUE, !.id = 0]
  <2>1. [caAtt EXCEPT ![a].at = "b_begin", ![a].again = TRUE, ![a].id = 0] = [caAtt EXCEPT ![a] = r] /\ r.at = "b_begin"
    BY <1>0 DEF CaRecords
  <2>2. CaGo(a, "b_sleep") \/ CaReturn(a) \/ caAtt' = [caAtt EXCEPT ![a] = r]
    BY <1>10, <2>1 DEF CaWait
  <2> HIDE DEF r
  <2>3. caAtt[a].at = "b_wait"
    BY <1>10 DEF CaWait
  <2> QED
    BY <2>1, <2>2, <2>3, CaGoView, CaStageView, CaGiveUpView DEF CaGo, CaLeads
<1>11. CASE CaResolve(a)
  <2> DEFINE r == [caAtt[a] EXCEPT !.at = "b_apply", !.answer = caPub]
  <2>1. [caAtt EXCEPT ![a].at = "b_apply", ![a].answer = caPub] = [caAtt EXCEPT ![a] = r] /\ r.at = "b_apply"
    BY <1>0 DEF CaRecords
  <2>2. (caAtt[a].at = "b_resolve" /\ CaGo(a, "b_again")) \/ CaGiveUp(a) \/ caAtt' = [caAtt EXCEPT ![a] = r]
    BY <1>11, <2>1 DEF CaResolve
  <2> HIDE DEF r
  <2>3. caAtt[a].at \in {"b_resolve", "b_again"}
    BY <1>11 DEF CaResolve
  <2> QED
    BY <2>1, <2>2, <2>3, CaGoView, CaStageView, CaGiveUpView DEF CaGo, CaLeads
<1>12. CASE CaApply(a)
  <2> DEFINE i == caAtt[a].answer
             v == [epoch |-> CaSnap(i).epoch, rev |-> CaSnap(i).rev, live |-> TRUE]
             r == [caAtt[a] EXCEPT !.at = "b_race", !.offer = i, !.answer = 0, !.view = v]
             next == [caAtt EXCEPT ![a].at = "b_race", ![a].offer = i, ![a].answer = 0, ![a].view = v]
  <2>1. caAtt' \in {next, CaWoken(next), CaWoken(CaEnd(caAtt, a))} /\ caAtt[a].at = "b_apply"
    BY <1>12 DEF CaApply
  <2> HIDE DEF i, v
  <2>2. next = [caAtt EXCEPT ![a] = r] /\ r.at = "b_race"
    BY <1>0 DEF CaRecords
  <2> HIDE DEF r, next
  <2>3. CASE caAtt' \in {next, CaWoken(next)}
    <3>1. CaLeads(a, r)
      BY <2>1, <2>2, <2>3 DEF CaLeads
    <3> QED
      BY <3>1, CaStageView
  <2> QED
    BY <2>1, <2>3, CaEndView
<1>13. CASE CaRace(a)
  <2> DEFINE r == [caAtt[a] EXCEPT !.at = "c_reserve", !.view.live = FALSE]
  <2>1. [caAtt EXCEPT ![a].at = "c_reserve", ![a].view.live = FALSE] = [caAtt EXCEPT ![a] = r] /\ r.at = "c_reserve"
    BY <1>0 DEF CaRecords
  <2>2. CaClaim(a, "b_attach") \/ CaGiveUp(a) \/ caAtt' = [caAtt EXCEPT ![a] = r]
    BY <1>13, <2>1 DEF CaRace
  <2> HIDE DEF r
  <2>3. caAtt[a].at = "b_race"
    BY <1>13 DEF CaRace
  <2> QED
    BY <2>1, <2>2, <2>3, CaGoView, CaStageView, CaGiveUpView DEF CaClaim, CaLeads
<1>14. CASE CaStageBAttach(a)
  BY <1>14, CaAttachView, CaGiveUpView DEF CaStageBAttach
<1>15. CASE CaReserve(a)
  BY <1>15, CaGoView, CaGiveUpView DEF CaReserve, CaGo
<1>16. CASE CaRelayData(a)
  BY <1>16, CaGoView, CaGiveUpView DEF CaRelayData, CaClaim
<1>17. CASE CaRelayAttach(a)
  BY <1>17, CaAttachView, CaGiveUpView DEF CaRelayAttach
<1> QED
  BY <1>1, <1>2, <1>3, <1>4, <1>5, <1>6, <1>7, <1>8, <1>9, <1>10, <1>11, <1>12, <1>13, <1>14,
     <1>15, <1>16, <1>17 DEF CaStep

\* The Answer task: the view moves while the attempt is live, and forward within an epoch.
LEMMA CaAnswerView ==
  ASSUME CaInv, NEW a \in CaAttempts, CaAnswer(a) \/ CaAnswerApply(a)
  PROVE  \A b \in CaAttempts : CaViewSettles(b)
<1> DEFINE s == CaSnap(caAtt[a].answer)
<1>0. caAtt \in [CaAttempts -> CaRecords] /\ caAtt[a] \in CaRecords /\ CaTyped
  BY CaAttTyped
<1>1. ASSUME NEW i, caAtt' = [caAtt EXCEPT ![a].offer = 0, ![a].answer = i]
      PROVE  \A b \in CaAttempts : CaViewSettles(b)
  BY <1>0, <1>1 DEF CaViewSettles, CaRecords
<1>2. CASE caAtt' = [caAtt EXCEPT ![a].offer = 0] \/ caAtt' = [caAtt EXCEPT ![a].answer = 0]
  BY <1>0, <1>2 DEF CaViewSettles, CaRecords
<1>3. CASE /\ caAtt[a].view.live /\ CcAnswerApplies(caAtt[a].view, s) /\ caAtt[a].answer # 0
           /\ caAtt' = [caAtt EXCEPT ![a].answer = 0, ![a].view.epoch = s.epoch, ![a].view.rev = s.rev]
  <2>1. caAtt[a].answer \in 1..Len(CaHistory)
    <3>1. caAtt[a].answer \in 0..caPub /\ caPub \in 1..Len(CaHistory) /\ Len(CaHistory) \in Nat
      BY <1>0, ConnectAttemptAssumption, LenProperties DEF CaRecords, CaTyped
    <3> QED
      BY <1>3, <3>1
  <2>2. s.rev \in Nat /\ s.epoch \in Nat
    BY <2>1, CaSnapTyped
  <2> HIDE DEF s
  <2>3. caAtt[a].view \in CaViews
    BY <1>0 DEF CaRecords
  <2>4. /\ caAtt'[a].view.epoch = s.epoch /\ caAtt'[a].view.rev = s.rev
        /\ \A b \in CaAttempts : b # a => caAtt'[b] = caAtt[b]
    BY <1>0, <1>3 DEF CaRecords, CaViews
  <2>5. CaViewSettles(a)
    BY <1>3, <2>2, <2>3, <2>4 DEF CaViewSettles, CcAnswerApplies, CaViews
  <2> QED
    BY <2>4, <2>5 DEF CaViewSettles
<1> QED
  BY <1>1, <1>2, <1>3 DEF CaAnswer, CaAnswerApply, CaAnswerMayApply

LEMMA CaNextView ==
  CaInv /\ [ConnectAttemptNext]_caVars => \A b \in CaAttempts : CaViewSettles(b)
<1> SUFFICES ASSUME CaInv, [ConnectAttemptNext]_caVars PROVE \A b \in CaAttempts : CaViewSettles(b)
  OBVIOUS
<1>1. ASSUME NEW a \in CaAttempts, CaStart(a) \/ CaStep(a) \/ CaAnswer(a) \/ CaAnswerApply(a) \/ CaAbort(a)
      PROVE  \A b \in CaAttempts : CaViewSettles(b)
  <2>1. CASE CaAbort(a)
    BY <2>1, CaEndView DEF CaAbort
  <2> QED
    BY <1>1, <2>1, CaStartView, CaStepView, CaAnswerView
<1>2. ASSUME NEW i \in caCleanup, CaCleanUp(i) PROVE caAtt' \in {caAtt, CaWoken(caAtt)}
  BY <1>2 DEF CaCleanUp, CaFail
<1>3. \/ \E a \in CaAttempts : CaStart(a) \/ CaStep(a) \/ CaAnswer(a) \/ CaAnswerApply(a) \/ CaAbort(a)
      \/ caAtt' \in {caAtt, CaWoken(caAtt)}
  BY <1>2 DEF ConnectAttemptNext, caVars, CaStrayAnswer, CaCloseSession, CaInbound, CaClosePath, CaPublish,
              CaTakeHint, CaForgetCache
<1> QED
  BY <1>1, <1>3, CaOthersView

\* The cache: a Resolve, an Answer or a hint moves it forward, everything else leaves it.
LEMMA CaNextCache ==
  CaInv /\ [ConnectAttemptNext]_caVars => CcForward(caCache, caCache')
<1> SUFFICES ASSUME CaInv, [ConnectAttemptNext]_caVars PROVE CcForward(caCache, caCache')
  OBVIOUS
<1>0. CaTyped /\ caCache \in CcCaches /\ caPub \in 1..Len(CaHistory) /\ Len(CaHistory) \in Nat
  BY ConnectAttemptAssumption, LenProperties DEF CaInv, CaTyped
<1>1. CASE caCache' = caCache
  BY <1>0, <1>1 DEF CcForward, CcCaches
<1>2. ASSUME NEW i \in 1..Len(CaHistory), caCache' \in CcApply(caCache, CaSnap(i))
      PROVE  CcForward(caCache, caCache')
  BY <1>0, <1>2, CaSnapTyped, CcApplyForward
<1>3. ASSUME NEW a \in CaAttempts, CaApply(a) PROVE CcForward(caCache, caCache')
  <2>1. caAtt[a].answer \in 0..caPub /\ caAtt[a].answer # 0
    BY <1>3, CaAttTyped DEF CaRecords, CaRecOK, CaApply
  <2>2. caAtt[a].answer \in 1..Len(CaHistory)
    BY <1>0, <2>1
  <2> QED
    BY <1>2, <1>3, <2>2 DEF CaApply
<1>4. ASSUME NEW a \in CaAttempts, CaAnswer(a) PROVE CcForward(caCache, caCache')
  <2>1. caAtt[a].offer \in 0..caPub /\ caAtt[a].offer # 0
    BY <1>4, CaAttTyped DEF CaRecords, CaAnswer
  <2>2. caAtt[a].offer..caPub \subseteq 1..Len(CaHistory)
    BY <1>0, <2>1
  <2> QED
    BY <1>1, <1>2, <1>4, <2>2 DEF CaAnswer
<1>5. ASSUME NEW o \in caStray, CaStrayAnswer(o) PROVE CcForward(caCache, caCache')
  <2>1. o \in 1..caPub
    BY <1>0 DEF CaTyped
  <2>2. o..caPub \subseteq 1..Len(CaHistory)
    BY <1>0, <2>1
  <2> QED
    BY <1>1, <1>2, <1>5, <2>2 DEF CaStrayAnswer
<1>6. CASE CaTakeHint
  <2>1. caHint \in 1..Len(CaHistory)
    BY <1>0, <1>6 DEF CaTakeHint, CaTyped
  <2>2. CaSnap(caHint).epoch \in Nat
    BY <2>1, CaSnapTyped
  <2> QED
    BY <1>0, <1>6, <2>2, CcInvalidateForward DEF CaTakeHint
<1>7. ASSUME NEW a \in CaAttempts, CaStep(a), ~CaApply(a) PROVE caCache' = caCache
  BY <1>7 DEF CaStep, CaStageASession, CaStageABegin, CaReserveId, CaStageARace, CaClaim, CaStageAFail,
       CaStageAAttach, CaAttach, CaRegister, CaReuse, CaGo, CaReturn, CaRetire, CaControl, CaBegin,
       CaWait, CaResolve, CaGiveUp, CaRace, CaStageBAttach, CaReserve, CaRelayData, CaRelayAttach
<1>8. ASSUME NEW a \in CaAttempts, CaStart(a) \/ CaAnswerApply(a) \/ CaAbort(a) PROVE caCache' = caCache
  BY <1>8 DEF CaStart, CaAnswerApply, CaAbort
<1>9. ASSUME NEW a \in CaAttempts, CaStart(a) \/ CaStep(a) \/ CaAnswer(a) \/ CaAnswerApply(a) \/ CaAbort(a)
      PROVE  CcForward(caCache, caCache')
  BY <1>1, <1>3, <1>4, <1>7, <1>8, <1>9
<1>10. \/ caCache' = caCache \/ CaTakeHint \/ CaForgetCache \/ \E o \in caStray : CaStrayAnswer(o)
       \/ \E a \in CaAttempts : CaStart(a) \/ CaStep(a) \/ CaAnswer(a) \/ CaAnswerApply(a) \/ CaAbort(a)
  BY DEF ConnectAttemptNext, caVars, CaCleanUp, CaCloseSession, CaInbound, CaClosePath, CaPublish
<1> QED
  BY <1>1, <1>5, <1>6, <1>9, <1>10, CaForgetCacheInv

\* Resolves, Answers of earlier attempts, presence hints and expiries may come in any
\* order: the cache takes no older revision within an epoch and no retired epoch, and the view
\* an attempt registers its connection under is settled once its race has ended.
THEOREM KnowledgeMovesForward == ConnectAttemptSpec => ViewsMoveForward
<1>1. ConnectAttemptSpec => []CaInv
  BY CaInvInit, CaInvStep, PTL DEF ConnectAttemptSpec
<1>2. CaInv /\ [ConnectAttemptNext]_caVars =>
        [CcHas(caCache) /\ CcHas(caCache') =>
           IF caCache'.epoch = caCache.epoch THEN caCache'.rev >= caCache.rev
           ELSE caCache'.epoch \notin caCache.retired /\ caCache.epoch \in caCache'.retired]_caVars
  BY CaNextCache DEF CcForward
<1>3. CaInv /\ [ConnectAttemptNext]_caVars =>
        [\A a \in CaAttempts :
           caAtt[a].at = caAtt'[a].at /\ caAtt[a].view # caAtt'[a].view =>
             /\ caAtt[a].view.live
             /\ caAtt[a].view.epoch = caAtt'[a].view.epoch => caAtt[a].view.rev <= caAtt'[a].view.rev]_caVars
  BY CaNextView DEF CaViewSettles
<1>4. ConnectAttemptSpec => CacheMovesForward
  BY <1>1, <1>2, PTL DEF ConnectAttemptSpec, CacheMovesForward
<1>5. ConnectAttemptSpec => AttemptViewSettles
  BY <1>1, <1>3, PTL DEF ConnectAttemptSpec, AttemptViewSettles
<1> QED
  BY <1>4, <1>5 DEF ViewsMoveForward
=============================================================================
