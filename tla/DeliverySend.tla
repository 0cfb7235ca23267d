---------------------------- MODULE DeliverySend ----------------------------
(***************************************************************************)
(* The sending half of the delivery layer for one peer: the pending store  *)
(* of delivery/send.rs and delivery/recovery.rs and the three actors of    *)
(* channel/send.rs that drive it (the task spawned per message, the replay *)
(* after a connection became ready, and the retry worker).                 *)
(*                                                                         *)
(* Every DeliveryManager method holds the one store lock from start to end *)
(* and is one step.  deliver_pending_message makes two such calls with the *)
(* transport write between them, so a claimed message is a record of       *)
(* `claims` and everything else may run before its result is reported.     *)
(*                                                                         *)
(* Abstractions.  A MessageId is the <channel, sequence> the store gave    *)
(* the message, together with the policy and size it was queued with;      *)
(* Acked, AckedDeduplicated and ResumableTransfer are one policy, the code *)
(* never tells them apart.  An Instant is the flag that says whether it is *)
(* past: `due` for next_retry_at, `lapsed` for expires_at.  retry_bytes is *)
(* (attempts - 1) times the size.  recovery_epoch is an echo nothing reads.*)
(***************************************************************************)
EXTENDS Naturals, FiniteSets

CONSTANTS
  SendChannels,
  PoliciesOf,         \* [SendChannels -> SUBSET SendPolicies]: what the application sends where
  Sizes,              \* payload lengths
  MaxSequence,        \* model bound: sequences 0 .. MaxSequence are handed out
  MaxPendingMessages, \* DeliveryConfig::max_pending_messages
  MaxPendingBytes,    \* DeliveryConfig::max_pending_bytes
  MaxAttempts,        \* RetryPolicy::max_attempts
  MaxRetryBytes,      \* RetryPolicy::max_total_retry_bytes
  MaxTerminal,        \* MAX_TERMINAL_OUTCOMES
  MayLapse,           \* TRUE: messages carry a TTL (RetryPolicy::ttl is optional)
  MayCancel,          \* TRUE: DeliveryManager::cancel is called
  SendRefused         \* TRUE: the task supervisor may refuse a spawn

SendPolicies == {"BestEffort", "LatestState", "Acked", "SessionBoundOrdered"}

ASSUME SendAssumption ==
  /\ PoliciesOf \in [SendChannels -> SUBSET SendPolicies]
  /\ Sizes \subseteq Nat
  /\ MaxSequence \in Nat
  /\ MaxPendingMessages \in Nat /\ MaxPendingBytes \in Nat
  /\ MaxAttempts \in Nat \ {0} /\ MaxRetryBytes \in Nat
  /\ MaxTerminal \in Nat \ {0}
  /\ MayLapse \in BOOLEAN /\ MayCancel \in BOOLEAN /\ SendRefused \in BOOLEAN

Messages == [ch : SendChannels, seq : Nat, pol : SendPolicies, size : Sizes]
Actors   == {"send", "replay", "retry"}
Entries  == [state : {"Queued", "Sending", "SentUnacked"}, attempts : Nat,
             due : BOOLEAN, lapsed : BOOLEAN]
Claims   == [by : Actors, m : Messages, attempt : Nat, written : BOOLEAN]
Terminals == {"Acknowledged", "Expired", "Cancelled", "Failed"}

VARIABLES
  pending, pendingBytes, outcomes, nextSequence,  \* DeliveryStore
  retrying,  \* the peer is in retry_workers
  online,    \* the peer has a current ConnectionSession
  jobs,      \* <<actor, message>>: deliver_pending_message before begin_send
  claims,    \* ... and between begin_send and the report of its result
  wrote      \* history: <<message, attempt>> frames the transport took

store   == <<pending, pendingBytes, outcomes, nextSequence>>
sending == <<store, retrying, online, jobs, claims, wrote>>

-----------------------------------------------------------------------------
\* The payload bytes of the messages of S, counted byte by byte.
Bytes(S) == Cardinality(UNION {{m} \X (1 .. m.size) : m \in S})
Pending  == DOMAIN pending
Lapsed   == {m \in Pending : pending[m].lapsed}
FreshSend == [state |-> "Queued", attempts |-> 0, due |-> TRUE, lapsed |-> FALSE]
Without(S) == [m \in Pending \ S |-> pending[m]]
Extends(f, m, v) == [x \in DOMAIN f \cup {m} |-> IF x = m THEN v ELSE f[x]]
\* The two spawns that may be refused once the supervisor is full or stopping.
Spawned == IF SendRefused THEN BOOLEAN ELSE {TRUE}

\* remove_pending: the byte counter is decreased by a saturating_sub.
BytesWithout(S) == IF Bytes(S) > pendingBytes THEN 0 ELSE pendingBytes - Bytes(S)

\* record_terminal for every message of S: the first outcome of a message is
\* kept, and a full history gives up whatever key the hash map yields first.
RecordTerminal(S, o) ==
  LET all == DOMAIN outcomes \cup S IN
  \E kept \in SUBSET all :
    /\ Cardinality(kept) = IF Cardinality(all) > MaxTerminal THEN MaxTerminal
                                                             ELSE Cardinality(all)
    /\ S = {} \/ kept \cap S # {}
    /\ outcomes' = [m \in kept |-> IF m \in DOMAIN outcomes THEN outcomes[m] ELSE o]

\* Removing a message for good: remove_pending followed by record_terminal.
\* Mutants: the byte counter is forgotten; the entry is left in the map.
SettleLeak(S, o) ==
  /\ pending' = Without(S)
  /\ UNCHANGED pendingBytes
  /\ RecordTerminal(S, o)
SettleKeeps(S, o) ==
  /\ UNCHANGED <<pending, pendingBytes>>
  /\ RecordTerminal(S, o)
Settle(S, o) ==
  /\ pending' = Without(S)
  /\ pendingBytes' = BytesWithout(S)
  /\ RecordTerminal(S, o)

SendInit ==
  /\ pending = << >> /\ pendingBytes = 0 /\ outcomes = << >>
  /\ nextSequence = [ch \in SendChannels |-> 0]
  /\ retrying = FALSE /\ online = FALSE
  /\ jobs = {} /\ claims = {} /\ wrote = {}

-----------------------------------------------------------------------------
(* start_send_message                                                      *)

\* A newer LatestState message obsoletes the pending ones of its channel.
Obsolete(m) ==
  {x \in Pending : m.pol = "LatestState" /\ x.ch = m.ch /\ x.pol = "LatestState"}
Fits(m) ==
  \/ m.pol = "BestEffort"
  \/ /\ Cardinality(Pending \ Obsolete(m)) < MaxPendingMessages
     /\ BytesWithout(Obsolete(m)) + m.size <= MaxPendingBytes

\* enqueue, ensure_retry_worker and the spawn of the send task.  The path that
\* ensure_reliable_message_path found may be gone again.  A message whose task is
\* refused stays pending although the caller is told "Cancelled".
Enqueue(m) ==
  /\ Fits(m)
  /\ m.seq = nextSequence[m.ch]
  /\ nextSequence' = [nextSequence EXCEPT ![m.ch] = @ + 1]
  /\ RecordTerminal(Obsolete(m), "Cancelled")
  /\ IF m.pol = "BestEffort"
     THEN UNCHANGED <<pending, pendingBytes>>
     ELSE /\ pending' = Extends(Without(Obsolete(m)), m, FreshSend)
          /\ pendingBytes' = BytesWithout(Obsolete(m)) + m.size
  /\ \E w \in Spawned : retrying' = (retrying \/ w)
  /\ \E t \in Spawned : jobs' = IF t THEN jobs \cup {<<"send", m>>} ELSE jobs
  /\ UNCHANGED <<online, claims, wrote>>

\* QueueFull: the obsolete messages are already gone when the check fails.
EnqueueFull(m) ==
  /\ ~Fits(m)
  /\ m.seq = nextSequence[m.ch]
  /\ Obsolete(m) # {}
  /\ Settle(Obsolete(m), "Cancelled")
  /\ UNCHANGED <<nextSequence, retrying, online, jobs, claims, wrote>>

-----------------------------------------------------------------------------
(* deliver_pending_message: begin_send_for_peer                            *)

\* The retry worker takes its messages one at a time in order of sequence; the
\* replays of several connections overlap, and so do the send tasks.
InTurn(by, m) ==
  by = "retry" => /\ \A c \in claims : c.by # "retry"
                  /\ \A j \in jobs : j[1] = "retry" => m.seq <= j[2].seq
TakeJob(by, m) == <<by, m>> \in jobs /\ InTurn(by, m) /\ jobs' = jobs \ {<<by, m>>}
Claim(by, m, n) == claims' = claims \cup {[by |-> by, m |-> m, attempt |-> n, written |-> FALSE]}
\* Mutant: one attempt too many.
ExhaustedLate(m) == pending[m].attempts > MaxAttempts
\* The attempt after the current one would exceed a budget.
Exhausted(m) ==
  LET n == pending[m].attempts + 1 IN n > MaxAttempts \/ (n - 1) * m.size > MaxRetryBytes
Ready(m) == pending[m].state # "Sending" /\ pending[m].due

\* BestEffort messages never enter the store.
BeginBestEffort(by, m) ==
  /\ m.pol = "BestEffort" /\ TakeJob(by, m) /\ Claim(by, m, 0)
  /\ UNCHANGED <<store, retrying, online, wrote>>

\* NotFound, or Ok(None): someone else is sending it, or its backoff runs.
BeginNothing(by, m) ==
  /\ m.pol # "BestEffort" /\ TakeJob(by, m)
  /\ m \in Pending => (m \notin Lapsed /\ ~Ready(m))
  /\ UNCHANGED <<store, retrying, online, claims, wrote>>

BeginSettled(by, m) ==
  /\ TakeJob(by, m) /\ m \in Pending
  /\ \/ m \in Lapsed /\ Settle({m}, "Expired")
     \/ m \notin Lapsed /\ Ready(m) /\ Exhausted(m) /\ Settle({m}, "Failed")
  /\ UNCHANGED <<nextSequence, retrying, online, claims, wrote>>

\* Mutant: a resend after a recovery carries the token of the attempt before it.
BeginSendSameToken(by, m) ==
  /\ TakeJob(by, m) /\ m \in Pending \ Lapsed
  /\ Ready(m) /\ ~Exhausted(m)
  /\ pending' = [pending EXCEPT ![m].state = "Sending", ![m].attempts = 1]
  /\ Claim(by, m, 1)
  /\ UNCHANGED <<pendingBytes, outcomes, nextSequence, retrying, online, wrote>>
BeginSend(by, m) ==
  /\ TakeJob(by, m) /\ m \in Pending \ Lapsed
  /\ Ready(m) /\ ~Exhausted(m)
  /\ pending' = [pending EXCEPT ![m].state = "Sending", ![m].attempts = @ + 1]
  /\ Claim(by, m, pending[m].attempts + 1)
  /\ UNCHANGED <<pendingBytes, outcomes, nextSequence, retrying, online, wrote>>

-----------------------------------------------------------------------------
(* deliver_pending_message: the write and the report of its result         *)

\* send_data_message on the current session: the transport took the frame.
Write(c) ==
  /\ c \in claims /\ ~c.written /\ online
  /\ claims' = (claims \ {c}) \cup {[c EXCEPT !.written = TRUE]}
  /\ wrote' = wrote \cup {<<c.m, c.attempt>>}
  /\ UNCHANGED <<store, retrying, online, jobs>>

\* Mutant: the token of the attempt is not compared.
HoldsAnyAttempt(c) == c.m \in Pending /\ pending[c.m].state = "Sending"
\* The result belongs to the attempt that holds the message.
Holds(c) ==
  /\ c.m \in Pending
  /\ pending[c.m].state = "Sending" /\ pending[c.m].attempts = c.attempt

\* mark_sent_for_attempt
MarkSent(c) ==
  /\ c \in claims /\ c.written
  /\ claims' = claims \ {c}
  /\ pending' = IF Holds(c)
                THEN [pending EXCEPT ![c.m].state = "SentUnacked", ![c.m].due = FALSE]
                ELSE pending
  /\ UNCHANGED <<pendingBytes, outcomes, nextSequence, retrying, online, jobs, wrote>>

\* mark_send_failed_for_attempt: no session or lease, a failed write, or a lease
\* lost during a write that did go out.  Expiry is looked at before the token.
OutOfBudget(m) ==
  pending[m].attempts >= MaxAttempts \/ pending[m].attempts * m.size > MaxRetryBytes
MarkSendFailed(c) ==
  /\ c \in claims
  /\ claims' = claims \ {c}
  /\ \/ c.m \in Lapsed /\ Settle({c.m}, "Expired")
     \/ c.m \notin Lapsed /\ ~Holds(c) /\ UNCHANGED <<pending, pendingBytes, outcomes>>
     \/ c.m \notin Lapsed /\ Holds(c) /\ OutOfBudget(c.m) /\ Settle({c.m}, "Failed")
     \/ /\ c.m \notin Lapsed /\ Holds(c) /\ ~OutOfBudget(c.m)
        /\ pending' = [pending EXCEPT ![c.m].state = "Queued", ![c.m].due = FALSE]
        /\ UNCHANGED <<pendingBytes, outcomes>>
  /\ UNCHANGED <<nextSequence, retrying, online, jobs, wrote>>

-----------------------------------------------------------------------------
(* Recovery, the retry worker, acknowledgement and time                    *)

\* recover_session, run for every connection that became ready.
RecoverSession ==
  /\ pending' = [m \in Pending \ Lapsed |->
                   [pending[m] EXCEPT !.state = "Queued", !.due = TRUE]]
  /\ pendingBytes' = BytesWithout(Lapsed)
  /\ RecordTerminal(Lapsed, "Expired")
  /\ jobs' = jobs \cup {<<"replay", m>> : m \in Pending \ Lapsed}
  /\ \E w \in Spawned : retrying' = (retrying \/ w)
  /\ UNCHANGED <<nextSequence, online, claims, wrote>>

\* A ConnectionSession becomes current or is retired; the store keeps its messages.
SessionChanges ==
  /\ online' = ~online
  /\ UNCHANGED <<store, retrying, jobs, claims, wrote>>

\* Mutant: messages waiting for their ACK are never looked at again.
RetryableQueued == {m \in Pending \ Lapsed : pending[m].state = "Queued" /\ pending[m].due}
\* One turn of the retry worker: retryable_messages, then its jobs in turn.
Retryable == {m \in Pending \ Lapsed : Ready(m)}
RetryScan ==
  /\ retrying /\ online
  /\ \A j \in jobs : j[1] # "retry"
  /\ \A c \in claims : c.by # "retry"
  /\ Retryable \cup Lapsed # {}
  /\ pending' = [m \in Pending \ Lapsed |->
                   IF m \in Retryable THEN [pending[m] EXCEPT !.state = "Queued"] ELSE pending[m]]
  /\ pendingBytes' = BytesWithout(Lapsed)
  /\ RecordTerminal(Lapsed, "Expired")
  /\ jobs' = jobs \cup {<<"retry", m>> : m \in Retryable}
  /\ UNCHANGED <<nextSequence, retrying, online, claims, wrote>>

\* acknowledge: correlated by message alone, whichever attempt it answers.
Acknowledge(m) ==
  /\ m \in Pending
  /\ Settle({m}, "Acknowledged")
  /\ UNCHANGED <<nextSequence, retrying, online, jobs, claims, wrote>>

Cancel(m) ==
  /\ MayCancel /\ m \in Pending
  /\ Settle({m}, "Cancelled")
  /\ UNCHANGED <<nextSequence, retrying, online, jobs, claims, wrote>>

\* The clock passes next_retry_at or expires_at.
BackoffElapses(m) ==
  /\ m \in Pending /\ ~pending[m].due
  /\ pending' = [pending EXCEPT ![m].due = TRUE]
  /\ UNCHANGED <<pendingBytes, outcomes, nextSequence, retrying, online, jobs, claims, wrote>>
TtlElapses(m) ==
  /\ MayLapse /\ m \in Pending /\ ~pending[m].lapsed
  /\ pending' = [pending EXCEPT ![m].lapsed = TRUE]
  /\ UNCHANGED <<pendingBytes, outcomes, nextSequence, retrying, online, jobs, claims, wrote>>

\* A message an application may ask to send next.
Sendable ==
  {m \in [ch : SendChannels, seq : 0 .. MaxSequence, pol : SendPolicies, size : Sizes] :
     m.pol \in PoliciesOf[m.ch] /\ m.seq = nextSequence[m.ch]}

DeliverStep(by, m) ==
  \/ BeginBestEffort(by, m) \/ BeginNothing(by, m)
  \/ BeginSettled(by, m) \/ BeginSend(by, m)
SendLocal ==
  \/ \E m \in Sendable : Enqueue(m) \/ EnqueueFull(m)
  \/ \E j \in jobs : DeliverStep(j[1], j[2])
  \/ \E c \in claims : MarkSent(c) \/ MarkSendFailed(c)
  \/ RecoverSession \/ SessionChanges \/ RetryScan
  \/ \E m \in Pending : Cancel(m) \/ BackoffElapses(m) \/ TtlElapses(m)

\* The component on its own: the peer acknowledges what was written to it.
SendNext ==
  \/ SendLocal
  \/ \E c \in claims : Write(c)
  \/ \E m \in Pending : (\E n \in 1 .. MaxAttempts : <<m, n>> \in wrote) /\ Acknowledge(m)

SendSpec == SendInit /\ [][SendNext]_sending

\* Tasks run, the clock moves, a lost session is eventually replaced (the
\* supervisor maintains the connection), and again and again a session outlives
\* one poll interval of the retry worker (strong fairness of RetryScan).
SendFairness ==
  /\ WF_sending(\E j \in jobs : DeliverStep(j[1], j[2]))
  /\ WF_sending(\E c \in claims : MarkSent(c) \/ MarkSendFailed(c))
  /\ SF_sending(RetryScan)
  /\ WF_sending(~online /\ SessionChanges)
  /\ WF_sending(\E m \in Pending : BackoffElapses(m))
SendFairSpec == SendSpec /\ SendFairness

-----------------------------------------------------------------------------
(* Properties                                                              *)

\* The pending store, its counters and the two halves of every delivery task
\* keep their types.
SendTypeOK ==
  /\ Pending \subseteq Messages /\ pending \in [Pending -> Entries]
  /\ pendingBytes \in Nat
  /\ DOMAIN outcomes \subseteq Messages /\ outcomes \in [DOMAIN outcomes -> Terminals]
  /\ nextSequence \in [SendChannels -> Nat]
  /\ retrying \in BOOLEAN /\ online \in BOOLEAN
  /\ jobs \subseteq Actors \X Messages
  /\ claims \subseteq Claims
  /\ wrote \subseteq Messages \X Nat

\* pending_bytes is the sum of the pending payloads over every path that queues,
\* replaces, expires, fails, cancels or acknowledges, and both limits hold.
BytesAccounted ==
  /\ pendingBytes = Bytes(Pending)
  /\ pendingBytes <= MaxPendingBytes /\ Cardinality(Pending) <= MaxPendingMessages

\* A late result never settles a newer attempt: a message waits for its ACK only
\* if the frame of its current attempt was really written.
SentWasWritten ==
  \A m \in Pending : pending[m].state = "SentUnacked" => <<m, pending[m].attempts>> \in wrote

\* A message in Sending, which retries and scans leave alone, has exactly one
\* task that will report on it.
SendingIsOwned ==
  \A m \in Pending : pending[m].state = "Sending" =>
    Cardinality({c \in claims : c.m = m /\ c.attempt = pending[m].attempts}) = 1

\* A reliable message is written at most once per attempt of its budget, however
\* recoveries, scans and stale results interleave.
AttemptsBounded ==
  \A w \in wrote : w[1].pol # "BestEffort" =>
    Cardinality({v \in wrote : v[1] = w[1]}) <= MaxAttempts

\* A settled message never comes back and its recorded outcome never changes.
SettledIsFinal ==
  [][\A m \in DOMAIN outcomes :
       /\ m \notin DOMAIN pending'
       /\ m \in DOMAIN outcomes' => outcomes'[m] = outcomes[m]]_sending

\* Violated.  A pending LatestState message is cancelled only by the newer state that takes
\* its place.
LatestStateReplaced ==
  [][\A m \in Pending \ DOMAIN pending' :
       (m.pol = "LatestState" /\ m \in DOMAIN outcomes' /\ outcomes'[m] = "Cancelled") =>
         \E n \in DOMAIN pending' : n.pol = "LatestState" /\ n.ch = m.ch /\ n.seq > m.seq]_sending

\* No message stays pending for ever: it is acknowledged, expires or uses up its
\* attempts, even if sessions come and go and nothing is ever acknowledged.
PendingSettles ==
  \A ch \in SendChannels : \A s \in 0 .. MaxSequence :
    (\E m \in Pending : m.ch = ch /\ m.seq = s) ~> ~(\E m \in Pending : m.ch = ch /\ m.seq = s)

\* pending_bytes and both limits stay exact over every way into and out of the store.
SendStoreConsistent == SendTypeOK /\ BytesAccounted

\* The delivery tasks, the retry worker and late results agree on who works on a
\* message: it has one owner while it is sent, counts as sent only if its current
\* attempt was written, and is written no more often than its budget allows.
AttemptsOwned == SentWasWritten /\ SendingIsOwned /\ AttemptsBounded
=============================================================================
