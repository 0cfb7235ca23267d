------------------------- MODULE DeliverySendProofs -------------------------
(***************************************************************************)
(* Safety proofs about DeliverySend, for every set of channels, policies   *)
(* and sizes, every limit and every interleaving of the send tasks, the    *)
(* replays, the retry worker and their late results.                       *)
(***************************************************************************)
EXTENDS DeliverySend, FiniteSetTheorems, TLAPS

-----------------------------------------------------------------------------
(* The bytes of a set of messages                                          *)

ByteSet(S) == UNION {{m} \X (1 .. m.size) : m \in S}

\* A message counts for its size.
LEMMA BytesOne ==
  ASSUME NEW m, m.size \in Nat
  PROVE  IsFiniteSet(ByteSet({m})) /\ Bytes({m}) = m.size
<1>1. ByteSet({m}) = {m} \X (1 .. m.size)
  BY DEF ByteSet
<1>2. IsFiniteSet(1 .. m.size) /\ Cardinality(1 .. m.size) = m.size
  BY FS_Interval
<1>3. IsFiniteSet({m}) /\ Cardinality({m}) = 1
  BY FS_Singleton
<1>4. /\ IsFiniteSet({m} \X (1 .. m.size))
      /\ Cardinality({m} \X (1 .. m.size)) = Cardinality({m}) * Cardinality(1 .. m.size)
  BY <1>2, <1>3, FS_Product
<1>5. Cardinality({m}) * Cardinality(1 .. m.size) = m.size
  BY <1>2, <1>3
<1> QED
  BY <1>1, <1>4, <1>5 DEF Bytes, ByteSet

LEMMA BytesNone == Bytes({}) = 0
<1>1. UNION {{m} \X (1 .. m.size) : m \in {}} = {}
  OBVIOUS
<1> QED
  BY <1>1, FS_EmptySet DEF Bytes

\* Finitely many messages have finitely many bytes.
LEMMA BytesFinite ==
  ASSUME NEW S, IsFiniteSet(S), \A m \in S : m.size \in Nat
  PROVE  IsFiniteSet(ByteSet(S)) /\ Bytes(S) \in Nat
<1> DEFINE part == [m \in S |-> {m} \X (1 .. m.size)]
           parts == {{m} \X (1 .. m.size) : m \in S}
<1>1. part \in Surjection(S, parts)
  BY DEF Surjection
<1>2. IsFiniteSet(parts)
  BY <1>1, FS_Surjection
<1>3. ASSUME NEW T \in parts PROVE IsFiniteSet(T)
  <2>1. PICK m \in S : T = {m} \X (1 .. m.size)
    OBVIOUS
  <2>2. IsFiniteSet(ByteSet({m})) /\ ByteSet({m}) = T
    BY <2>1, BytesOne DEF ByteSet
  <2> QED
    BY <2>2
<1>4. IsFiniteSet(UNION parts)
  BY <1>2, <1>3, FS_UNION
<1> QED
  BY <1>4, FS_CardinalityType DEF ByteSet, Bytes

\* Taking messages away takes their bytes away.
LEMMA BytesSplit ==
  ASSUME NEW S, IsFiniteSet(S), \A m \in S : m.size \in Nat, NEW T \in SUBSET S
  PROVE  Bytes(S) = Bytes(S \ T) + Bytes(T)
<1> DEFINE A == ByteSet(S \ T)
           B == ByteSet(T)
<1>1. IsFiniteSet(S \ T) /\ IsFiniteSet(T)
  BY FS_Subset
<1>2. IsFiniteSet(A) /\ IsFiniteSet(B) /\ Bytes(S \ T) \in Nat /\ Bytes(T) \in Nat
  BY <1>1, BytesFinite
<1>3. ByteSet(S) = A \cup B
  BY DEF ByteSet
<1>4. A \cap B = {}
  BY DEF ByteSet
<1>5. Cardinality(A \cup B) = Cardinality(A) + Cardinality(B) - Cardinality(A \cap B)
  BY <1>2, FS_Union
<1>6. Cardinality(A \cap B) = 0
  BY <1>4, FS_EmptySet
<1>7. Bytes(S) = Cardinality(ByteSet(S)) /\ Bytes(S \ T) = Cardinality(A) /\ Bytes(T) = Cardinality(B)
  BY DEF Bytes, ByteSet
<1> QED
  BY <1>2, <1>3, <1>5, <1>6, <1>7

LEMMA BytesAdd ==
  ASSUME NEW S, IsFiniteSet(S), \A x \in S : x.size \in Nat,
         NEW m, m \notin S, m.size \in Nat
  PROVE  Bytes(S \cup {m}) = Bytes(S) + m.size
<1>1. IsFiniteSet(S \cup {m})
  BY FS_AddElement
<1>2. (S \cup {m}) \ {m} = S
  OBVIOUS
<1>3. Bytes(S \cup {m}) = Bytes(S) + Bytes({m})
  BY <1>1, <1>2, BytesSplit
<1> QED
  BY <1>3, BytesOne

-----------------------------------------------------------------------------
(* Types                                                                   *)

\* A recorded outcome is one of a settled message, and the first one stays.
Recorded(S) ==
  /\ DOMAIN outcomes' \subseteq DOMAIN outcomes \cup S
  /\ \A m \in DOMAIN outcomes \cap DOMAIN outcomes' : outcomes'[m] = outcomes[m]
OutcomesTyped == DOMAIN outcomes \subseteq Messages /\ outcomes \in [DOMAIN outcomes -> Terminals]
PendingTyped == Pending \subseteq Messages /\ pending \in [Pending -> Entries]

LEMMA RecordTerminalEffect ==
  ASSUME OutcomesTyped, NEW S \in SUBSET Messages, NEW o \in Terminals, RecordTerminal(S, o)
  PROVE  OutcomesTyped' /\ Recorded(S)
<1>1. PICK kept \in SUBSET (DOMAIN outcomes \cup S) :
        outcomes' = [m \in kept |-> IF m \in DOMAIN outcomes THEN outcomes[m] ELSE o]
  BY DEF RecordTerminal
<1>2. DOMAIN outcomes' = kept
  BY <1>1
<1> QED
  BY <1>1, <1>2 DEF Recorded, OutcomesTyped

\* Settling takes the messages out of the store and keeps its types.
LEMMA SettleEffect ==
  ASSUME SendTypeOK, NEW S \in SUBSET Pending, NEW o \in Terminals, Settle(S, o)
  PROVE  /\ OutcomesTyped' /\ Recorded(S)
         /\ PendingTyped' /\ Pending' = Pending \ S
         /\ \A m \in Pending' : pending'[m] = pending[m]
         /\ pendingBytes' = BytesWithout(S)
<1>1. OutcomesTyped' /\ Recorded(S)
  BY RecordTerminalEffect DEF SendTypeOK, Settle, OutcomesTyped
<1>2. pending' = [m \in Pending \ S |-> pending[m]]
  BY DEF Settle, Without
<1> QED
  BY <1>1, <1>2 DEF Settle, PendingTyped, SendTypeOK, Pending

\* The messages whose bytes the counter holds are finite in number and have a size.
Counted == IsFiniteSet(Pending) /\ Pending \subseteq Messages

\* What a step that queues nothing does to the store: it takes the messages of S
\* out, each at most once and with an outcome if it has one.
Removes(S) ==
  /\ S \subseteq Pending /\ Pending' = Pending \ S
  /\ pendingBytes' = BytesWithout(S)
  /\ Recorded(S)
  /\ nextSequence' = nextSequence
StoreTyped == PendingTyped /\ OutcomesTyped /\ nextSequence \in [SendChannels -> Nat]
TasksTyped ==
  /\ retrying \in BOOLEAN /\ online \in BOOLEAN
  /\ jobs \subseteq Actors \X Messages /\ claims \subseteq Claims
  /\ wrote \subseteq Messages \X Nat

\* A step that changes entries but takes none out.
LEMMA EntriesChange ==
  ASSUME SendTypeOK, pending' \in [Pending -> Entries],
         UNCHANGED <<pendingBytes, outcomes, nextSequence>>
  PROVE  StoreTyped' /\ Removes({})
<1>1. Pending' = Pending
  BY DEF Pending
<1>2. pendingBytes' = BytesWithout({})
  BY BytesNone DEF BytesWithout, SendTypeOK
<1> QED
  BY <1>1, <1>2 DEF SendTypeOK, StoreTyped, PendingTyped, OutcomesTyped, Removes, Recorded

LEMMA SettleShape ==
  ASSUME SendTypeOK, NEW S \in SUBSET Pending, NEW o \in Terminals, Settle(S, o),
         UNCHANGED nextSequence
  PROVE  StoreTyped' /\ Removes(S)
BY SettleEffect DEF StoreTyped, Removes, SendTypeOK

\* A step that takes the lapsed messages out and rewrites the entries of the rest.
LEMMA LapsedShape ==
  ASSUME SendTypeOK, Pending' = Pending \ Lapsed, pending' \in [Pending' -> Entries],
         pendingBytes' = BytesWithout(Lapsed), RecordTerminal(Lapsed, "Expired"),
         UNCHANGED nextSequence
  PROVE  StoreTyped' /\ Removes(Lapsed)
<1>1. Lapsed \subseteq Pending /\ Lapsed \subseteq Messages
  BY DEF Lapsed, SendTypeOK
<1>2. OutcomesTyped' /\ Recorded(Lapsed)
  BY <1>1, RecordTerminalEffect DEF SendTypeOK, OutcomesTyped, Terminals
<1> QED
  BY <1>1, <1>2 DEF StoreTyped, Removes, PendingTyped, SendTypeOK

\* Every step but an enqueue takes messages out of the store, or none.
LEMMA StoreShape ==
  ASSUME SendTypeOK, [SendNext]_sending, ~(\E m \in Sendable : Enqueue(m))
  PROVE  StoreTyped' /\ \E S : Removes(S)
<1> USE DEF store
<1>1. ASSUME NEW m \in Sendable, EnqueueFull(m) PROVE StoreTyped' /\ \E S : Removes(S)
  <2>1. Obsolete(m) \in SUBSET Pending
    BY DEF Obsolete
  <2> QED
    BY <1>1, <2>1, SettleShape DEF EnqueueFull, Terminals
<1>2. ASSUME NEW by, NEW m, BeginBestEffort(by, m) \/ BeginNothing(by, m)
      PROVE  StoreTyped' /\ \E S : Removes(S)
  BY <1>2, EntriesChange DEF BeginBestEffort, BeginNothing, SendTypeOK
<1>3. ASSUME NEW by, NEW m, BeginSettled(by, m) PROVE StoreTyped' /\ \E S : Removes(S)
  <2>1. {m} \in SUBSET Pending
    BY <1>3 DEF BeginSettled
  <2>2. Settle({m}, "Expired") \/ Settle({m}, "Failed")
    BY <1>3 DEF BeginSettled
  <2> QED
    BY <1>3, <2>1, <2>2, SettleShape DEF BeginSettled, Terminals
<1>4. ASSUME NEW by, NEW m, BeginSend(by, m) PROVE StoreTyped' /\ \E S : Removes(S)
  <2>1. pending' \in [Pending -> Entries]
    BY <1>4 DEF BeginSend, SendTypeOK, Entries
  <2> QED
    BY <1>4, <2>1, EntriesChange DEF BeginSend
<1>5. ASSUME NEW c \in claims, Write(c) PROVE StoreTyped' /\ \E S : Removes(S)
  BY <1>5, EntriesChange DEF Write, SendTypeOK
<1>6. ASSUME NEW c \in claims, MarkSent(c) PROVE StoreTyped' /\ \E S : Removes(S)
  <2>1. pending' \in [Pending -> Entries]
    BY <1>6 DEF MarkSent, SendTypeOK, Entries, Holds
  <2> QED
    BY <1>6, <2>1, EntriesChange DEF MarkSent
<1>7. ASSUME NEW c \in claims, MarkSendFailed(c) PROVE StoreTyped' /\ \E S : Removes(S)
  <2>1. CASE c.m \in Lapsed /\ Settle({c.m}, "Expired")
    <3>1. {c.m} \in SUBSET Pending
      BY <2>1 DEF Lapsed
    <3> QED
      BY <1>7, <2>1, <3>1, SettleShape DEF MarkSendFailed, Terminals
  <2>2. CASE UNCHANGED <<pending, pendingBytes, outcomes>>
    BY <1>7, <2>2, EntriesChange DEF MarkSendFailed, SendTypeOK
  <2>3. CASE Holds(c) /\ Settle({c.m}, "Failed")
    <3>1. {c.m} \in SUBSET Pending
      BY <2>3 DEF Holds
    <3> QED
      BY <1>7, <2>3, <3>1, SettleShape DEF MarkSendFailed, Terminals
  <2>4. CASE /\ Holds(c)
             /\ pending' = [pending EXCEPT ![c.m].state = "Queued", ![c.m].due = FALSE]
             /\ UNCHANGED <<pendingBytes, outcomes>>
    <3>1. pending' \in [Pending -> Entries]
      BY <2>4 DEF SendTypeOK, Entries, Holds
    <3> QED
      BY <1>7, <2>4, <3>1, EntriesChange DEF MarkSendFailed
  <2> QED
    BY <1>7, <2>1, <2>2, <2>3, <2>4 DEF MarkSendFailed
<1>8. ASSUME RecoverSession PROVE StoreTyped' /\ \E S : Removes(S)
  <2>1. Pending' = Pending \ Lapsed /\ pending' \in [Pending' -> Entries]
    BY <1>8 DEF RecoverSession, SendTypeOK, Entries, Pending
  <2> QED
    BY <1>8, <2>1, LapsedShape DEF RecoverSession
<1>9. ASSUME SessionChanges PROVE StoreTyped' /\ \E S : Removes(S)
  BY <1>9, EntriesChange DEF SessionChanges, SendTypeOK
<1>10. ASSUME RetryScan PROVE StoreTyped' /\ \E S : Removes(S)
  <2>1. Pending' = Pending \ Lapsed /\ pending' \in [Pending' -> Entries]
    BY <1>10 DEF RetryScan, SendTypeOK, Entries, Pending
  <2> QED
    BY <1>10, <2>1, LapsedShape DEF RetryScan
<1>11. ASSUME NEW m \in Pending, Acknowledge(m) \/ Cancel(m) PROVE StoreTyped' /\ \E S : Removes(S)
  <2>1. UNCHANGED nextSequence /\ (Settle({m}, "Acknowledged") \/ Settle({m}, "Cancelled"))
    BY <1>11 DEF Acknowledge, Cancel
  <2> QED
    BY <2>1, SettleShape DEF Terminals
<1>12. ASSUME NEW m \in Pending, BackoffElapses(m) \/ TtlElapses(m)
       PROVE  StoreTyped' /\ \E S : Removes(S)
  <2>1. pending' \in [Pending -> Entries]
    BY <1>12 DEF BackoffElapses, TtlElapses, SendTypeOK, Entries
  <2> QED
    BY <1>12, <2>1, EntriesChange DEF BackoffElapses, TtlElapses
<1>13. ASSUME UNCHANGED sending PROVE StoreTyped' /\ \E S : Removes(S)
  BY <1>13, EntriesChange DEF sending, SendTypeOK
<1> QED
  BY <1>1, <1>2, <1>3, <1>4, <1>5, <1>6, <1>7, <1>8, <1>9, <1>10, <1>11, <1>12, <1>13
  DEF SendNext, SendLocal, DeliverStep

\* An enqueue adds one message, which is not in the store yet, or none.
LEMMA EnqueueShape ==
  ASSUME SendTypeOK, NEW m \in Sendable, Enqueue(m)
  PROVE  /\ m \in Messages /\ Obsolete(m) \subseteq Pending
         /\ StoreTyped' /\ Recorded(Obsolete(m))
         /\ nextSequence' = [nextSequence EXCEPT ![m.ch] = @ + 1]
         /\ \/ /\ m.pol = "BestEffort" /\ Obsolete(m) = {}
               /\ UNCHANGED <<pending, pendingBytes>> /\ Pending' = Pending
            \/ /\ m.pol # "BestEffort"
               /\ Pending' = (Pending \ Obsolete(m)) \cup {m}
               /\ pending'[m] = FreshSend
               /\ \A x \in Pending' \ {m} : pending'[x] = pending[x]
               /\ pendingBytes' = BytesWithout(Obsolete(m)) + m.size
<1>1. m \in Messages /\ m.seq = nextSequence[m.ch] /\ m.ch \in SendChannels
  BY SendAssumption DEF Sendable, Messages
<1>2. Obsolete(m) \subseteq Pending /\ Obsolete(m) \subseteq Messages
  BY DEF Obsolete, SendTypeOK
<1>3. OutcomesTyped' /\ Recorded(Obsolete(m))
  BY <1>2, RecordTerminalEffect DEF Enqueue, SendTypeOK, OutcomesTyped, Terminals
<1>4. nextSequence' \in [SendChannels -> Nat]
  BY <1>1 DEF Enqueue, SendTypeOK
<1>5. CASE m.pol = "BestEffort"
  <2>1. Obsolete(m) = {}
    BY <1>5 DEF Obsolete
  <2>2. UNCHANGED <<pending, pendingBytes>>
    BY <1>5 DEF Enqueue
  <2>3. PendingTyped'
    BY <2>2 DEF SendTypeOK, PendingTyped, Pending
  <2> QED
    BY <1>1, <1>2, <1>3, <1>4, <1>5, <2>1, <2>2, <2>3 DEF Enqueue, StoreTyped, Pending
<1>6. CASE m.pol # "BestEffort"
  <2>1. pending' = Extends(Without(Obsolete(m)), m, FreshSend)
    BY <1>6 DEF Enqueue
  <2>2. /\ Pending' = (Pending \ Obsolete(m)) \cup {m}
        /\ pending' \in [Pending' -> Entries]
        /\ pending'[m] = FreshSend
        /\ \A x \in Pending' \ {m} : pending'[x] = pending[x]
    BY <2>1 DEF Extends, Without, Pending, SendTypeOK, FreshSend, Entries
  <2>3. PendingTyped'
    BY <1>1, <2>2 DEF PendingTyped, SendTypeOK
  <2> QED
    BY <1>1, <1>2, <1>3, <1>4, <1>6, <2>2, <2>3 DEF Enqueue, StoreTyped
<1> QED
  BY <1>5, <1>6

\* Every step keeps the types of the tasks.
LEMMA TasksTypedStep ==
  ASSUME SendTypeOK, [SendNext]_sending
  PROVE  TasksTyped'
<1> USE DEF SendTypeOK, TasksTyped, Actors
<1>1. ASSUME NEW m \in Sendable, Enqueue(m) \/ EnqueueFull(m) PROVE TasksTyped'
  <2>1. m \in Messages
    BY SendAssumption DEF Sendable, Messages
  <2>2. retrying' \in BOOLEAN
    BY <1>1, SendAssumption DEF Enqueue, EnqueueFull, Spawned
  <2>3. jobs' \subseteq Actors \X Messages
    BY <1>1, <2>1 DEF Enqueue, EnqueueFull
  <2> QED
    BY <1>1, <2>2, <2>3 DEF Enqueue, EnqueueFull
<1>2. ASSUME NEW j \in jobs, DeliverStep(j[1], j[2]) PROVE TasksTyped'
  <2>1. j[1] \in Actors /\ j[2] \in Messages
    OBVIOUS
  <2>2. jobs' \subseteq jobs /\ UNCHANGED <<retrying, online, wrote>>
    BY <1>2 DEF DeliverStep, BeginBestEffort, BeginNothing, BeginSettled, BeginSend, TakeJob
  <2>3. claims' \subseteq Claims
    <3>1. CASE claims' = claims
      BY <3>1
    <3>2. ASSUME NEW n \in Nat, Claim(j[1], j[2], n) PROVE claims' \subseteq Claims
      <4>1. [by |-> j[1], m |-> j[2], attempt |-> n, written |-> FALSE] \in Claims
        BY <2>1 DEF Claims
      <4> QED
        BY <3>2, <4>1 DEF Claim
    <3>3. j[2] \in Pending => pending[j[2]].attempts + 1 \in Nat
      BY DEF Entries
    <3> QED
      BY <1>2, <3>1, <3>2, <3>3 DEF DeliverStep, BeginBestEffort, BeginNothing, BeginSettled, BeginSend
  <2> QED
    BY <2>2, <2>3
<1>3. ASSUME NEW c \in claims, MarkSent(c) \/ MarkSendFailed(c) PROVE TasksTyped'
  BY <1>3 DEF MarkSent, MarkSendFailed
<1>4. ASSUME NEW c \in claims, Write(c) PROVE TasksTyped'
  <2>1. c \in Claims
    OBVIOUS
  <2>2. [c EXCEPT !.written = TRUE] \in Claims /\ <<c.m, c.attempt>> \in Messages \X Nat
    BY <2>1 DEF Claims
  <2> QED
    BY <1>4, <2>2 DEF Write
<1>5. ASSUME RecoverSession PROVE TasksTyped'
  <2>1. retrying' \in BOOLEAN
    BY <1>5, SendAssumption DEF RecoverSession, Spawned
  <2>2. {<<"replay", m>> : m \in Pending \ Lapsed} \subseteq Actors \X Messages
    OBVIOUS
  <2> QED
    BY <1>5, <2>1, <2>2 DEF RecoverSession
<1>6. ASSUME SessionChanges PROVE TasksTyped'
  BY <1>6 DEF SessionChanges
<1>7. ASSUME RetryScan PROVE TasksTyped'
  BY <1>7 DEF RetryScan, Retryable
<1>8. ASSUME NEW m \in Pending, Acknowledge(m) \/ Cancel(m) \/ BackoffElapses(m) \/ TtlElapses(m)
      PROVE  TasksTyped'
  BY <1>8 DEF Acknowledge, Cancel, BackoffElapses, TtlElapses
<1>9. ASSUME UNCHANGED sending PROVE TasksTyped'
  BY <1>9 DEF sending
<1> QED
  BY <1>1, <1>2, <1>3, <1>4, <1>5, <1>6, <1>7, <1>8, <1>9 DEF SendNext, SendLocal

-----------------------------------------------------------------------------
(* The byte counter and the limits                                         *)

Accounted == SendTypeOK /\ Counted /\ BytesAccounted

LEMMA AccountedInit == SendInit => Accounted
<1> SUFFICES ASSUME SendInit PROVE Accounted
  OBVIOUS
<1>1. Pending = {} /\ DOMAIN outcomes = {}
  BY DEF SendInit, Pending
<1>2. pending \in [Pending -> Entries] /\ outcomes \in [DOMAIN outcomes -> Terminals]
  BY <1>1 DEF SendInit
<1>3. SendTypeOK
  BY <1>1, <1>2 DEF SendInit, SendTypeOK
<1> QED
  BY <1>1, <1>3, BytesNone, FS_EmptySet, SendAssumption DEF Accounted, Counted, BytesAccounted, SendInit

\* The counter without the messages of S is what the remaining ones weigh: the
\* saturating subtraction never saturates.
LEMMA WithoutExact ==
  ASSUME Accounted, NEW S \in SUBSET Pending
  PROVE  /\ BytesWithout(S) = Bytes(Pending \ S) /\ BytesWithout(S) \in Nat
         /\ BytesWithout(S) <= MaxPendingBytes
         /\ IsFiniteSet(Pending \ S) /\ Cardinality(Pending \ S) \in Nat
         /\ Cardinality(Pending \ S) <= Cardinality(Pending)
<1>1. IsFiniteSet(S) /\ IsFiniteSet(Pending \ S)
  BY FS_Subset DEF Accounted, Counted
<1>2. \A m \in Pending : m.size \in Nat
  BY SendAssumption DEF Accounted, Counted, Messages
<1>3. Bytes(S) \in Nat /\ Bytes(Pending \ S) \in Nat
  BY <1>1, <1>2, BytesFinite
<1>4. pendingBytes = Bytes(Pending \ S) + Bytes(S)
  BY <1>2, BytesSplit DEF Accounted, Counted, BytesAccounted
<1>5. BytesWithout(S) = Bytes(Pending \ S)
  BY <1>3, <1>4 DEF BytesWithout
<1>6. BytesWithout(S) <= MaxPendingBytes
  BY <1>3, <1>4, <1>5, SendAssumption DEF Accounted, BytesAccounted
<1>7. Cardinality(Pending \ S) \in Nat /\ Cardinality(Pending \ S) <= Cardinality(Pending)
  BY <1>1, FS_Subset, FS_CardinalityType DEF Accounted, Counted
<1> QED
  BY <1>1, <1>3, <1>5, <1>6, <1>7

\* No message of the store has the sequence an enqueue gives out next.
Given ==
  \A m \in Pending \cup DOMAIN outcomes : m.seq < nextSequence[m.ch]

LEMMA AccountedStep ==
  ASSUME Accounted, Given, [SendNext]_sending
  PROVE  Accounted'
<1>1. CASE \E m \in Sendable : Enqueue(m)
  <2>1. PICK m \in Sendable : Enqueue(m)
    BY <1>1
  <2> DEFINE rest == Pending \ Obsolete(m)
  <2>2. m \in Messages /\ StoreTyped' /\ Obsolete(m) \subseteq Pending
    BY <2>1, EnqueueShape DEF Accounted
  <2>3. CASE m.pol = "BestEffort"
    <3>1. UNCHANGED <<pending, pendingBytes>> /\ Pending' = Pending
      BY <2>1, <2>3, EnqueueShape DEF Accounted
    <3>2. SendTypeOK'
      BY <1>1, <2>2, <3>1, TasksTypedStep DEF SendTypeOK, StoreTyped, TasksTyped, PendingTyped, OutcomesTyped, Accounted
    <3> QED
      BY <3>1, <3>2 DEF Accounted, Counted, BytesAccounted
  <2>4. CASE m.pol # "BestEffort"
    <3>1. /\ Pending' = rest \cup {m}
          /\ pendingBytes' = BytesWithout(Obsolete(m)) + m.size
      BY <2>1, <2>4, EnqueueShape DEF Accounted
    <3>2. m \notin Pending /\ m.size \in Nat
      <4>1. m.seq = nextSequence[m.ch] /\ m.seq \in Nat
        BY <2>2 DEF Sendable, Messages
      <4>2. m \notin Pending
        BY <4>1 DEF Given
      <4> QED
        BY <2>2, <4>2, SendAssumption DEF Messages
    <3>3. /\ BytesWithout(Obsolete(m)) = Bytes(rest) /\ BytesWithout(Obsolete(m)) \in Nat
          /\ IsFiniteSet(rest) /\ Cardinality(rest) \in Nat
      BY <2>2, WithoutExact
    <3>4. \A x \in rest : x.size \in Nat
      BY SendAssumption DEF Accounted, Counted, Messages
    <3>5. Bytes(rest \cup {m}) = Bytes(rest) + m.size
      BY <3>2, <3>3, <3>4, BytesAdd
    <3>6. IsFiniteSet(rest \cup {m}) /\ Cardinality(rest \cup {m}) = Cardinality(rest) + 1
      BY <3>2, <3>3, FS_AddElement
    <3>7. Cardinality(rest) < MaxPendingMessages /\ BytesWithout(Obsolete(m)) + m.size <= MaxPendingBytes
      BY <2>1, <2>4 DEF Enqueue, Fits
    <3>8. pendingBytes' = Bytes(Pending)' /\ pendingBytes' \in Nat
      BY <3>1, <3>2, <3>3, <3>5 DEF Bytes
    <3>9. SendTypeOK'
      BY <1>1, <2>2, <3>8, TasksTypedStep DEF SendTypeOK, StoreTyped, TasksTyped, PendingTyped, OutcomesTyped, Accounted
    <3>10. Cardinality(Pending') <= MaxPendingMessages
      BY <3>1, <3>3, <3>6, <3>7, SendAssumption
    <3> QED
      BY <3>1, <3>3, <3>6, <3>7, <3>8, <3>9, <3>10 DEF Accounted, Counted, BytesAccounted, SendTypeOK
  <2> QED
    BY <2>3, <2>4
<1>2. CASE ~(\E m \in Sendable : Enqueue(m))
  <2>1. StoreTyped' /\ \E S : Removes(S)
    BY <1>2, StoreShape DEF Accounted
  <2>2. PICK S : Removes(S)
    BY <2>1
  <2>3. /\ S \subseteq Pending /\ Pending' = Pending \ S
        /\ pendingBytes' = BytesWithout(S)
    BY <2>2 DEF Removes
  <2>4. /\ BytesWithout(S) = Bytes(Pending \ S) /\ BytesWithout(S) \in Nat
        /\ BytesWithout(S) <= MaxPendingBytes
        /\ IsFiniteSet(Pending \ S) /\ Cardinality(Pending \ S) \in Nat
        /\ Cardinality(Pending \ S) <= Cardinality(Pending)
    BY <2>3, WithoutExact
  <2>5. SendTypeOK'
    BY <2>1, <2>3, <2>4, TasksTypedStep DEF SendTypeOK, StoreTyped, TasksTyped, PendingTyped, OutcomesTyped, Accounted
  <2>6. Cardinality(Pending') <= MaxPendingMessages
    <3>1. Cardinality(Pending) \in Nat
      BY FS_CardinalityType DEF Accounted, Counted
    <3> QED
      BY <2>3, <2>4, <3>1, SendAssumption DEF Accounted, BytesAccounted
  <2>7. pendingBytes' = Bytes(Pending)'
    BY <2>3, <2>4 DEF Bytes
  <2> QED
    BY <2>3, <2>4, <2>5, <2>6, <2>7 DEF Accounted, Counted, BytesAccounted, SendTypeOK
<1> QED
  BY <1>1, <1>2

-----------------------------------------------------------------------------
(* Settled messages                                                        *)

\* A message is pending or has an outcome, never both.
Apart == Pending \cap DOMAIN outcomes = {}
Settled == Given /\ Apart

\* What a step may never do to an outcome.
OutcomeKept ==
  \A m \in DOMAIN outcomes :
    /\ m \notin DOMAIN pending'
    /\ m \in DOMAIN outcomes' => outcomes'[m] = outcomes[m]

LEMMA SettledStep ==
  ASSUME SendTypeOK, Settled, [SendNext]_sending
  PROVE  Settled' /\ OutcomeKept
<1>1. CASE \E m \in Sendable : Enqueue(m)
  <2>1. PICK m \in Sendable : Enqueue(m)
    BY <1>1
  <2>2. m.seq = nextSequence[m.ch] /\ m.seq \in Nat /\ m.ch \in SendChannels
    BY DEF Sendable
  <2>3. m \notin Pending \cup DOMAIN outcomes
    BY <2>2 DEF Settled, Given
  <2>4. /\ Obsolete(m) \subseteq Pending /\ Recorded(Obsolete(m))
        /\ nextSequence' = [nextSequence EXCEPT ![m.ch] = @ + 1]
    BY <2>1, EnqueueShape
  <2>5. Pending' \subseteq (Pending \ Obsolete(m)) \cup {m}
    BY <2>1, EnqueueShape
  <2>6. DOMAIN outcomes' \subseteq DOMAIN outcomes \cup Obsolete(m)
    BY <2>4 DEF Recorded
  <2>7. ASSUME NEW x \in Pending' \cup DOMAIN outcomes' PROVE x.seq < nextSequence'[x.ch]
    <3>1. CASE x = m
      BY <2>2, <2>4, <3>1 DEF SendTypeOK
    <3>2. CASE x \in Pending \cup DOMAIN outcomes
      <4>1. x.seq < nextSequence[x.ch] /\ x.ch \in SendChannels /\ x.seq \in Nat
        BY <3>2 DEF Settled, Given, SendTypeOK, Messages
      <4>2. nextSequence[x.ch] \in Nat
        BY <4>1 DEF SendTypeOK
      <4> QED
        BY <2>4, <4>1, <4>2 DEF SendTypeOK
    <3> QED
      BY <2>4, <2>5, <2>6, <3>1, <3>2
  <2>8. Given'
    BY <2>7 DEF Given
  <2>9. Apart'
    BY <2>3, <2>4, <2>5, <2>6 DEF Settled, Apart
  <2>10. OutcomeKept
    BY <2>3, <2>4, <2>5 DEF OutcomeKept, Recorded, Settled, Apart, Pending
  <2> QED
    BY <2>8, <2>9, <2>10 DEF Settled
<1>2. CASE ~(\E m \in Sendable : Enqueue(m))
  <2>1. PICK S : Removes(S)
    BY <1>2, StoreShape
  <2>2. /\ S \subseteq Pending /\ Pending' = Pending \ S
        /\ Recorded(S) /\ nextSequence' = nextSequence
    BY <2>1 DEF Removes
  <2>3. DOMAIN outcomes' \subseteq DOMAIN outcomes \cup S
    BY <2>2 DEF Recorded
  <2>4. Given'
    BY <2>2, <2>3 DEF Settled, Given
  <2>5. Apart'
    BY <2>2, <2>3 DEF Settled, Apart
  <2>6. OutcomeKept
    BY <2>2 DEF OutcomeKept, Recorded, Settled, Apart, Pending
  <2> QED
    BY <2>4, <2>5, <2>6 DEF Settled
<1> QED
  BY <1>1, <1>2

SendIInv == Accounted /\ Settled

LEMMA SendInvariant == SendSpec => []SendIInv
<1>1. SendInit => SendIInv
  <2> SUFFICES ASSUME SendInit PROVE Settled
    BY AccountedInit DEF SendIInv
  <2>1. Pending = {} /\ DOMAIN outcomes = {}
    BY DEF SendInit, Pending
  <2> QED
    BY <2>1 DEF Settled, Given, Apart
<1>2. SendIInv /\ [SendNext]_sending => SendIInv'
  BY AccountedStep, SettledStep DEF SendIInv, Accounted, Settled
<1> QED
  BY <1>1, <1>2, PTL DEF SendSpec

\* DeliveryStore's pending map, byte counter and outcome history keep their types,
\* the counter is exactly the sum of the pending payloads, and neither limit of
\* DeliveryConfig is ever exceeded.
THEOREM SendStoreStaysConsistent == SendSpec => []SendStoreConsistent
<1>1. SendIInv => SendStoreConsistent
  BY DEF SendIInv, Accounted, SendStoreConsistent
<1> QED
  BY <1>1, SendInvariant, PTL

\* A message with a terminal outcome never becomes pending again, and as long as
\* its outcome is remembered it is the first one: a late acknowledgement, expiry or
\* failure of another attempt does not overwrite it.
THEOREM OutcomesAreFinal == SendSpec => SettledIsFinal
<1>1. SendIInv /\ [SendNext]_sending => [OutcomeKept]_sending
  BY SettledStep DEF SendIInv, Accounted
<1>2. SendSpec => [][OutcomeKept]_sending
  BY <1>1, SendInvariant, PTL DEF SendSpec
<1> QED
  BY <1>2 DEF SettledIsFinal, OutcomeKept

-----------------------------------------------------------------------------
(* The ownership of an attempt                                             *)

\* Only reliable messages are stored, and none is tried more often than allowed.
Stored ==
  \A m \in Pending : m.pol # "BestEffort" /\ pending[m].attempts <= MaxAttempts
\* A claim of a reliable message carries a number no other claim of it has, which
\* is not ahead of the store.
Claimed(c) ==
  /\ c.attempt \in 1 .. MaxAttempts
  /\ c.m.seq < nextSequence[c.m.ch]
  /\ c.m \in Pending => c.attempt <= pending[c.m].attempts
  /\ c.written => <<c.m, c.attempt>> \in wrote
  /\ \A d \in claims : d.m = c.m /\ d.attempt = c.attempt => d = c
ClaimsNumbered == \A c \in claims : c.m.pol # "BestEffort" => Claimed(c)
\* A message that is being sent has a task that holds its current attempt.
SendingHeld ==
  \A m \in Pending : pending[m].state = "Sending" =>
    \E c \in claims : c.m = m /\ c.attempt = pending[m].attempts
WrittenNumbered ==
  \A w \in wrote : w[1].pol # "BestEffort" => w[2] \in 1 .. MaxAttempts

Owned ==
  Stored /\ ClaimsNumbered /\ SendingHeld /\ SentWasWritten /\ WrittenNumbered

\* A step that starts no attempt and reports no written one: entries only go back
\* to the queue, and a claim given up no longer holds its message.
Relaxes ==
  /\ Pending' \subseteq Pending
  /\ \A m \in Pending' : /\ pending'[m].attempts = pending[m].attempts
                         /\ pending'[m].state \in {pending[m].state, "Queued"}
  /\ claims' \subseteq claims
  /\ \A c \in claims \ claims' : \A m \in Pending' :
       m = c.m /\ pending'[m].state = "Sending" => pending'[m].attempts # c.attempt
  /\ nextSequence' = nextSequence /\ wrote' = wrote

LEMMA RelaxesKeepsOwned ==
  ASSUME SendTypeOK, Owned, Relaxes
  PROVE  Owned'
<1>1. Stored'
  BY DEF Owned, Stored, Relaxes
<1>2. ClaimsNumbered'
  <2> SUFFICES ASSUME NEW c \in claims', c.m.pol # "BestEffort" PROVE Claimed(c)'
    BY DEF ClaimsNumbered
  <2>1. c \in claims /\ Claimed(c)
    BY DEF Relaxes, Owned, ClaimsNumbered
  <2> QED
    BY <2>1 DEF Relaxes, Claimed
<1>3. SendingHeld'
  <2> SUFFICES ASSUME NEW m \in Pending', pending'[m].state = "Sending"
               PROVE  \E c \in claims' : c.m = m /\ c.attempt = pending'[m].attempts
    BY DEF SendingHeld
  <2>1. m \in Pending /\ pending[m].state = "Sending" /\ pending'[m].attempts = pending[m].attempts
    BY DEF Relaxes
  <2>2. PICK c \in claims : c.m = m /\ c.attempt = pending[m].attempts
    BY <2>1 DEF Owned, SendingHeld
  <2>3. c \in claims'
    BY <2>1, <2>2 DEF Relaxes
  <2> QED
    BY <2>1, <2>2, <2>3
<1>4. SentWasWritten'
  BY DEF Owned, SentWasWritten, Relaxes
<1>5. WrittenNumbered'
  BY DEF Owned, WrittenNumbered, Relaxes
<1> QED
  BY <1>1, <1>2, <1>3, <1>4, <1>5 DEF Owned

\* Settling messages, while the claims stay, relaxes.
LEMMA SettleRelaxes ==
  ASSUME SendTypeOK, NEW S \in SUBSET Pending, NEW o \in Terminals, Settle(S, o),
         claims' \subseteq claims, \A c \in claims \ claims' : c.m \notin Pending \ S,
         UNCHANGED <<nextSequence, wrote>>
  PROVE  Relaxes
BY SettleEffect DEF Relaxes

\* The tasks that find nothing to send or settle a message, the clock, recoveries,
\* scans, acknowledgements and failed results start no attempt.
LEMMA RelaxingSteps ==
  ASSUME SendTypeOK, [SendNext]_sending,
         ~(\E m \in Sendable : Enqueue(m)),
         ~(\E j \in jobs : BeginBestEffort(j[1], j[2]) \/ BeginSend(j[1], j[2])),
         ~(\E c \in claims : Write(c) \/ MarkSent(c))
  PROVE  Relaxes
<1>1. ASSUME NEW m \in Sendable, EnqueueFull(m) PROVE Relaxes
  <2>1. Obsolete(m) \in SUBSET Pending
    BY DEF Obsolete
  <2> QED
    BY <1>1, <2>1, SettleRelaxes DEF EnqueueFull, Terminals
<1>2. ASSUME NEW by, NEW m, BeginNothing(by, m) PROVE Relaxes
  BY <1>2 DEF BeginNothing, store, Relaxes, Pending
<1>3. ASSUME NEW by, NEW m, BeginSettled(by, m) PROVE Relaxes
  <2>1. {m} \in SUBSET Pending
    BY <1>3 DEF BeginSettled
  <2>2. Settle({m}, "Expired") \/ Settle({m}, "Failed")
    BY <1>3 DEF BeginSettled
  <2> QED
    BY <1>3, <2>1, <2>2, SettleRelaxes DEF BeginSettled, Terminals
<1>4. ASSUME NEW c \in claims, MarkSendFailed(c) PROVE Relaxes
  <2>0. claims' = claims \ {c} /\ UNCHANGED <<nextSequence, wrote>>
    BY <1>4 DEF MarkSendFailed
  <2>1. CASE c.m \in Lapsed /\ Settle({c.m}, "Expired")
    <3>1. {c.m} \in SUBSET Pending
      BY <2>1 DEF Lapsed
    <3> QED
      BY <2>0, <2>1, <3>1, SettleRelaxes DEF Terminals
  <2>2. CASE ~Holds(c) /\ UNCHANGED <<pending, pendingBytes, outcomes>>
    BY <2>0, <2>2 DEF Relaxes, Holds, Pending
  <2>3. CASE Holds(c) /\ Settle({c.m}, "Failed")
    <3>1. {c.m} \in SUBSET Pending
      BY <2>3 DEF Holds
    <3> QED
      BY <2>0, <2>3, <3>1, SettleRelaxes DEF Terminals
  <2>4. CASE /\ Holds(c)
             /\ pending' = [pending EXCEPT ![c.m].state = "Queued", ![c.m].due = FALSE]
    <3>1. Pending' = Pending
      BY <2>4 DEF Pending, SendTypeOK
    <3>2. pending'[c.m].state = "Queued" /\ pending'[c.m].attempts = pending[c.m].attempts
      BY <2>4 DEF SendTypeOK, Holds, Entries
    <3>3. \A m \in Pending \ {c.m} : pending'[m] = pending[m]
      BY <2>4 DEF SendTypeOK
    <3> QED
      BY <2>0, <3>1, <3>2, <3>3 DEF Relaxes
  <2> QED
    BY <1>4, <2>1, <2>2, <2>3, <2>4 DEF MarkSendFailed
<1>5. ASSUME RecoverSession \/ RetryScan PROVE Relaxes
  <2>1. Pending' = Pending \ Lapsed /\ UNCHANGED <<nextSequence, claims, wrote>>
    BY <1>5 DEF RecoverSession, RetryScan, Pending
  <2>2. ASSUME NEW m \in Pending \ Lapsed
        PROVE  /\ pending'[m].attempts = pending[m].attempts
               /\ pending'[m].state \in {pending[m].state, "Queued"}
    <3>1. pending[m] \in Entries
      BY DEF SendTypeOK
    <3>2. \/ pending'[m] = [pending[m] EXCEPT !.state = "Queued", !.due = TRUE]
          \/ pending'[m] = [pending[m] EXCEPT !.state = "Queued"]
          \/ pending'[m] = pending[m]
      BY <1>5 DEF RecoverSession, RetryScan
    <3> QED
      BY <3>1, <3>2 DEF Entries
  <2> QED
    BY <2>1, <2>2 DEF Relaxes
<1>6. ASSUME SessionChanges PROVE Relaxes
  BY <1>6 DEF SessionChanges, store, Relaxes, Pending
<1>7. ASSUME NEW m \in Pending, Acknowledge(m) \/ Cancel(m) PROVE Relaxes
  <2>1. UNCHANGED <<nextSequence, claims, wrote>> /\ (Settle({m}, "Acknowledged") \/ Settle({m}, "Cancelled"))
    BY <1>7 DEF Acknowledge, Cancel
  <2> QED
    BY <2>1, SettleRelaxes DEF Terminals
<1>8. ASSUME NEW m \in Pending, BackoffElapses(m) \/ TtlElapses(m) PROVE Relaxes
  <2>1. Pending' = Pending /\ UNCHANGED <<nextSequence, claims, wrote>>
    BY <1>8 DEF BackoffElapses, TtlElapses, Pending, SendTypeOK
  <2>2. ASSUME NEW x \in Pending
        PROVE  pending'[x].attempts = pending[x].attempts /\ pending'[x].state = pending[x].state
    BY <1>8 DEF BackoffElapses, TtlElapses, SendTypeOK, Entries
  <2> QED
    BY <2>1, <2>2 DEF Relaxes
<1>9. ASSUME UNCHANGED sending PROVE Relaxes
  BY <1>9 DEF sending, store, Relaxes, Pending
<1> QED
  BY <1>1, <1>2, <1>3, <1>4, <1>5, <1>6, <1>7, <1>8, <1>9 DEF SendNext, SendLocal, DeliverStep

LEMMA EnqueueKeepsOwned ==
  ASSUME SendTypeOK, Settled, Owned, NEW m \in Sendable, Enqueue(m)
  PROVE  Owned'
<1>1. /\ m \in Messages /\ m.seq = nextSequence[m.ch] /\ m.ch \in SendChannels
      /\ UNCHANGED <<claims, wrote>> /\ m.seq \in Nat
  BY EnqueueShape DEF Sendable, Enqueue, Messages
<1>2. nextSequence' = [nextSequence EXCEPT ![m.ch] = @ + 1]
  BY EnqueueShape
<1>3. /\ Pending' \subseteq Pending \cup {m}
      /\ m \in Pending' => m.pol # "BestEffort" /\ pending'[m] = FreshSend
      /\ \A x \in Pending' \ {m} : pending'[x] = pending[x]
  <2>1. m \notin Pending
    BY <1>1 DEF Settled, Given
  <2> QED
    BY <2>1, EnqueueShape
<1>4. Stored'
  BY <1>3, SendAssumption DEF Owned, Stored, FreshSend
<1>5. ClaimsNumbered'
  <2> SUFFICES ASSUME NEW c \in claims, c.m.pol # "BestEffort" PROVE Claimed(c)'
    BY <1>1 DEF ClaimsNumbered
  <2>1. Claimed(c) /\ c.m \in Messages
    BY DEF Owned, ClaimsNumbered, SendTypeOK, Claims
  <2>2. c.m # m
    BY <1>1, <2>1 DEF Claimed
  <2>3. c.m.seq < nextSequence'[c.m.ch]
    <3>1. c.m.ch \in SendChannels /\ c.m.seq \in Nat /\ nextSequence[c.m.ch] \in Nat
      BY <2>1 DEF Messages, SendTypeOK
    <3>2. \A ch \in SendChannels : nextSequence[ch] <= nextSequence'[ch] /\ nextSequence'[ch] \in Nat
      BY <1>1, <1>2 DEF SendTypeOK
    <3>3. c.m.seq < nextSequence[c.m.ch]
      BY <2>1 DEF Claimed
    <3> QED
      BY <3>1, <3>2, <3>3
  <2>4. c.m \in Pending' => c.m \in Pending /\ pending'[c.m] = pending[c.m]
    BY <1>3, <2>2
  <2> QED
    BY <1>1, <2>1, <2>3, <2>4 DEF Claimed
<1>6. SendingHeld'
  BY <1>1, <1>3 DEF Owned, SendingHeld, FreshSend
<1>7. SentWasWritten'
  BY <1>1, <1>3 DEF Owned, SentWasWritten, FreshSend
<1>8. WrittenNumbered'
  BY <1>1 DEF Owned, WrittenNumbered
<1> QED
  BY <1>4, <1>5, <1>6, <1>7, <1>8 DEF Owned

\* The claim of a BestEffort message is about no stored message.
LEMMA BestEffortKeepsOwned ==
  ASSUME SendTypeOK, Owned, NEW by, NEW m, BeginBestEffort(by, m)
  PROVE  Owned'
<1> DEFINE new == [by |-> by, m |-> m, attempt |-> 0, written |-> FALSE]
<1>1. /\ claims' = claims \cup {new} /\ new.m.pol = "BestEffort"
      /\ UNCHANGED <<pending, nextSequence, wrote>> /\ Pending' = Pending
  BY DEF BeginBestEffort, Claim, store, Pending
<1>2. ClaimsNumbered'
  <2> SUFFICES ASSUME NEW c \in claims', c.m.pol # "BestEffort" PROVE Claimed(c)'
    BY DEF ClaimsNumbered
  <2>1. c \in claims /\ Claimed(c)
    BY <1>1 DEF Owned, ClaimsNumbered
  <2>2. new.m # c.m
    BY <1>1
  <2> QED
    BY <1>1, <2>1, <2>2 DEF Claimed
<1> QED
  BY <1>1, <1>2 DEF Owned, Stored, SendingHeld, SentWasWritten, WrittenNumbered

\* A new attempt gets the number after all earlier ones.
LEMMA BeginSendKeepsOwned ==
  ASSUME SendTypeOK, Settled, Owned, NEW by, NEW m, BeginSend(by, m)
  PROVE  Owned'
<1> DEFINE n == pending[m].attempts + 1
           new == [by |-> by, m |-> m, attempt |-> n, written |-> FALSE]
<1>1. /\ m \in Pending /\ claims' = claims \cup {new} /\ ~Exhausted(m)
      /\ UNCHANGED <<nextSequence, wrote>>
  BY DEF BeginSend, Claim
<1>2. pending[m] \in Entries /\ n \in Nat /\ n >= 1
  BY <1>1 DEF SendTypeOK, Entries
<1>3. n <= MaxAttempts
  BY <1>1, <1>2, SendAssumption DEF Exhausted
<1>4. /\ Pending' = Pending
      /\ pending'[m].state = "Sending" /\ pending'[m].attempts = n
      /\ \A x \in Pending \ {m} : pending'[x] = pending[x]
  BY <1>1, <1>2 DEF BeginSend, SendTypeOK, Pending, Entries
<1>5. ASSUME NEW c \in claims, c.m = m PROVE c.attempt < n /\ c.attempt \in Nat
  <2>1. Claimed(c)
    BY <1>1, <1>5 DEF Owned, ClaimsNumbered, Stored
  <2>2. c.attempt \in Nat
    BY DEF SendTypeOK, Claims
  <2>3. pending[m].attempts \in Nat
    BY <1>2 DEF Entries
  <2>4. c.attempt <= pending[m].attempts
    BY <1>1, <1>5, <2>1 DEF Claimed
  <2> QED
    BY <2>2, <2>3, <2>4
<1>6. Stored'
  BY <1>3, <1>4 DEF Owned, Stored
<1>7. ClaimsNumbered'
  <2> SUFFICES ASSUME NEW c \in claims', c.m.pol # "BestEffort" PROVE Claimed(c)'
    BY DEF ClaimsNumbered
  <2>1. CASE c = new
    <3>1. c.attempt \in 1 .. MaxAttempts
      BY <1>2, <1>3, <2>1, SendAssumption
    <3>2. c.m.seq < nextSequence'[c.m.ch]
      BY <1>1, <2>1 DEF Settled, Given
    <3>3. c.m \in Pending' => c.attempt <= pending'[c.m].attempts
      BY <1>2, <1>4, <2>1
    <3>4. \A d \in claims' : d.m = c.m /\ d.attempt = c.attempt => d = c
      <4> SUFFICES ASSUME NEW d \in claims, d.m = m, d.attempt = n PROVE FALSE
        BY <1>1, <2>1
      <4> QED
        BY <1>2, <1>5
    <3> QED
      BY <2>1, <3>1, <3>2, <3>3, <3>4 DEF Claimed
  <2>2. CASE c \in claims /\ c # new
    <3>1. Claimed(c)
      BY <2>2 DEF Owned, ClaimsNumbered
    <3>2. c.m \in Pending' => c.attempt <= pending'[c.m].attempts
      <4>1. CASE c.m = m
        BY <1>2, <1>4, <1>5, <2>2, <4>1
      <4>2. CASE c.m # m
        BY <1>4, <3>1, <4>2 DEF Claimed
      <4> QED
        BY <4>1, <4>2
    <3>3. \A d \in claims' : d.m = c.m /\ d.attempt = c.attempt => d = c
      <4>1. ~(new.m = c.m /\ new.attempt = c.attempt)
        BY <1>2, <1>5, <2>2
      <4> QED
        BY <1>1, <3>1, <4>1 DEF Claimed
    <3> QED
      BY <1>1, <3>1, <3>2, <3>3 DEF Claimed
  <2> QED
    BY <1>1, <2>1, <2>2
<1>8. SendingHeld'
  <2> SUFFICES ASSUME NEW x \in Pending, pending'[x].state = "Sending"
               PROVE  \E c \in claims' : c.m = x /\ c.attempt = pending'[x].attempts
    BY <1>4 DEF SendingHeld
  <2>1. CASE x = m
    <3>1. new.m = m /\ new.attempt = n /\ new \in claims'
      BY <1>1
    <3> QED
      BY <1>4, <2>1, <3>1
  <2>2. CASE x # m
    BY <1>1, <1>4, <2>2 DEF Owned, SendingHeld
  <2> QED
    BY <2>1, <2>2
<1>9. SentWasWritten'
  BY <1>1, <1>4 DEF Owned, SentWasWritten
<1>10. WrittenNumbered'
  BY <1>1 DEF Owned, WrittenNumbered
<1> QED
  BY <1>6, <1>7, <1>8, <1>9, <1>10 DEF Owned

LEMMA WriteKeepsOwned ==
  ASSUME SendTypeOK, Owned, NEW c \in claims, Write(c)
  PROVE  Owned'
<1> DEFINE new == [c EXCEPT !.written = TRUE]
<1>1. /\ claims' = (claims \ {c}) \cup {new} /\ wrote' = wrote \cup {<<c.m, c.attempt>>}
      /\ UNCHANGED <<pending, nextSequence>> /\ Pending' = Pending
  BY DEF Write, store, Pending
<1>2. c \in Claims
  BY DEF SendTypeOK
<1>3. new.m = c.m /\ new.attempt = c.attempt
  BY <1>2 DEF Claims
<1>4. ClaimsNumbered'
  <2> SUFFICES ASSUME NEW x \in claims', x.m.pol # "BestEffort" PROVE Claimed(x)'
    BY DEF ClaimsNumbered
  <2>1. CASE x = new
    <3>1. Claimed(c)
      BY <1>3, <2>1 DEF Owned, ClaimsNumbered
    <3>2. \A d \in claims' : d.m = x.m /\ d.attempt = x.attempt => d = x
      BY <1>1, <1>3, <2>1, <3>1 DEF Claimed
    <3>3. <<x.m, x.attempt>> \in wrote'
      BY <1>1, <1>3, <2>1
    <3> QED
      BY <1>1, <1>3, <2>1, <3>1, <3>2, <3>3 DEF Claimed
  <2>2. CASE x \in claims \ {c}
    <3>1. Claimed(x)
      BY <2>2 DEF Owned, ClaimsNumbered
    <3>2. ~(c.m = x.m /\ c.attempt = x.attempt)
      BY <2>2, <3>1 DEF Claimed
    <3> QED
      BY <1>1, <1>3, <3>1, <3>2 DEF Claimed
  <2> QED
    BY <1>1, <2>1, <2>2
<1>5. SendingHeld'
  <2> SUFFICES ASSUME NEW m \in Pending, pending[m].state = "Sending"
               PROVE  \E x \in claims' : x.m = m /\ x.attempt = pending[m].attempts
    BY <1>1 DEF SendingHeld
  <2>1. PICK x \in claims : x.m = m /\ x.attempt = pending[m].attempts
    BY DEF Owned, SendingHeld
  <2> QED
    BY <1>1, <1>3, <2>1
<1>6. WrittenNumbered'
  <2>1. c.m.pol # "BestEffort" => c.attempt \in 1 .. MaxAttempts
    BY DEF Owned, ClaimsNumbered, Claimed
  <2> QED
    BY <1>1, <2>1 DEF Owned, WrittenNumbered
<1>7. Stored' /\ SentWasWritten'
  BY <1>1 DEF Owned, Stored, SentWasWritten
<1> QED
  BY <1>4, <1>5, <1>6, <1>7 DEF Owned

\* A result settles the attempt it belongs to, or nothing.
LEMMA MarkSentKeepsOwned ==
  ASSUME SendTypeOK, Owned, NEW c \in claims, MarkSent(c)
  PROVE  Owned'
<1>1. /\ claims' = claims \ {c} /\ c.written
      /\ UNCHANGED <<nextSequence, wrote>>
  BY DEF MarkSent
<1>2. CASE ~Holds(c)
  <2>1. pending' = pending /\ Pending' = Pending
    BY <1>2 DEF MarkSent, Pending
  <2>2. Relaxes
    BY <1>1, <1>2, <2>1 DEF Relaxes, Holds
  <2> QED
    BY <2>2, RelaxesKeepsOwned
<1>3. CASE Holds(c)
  <2>1. c.m \in Pending /\ pending[c.m].attempts = c.attempt
    BY <1>3 DEF Holds
  <2>2. /\ Pending' = Pending
        /\ pending'[c.m].state = "SentUnacked" /\ pending'[c.m].attempts = c.attempt
        /\ \A x \in Pending \ {c.m} : pending'[x] = pending[x]
    BY <1>3, <2>1 DEF MarkSent, SendTypeOK, Pending, Entries
  <2>3. Claimed(c)
    BY <2>1 DEF Owned, Stored, ClaimsNumbered
  <2>4. \A x \in Pending : pending'[x].attempts = pending[x].attempts
    BY <2>1, <2>2
  <2>5. ClaimsNumbered'
    <3> SUFFICES ASSUME NEW x \in claims', x.m.pol # "BestEffort" PROVE Claimed(x)'
      BY DEF ClaimsNumbered
    <3>1. x \in claims /\ Claimed(x)
      BY <1>1 DEF Owned, ClaimsNumbered
    <3> QED
      BY <1>1, <2>2, <2>4, <3>1 DEF Claimed
  <2>6. SendingHeld'
    <3> SUFFICES ASSUME NEW m \in Pending, pending'[m].state = "Sending"
                 PROVE  \E x \in claims' : x.m = m /\ x.attempt = pending'[m].attempts
      BY <2>2 DEF SendingHeld
    <3>1. m # c.m /\ pending'[m] = pending[m]
      BY <2>2
    <3>2. PICK x \in claims : x.m = m /\ x.attempt = pending[m].attempts
      BY <3>1 DEF Owned, SendingHeld
    <3> QED
      BY <1>1, <3>1, <3>2
  <2>7. SentWasWritten'
    <3>1. <<c.m, c.attempt>> \in wrote
      BY <1>1, <2>3 DEF Claimed
    <3> QED
      BY <1>1, <2>2, <3>1 DEF Owned, SentWasWritten
  <2>8. Stored' /\ WrittenNumbered'
    BY <1>1, <2>2, <2>4 DEF Owned, Stored, WrittenNumbered
  <2> QED
    BY <2>5, <2>6, <2>7, <2>8 DEF Owned
<1> QED
  BY <1>2, <1>3

LEMMA OwnedStep ==
  ASSUME SendTypeOK, Settled, Owned, [SendNext]_sending
  PROVE  Owned'
BY EnqueueKeepsOwned, BestEffortKeepsOwned, BeginSendKeepsOwned, WriteKeepsOwned,
   MarkSentKeepsOwned, RelaxingSteps, RelaxesKeepsOwned

\* The numbered claims say what AttemptsOwned counts.
LEMMA OwnedCounts ==
  ASSUME SendTypeOK, Owned
  PROVE  AttemptsOwned
<1>1. SendingIsOwned
  <2> SUFFICES ASSUME NEW m \in Pending, pending[m].state = "Sending"
               PROVE  Cardinality({c \in claims : c.m = m /\ c.attempt = pending[m].attempts}) = 1
    BY DEF SendingIsOwned
  <2>1. PICK c \in claims : c.m = m /\ c.attempt = pending[m].attempts
    BY DEF Owned, SendingHeld
  <2>2. Claimed(c)
    BY <2>1 DEF Owned, Stored, ClaimsNumbered
  <2>3. {d \in claims : d.m = m /\ d.attempt = pending[m].attempts} = {c}
    BY <2>1, <2>2 DEF Claimed
  <2> QED
    BY <2>3, FS_Singleton
<1>2. AttemptsBounded
  <2> SUFFICES ASSUME NEW w \in wrote, w[1].pol # "BestEffort"
               PROVE  Cardinality({v \in wrote : v[1] = w[1]}) <= MaxAttempts
    BY DEF AttemptsBounded
  <2> DEFINE W == {v \in wrote : v[1] = w[1]}
             all == {w[1]} \X (1 .. MaxAttempts)
  <2>1. W \in SUBSET all
    <3> SUFFICES ASSUME NEW v \in W PROVE v \in all
      OBVIOUS
    <3>1. v = <<v[1], v[2]>> /\ v[1] = w[1]
      BY DEF SendTypeOK
    <3>2. v[2] \in 1 .. MaxAttempts
      BY <3>1 DEF Owned, WrittenNumbered
    <3> QED
      BY <3>1, <3>2
  <2>2. IsFiniteSet(1 .. MaxAttempts) /\ Cardinality(1 .. MaxAttempts) = MaxAttempts
    BY FS_Interval, SendAssumption
  <2>3. IsFiniteSet({w[1]}) /\ Cardinality({w[1]}) = 1
    BY FS_Singleton
  <2>4. IsFiniteSet(all) /\ Cardinality(all) = MaxAttempts
    <3>1. IsFiniteSet(all) /\ Cardinality(all) = Cardinality({w[1]}) * Cardinality(1 .. MaxAttempts)
      BY <2>2, <2>3, FS_Product
    <3> QED
      BY <2>2, <2>3, <3>1, SendAssumption
  <2>5. Cardinality(W) <= Cardinality(all)
    BY <2>1, <2>4, FS_Subset
  <2> QED
    BY <2>4, <2>5, SendAssumption
<1> QED
  BY <1>1, <1>2 DEF AttemptsOwned, Owned

\* However the send tasks, replays, retries and their late results interleave, a
\* message in Sending has exactly one task that reports on it, counts as sent only
\* if the frame of its current attempt was written, and is written at most
\* max_attempts times.
THEOREM AttemptsStayOwned == SendSpec => []AttemptsOwned
<1>1. SendInit => Owned
  <2> SUFFICES ASSUME SendInit PROVE Owned
    OBVIOUS
  <2>1. Pending = {} /\ claims = {} /\ wrote = {}
    BY DEF SendInit, Pending
  <2> QED
    BY <2>1 DEF Owned, Stored, ClaimsNumbered, SendingHeld, SentWasWritten, WrittenNumbered
<1>2. SendIInv /\ Owned /\ [SendNext]_sending => Owned'
  BY OwnedStep DEF SendIInv, Accounted
<1>3. SendIInv /\ Owned => AttemptsOwned
  BY OwnedCounts DEF SendIInv, Accounted
<1> QED
  BY <1>1, <1>2, <1>3, SendInvariant, PTL DEF SendSpec
=============================================================================
