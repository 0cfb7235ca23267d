--------------------------- MODULE DeliveryProofs ---------------------------
(***************************************************************************)
(* Safety proofs about DeliveryReceive and about Delivery, the composition *)
(* of both sides over a lossy network: the order and the limits of the     *)
(* receive store, what an acknowledgement is worth, and that the two sides *)
(* implement an ordered channel.                                           *)
(***************************************************************************)
EXTENDS Delivery, DeliverySendProofs, SequenceTheorems

-----------------------------------------------------------------------------
(* The processed history                                                   *)

\* Refreshing a record keeps the history's records.
LEMMA SeenProperties ==
  ASSUME processed \in Seq(Traffic), NEW m \in Known
  PROVE  /\ Seen(m) \in Seq(Traffic) /\ Len(Seen(m)) = Len(processed)
         /\ ToSet(Seen(m)) \subseteq Known
<1> DEFINE n == Len(processed)
           i == CHOOSE j \in 1 .. n : processed[j] = m
           front == SubSeq(processed, 1, i - 1)
           back == SubSeq(processed, i + 1, n)
<1>1. \E j \in 1 .. n : processed[j] = m
  BY DEF Known, ToSet
<1>2. n \in Nat /\ i \in 1 .. n /\ processed[i] = m
  BY <1>1
<1> HIDE DEF i
<1>3. Seen(m) = Append(front \o back, m)
  BY DEF Seen, RemoveAt, i
<1>4. /\ front \in Seq(Traffic) /\ Len(front) = i - 1
      /\ \A j \in 1 .. i - 1 : front[j] = processed[j]
  BY <1>2
<1>5. /\ back \in Seq(Traffic) /\ Len(back) = n - i
      /\ \A j \in 1 .. n - i : back[j] = processed[i + j]
  BY <1>2
<1> HIDE DEF front, back
<1>6. m \in Traffic
  BY <1>2
<1>7. /\ front \o back \in Seq(Traffic) /\ Len(front \o back) = n - 1
      /\ \A j \in 1 .. n - 1 : (front \o back)[j] = IF j <= i - 1 THEN front[j] ELSE back[j - (i - 1)]
  <2>1. /\ front \o back \in Seq(Traffic) /\ Len(front \o back) = Len(front) + Len(back)
        /\ \A j \in 1 .. Len(front) + Len(back) :
             (front \o back)[j] = IF j <= Len(front) THEN front[j] ELSE back[j - Len(front)]
    BY <1>4, <1>5, ConcatProperties
  <2>2. Len(front) + Len(back) = n - 1
    BY <1>2, <1>4, <1>5
  <2> QED
    BY <1>4, <2>1, <2>2
<1> DEFINE rest == front \o back
<1> HIDE DEF rest
<1>8. \A j \in 1 .. n - 1 : rest[j] \in Known
  <2> SUFFICES ASSUME NEW j \in 1 .. n - 1 PROVE rest[j] \in Known
    OBVIOUS
  <2>1. \A k \in 1 .. n : processed[k] \in Known
    BY DEF Known, ToSet
  <2>2. CASE j <= i - 1
    BY <1>2, <1>4, <1>7, <2>1, <2>2 DEF rest
  <2>3. CASE ~(j <= i - 1)
    <3>1. j - (i - 1) \in 1 .. n - i /\ i + (j - (i - 1)) = j + 1 /\ j + 1 \in 1 .. n
      BY <1>2, <2>3
    <3>2. rest[j] = back[j - (i - 1)]
      BY <1>7, <2>3 DEF rest
    <3> QED
      BY <1>5, <2>1, <3>1, <3>2
  <2> QED
    BY <2>2, <2>3
<1>9. /\ Append(rest, m) \in Seq(Traffic) /\ Len(Append(rest, m)) = n
      /\ \A k \in 1 .. n - 1 : Append(rest, m)[k] = rest[k]
      /\ Append(rest, m)[n] = m
  BY <1>2, <1>6, <1>7, AppendProperties DEF rest
<1>10. ASSUME NEW k \in 1 .. n PROVE Append(rest, m)[k] \in Known
  BY <1>2, <1>8, <1>9
<1> QED
  BY <1>2, <1>3, <1>9, <1>10 DEF ToSet, rest

\* Remembering adds one record and respects the limit.
LEMMA RememberProperties ==
  ASSUME processed \in Seq(Traffic), Len(processed) <= DedupMax, NEW m \in Traffic
  PROVE  /\ Remember(m) \in Seq(Traffic) /\ Len(Remember(m)) <= DedupMax
         /\ ToSet(Remember(m)) \subseteq Known \cup {m}
<1> DEFINE n == Len(processed)
<1>0. n \in Nat /\ DedupMax \in Nat /\ \A k \in 1 .. n : processed[k] \in Known
  BY ReceiveAssumption DEF Known, ToSet
<1>1. CASE DedupMax = 0
  BY <1>1 DEF Remember, Known
<1>2. CASE DedupMax # 0 /\ n < DedupMax
  <2>1. Remember(m) = Append(processed, m)
    BY <1>2 DEF Remember
  <2>2. \A k \in 1 .. n + 1 : Append(processed, m)[k] \in Known \cup {m}
    BY <1>0
  <2> QED
    BY <1>0, <1>2, <2>1, <2>2 DEF ToSet
<1>3. CASE DedupMax # 0 /\ n = DedupMax
  <2> DEFINE rest == SubSeq(processed, 2, n)
  <2>1. Remember(m) = Append(rest, m)
    BY <1>0, <1>3 DEF Remember
  <2>2. rest \in Seq(Traffic) /\ Len(rest) = n - 1 /\ \A k \in 1 .. n - 1 : rest[k] = processed[k + 1]
    BY <1>0, <1>3
  <2> HIDE DEF rest
  <2>3. Append(rest, m) \in Seq(Traffic) /\ Len(Append(rest, m)) = n
    BY <1>0, <1>3, <2>2
  <2>4. \A k \in 1 .. n : Append(rest, m)[k] \in Known \cup {m}
    BY <1>0, <1>3, <2>2
  <2> QED
    BY <1>0, <1>3, <2>1, <2>3, <2>4 DEF ToSet
<1> QED
  BY <1>0, <1>1, <1>2, <1>3

LEMMA TailProperties ==
  ASSUME processed \in Seq(Traffic), processed # << >>, Len(processed) <= DedupMax
  PROVE  /\ Tail(processed) \in Seq(Traffic) /\ Len(Tail(processed)) <= DedupMax
         /\ ToSet(Tail(processed)) \subseteq Known
<1>1. Len(processed) \in Nat /\ DedupMax \in Nat /\ \A k \in 1 .. Len(processed) : processed[k] \in Known
  BY ReceiveAssumption DEF Known, ToSet
<1>2. Tail(processed) \in Seq(Traffic) /\ Len(Tail(processed)) = Len(processed) - 1
  OBVIOUS
<1>3. \A k \in 1 .. Len(processed) - 1 : Tail(processed)[k] = processed[k + 1]
  BY <1>1
<1> QED
  BY <1>1, <1>2, <1>3 DEF ToSet

-----------------------------------------------------------------------------
(* The receive store: types                                                *)

RecordsOf == [state : {"InFlight", "OrderedBuffered"}, deadline : {"none", "armed", "reached"}]
GateStates == [expected : Nat, inFlight : Traffic \cup {NoMessage}, buffer : SUBSET Traffic]
HandlerStates == [stage : {"idle", "registered", "rejecting", "reack"}, m : Traffic \cup {NoMessage}]
ActiveTyped == Active \subseteq Traffic /\ active \in [Active -> RecordsOf]
StoreOK ==
  /\ ActiveTyped
  /\ ordered \in [Channels -> GateStates] /\ failed \subseteq Channels
\* A receiver between two calls carries a message, and only an ordered one is on
\* its way to accept_ordered.
HandlerShape ==
  \A h \in Handlers :
    /\ handler[h].stage = "idle" => handler[h] = Idle
    /\ handler[h].stage # "idle" => handler[h].m \in Traffic
    /\ handler[h].stage \in {"registered", "rejecting"} => Ordered(handler[h].m)
HandlersOK == handler \in [Handlers -> HandlerStates] /\ HandlerShape
\* Whatever is acknowledged, remembered or about to be acknowledged was completed.
AckSound ==
  /\ processed \in Seq(Traffic) /\ Len(processed) <= DedupMax
  /\ shown \subseteq Traffic /\ completed \subseteq Traffic
  /\ Known \subseteq completed /\ acked \subseteq completed
  /\ \A h \in Handlers : handler[h].stage = "reack" => handler[h].m \in completed

\* The gate of one channel: GateInOrder, and every sequence is buffered once.
GateOf(o, ch) ==
  /\ o.inFlight # NoMessage => o.inFlight.ch = ch /\ o.inFlight.seq = o.expected
  /\ \A m \in o.buffer : /\ m.ch = ch /\ m.seq > o.expected
                         /\ m.seq - o.expected <= MaxSequenceGap
  /\ \A x, y \in o.buffer : x.seq = y.seq => x = y
  /\ IsFiniteSet(o.buffer) /\ Cardinality(o.buffer) <= MaxReorderMessages
  /\ Bytes(o.buffer) <= MaxReorderBytes
Gates == \A ch \in Channels : GateOf(ordered[ch], ch)

Received == StoreOK /\ HandlersOK /\ AckSound /\ Gates

\* What ReceiveAssumption says about a message.
LEMMA TrafficShape ==
  ASSUME NEW m \in Traffic
  PROVE  m.ch \in Channels /\ m.seq \in Nat /\ m.size \in Nat /\ m # NoMessage
BY ReceiveAssumption

LEMMA DefaultGate ==
  ASSUME NEW ch, NEW n \in Nat
  PROVE  /\ [Default EXCEPT !.expected = n] \in GateStates
         /\ GateOf([Default EXCEPT !.expected = n], ch)
         /\ Default \in GateStates /\ GateOf(Default, ch)
<1> DEFINE d == [Default EXCEPT !.expected = n]
<1>1. d.inFlight = NoMessage /\ d.buffer = {} /\ d.expected = n
  BY DEF Default
<1>2. Default.inFlight = NoMessage /\ Default.buffer = {} /\ Default.expected = 0
  BY DEF Default
<1>3. d \in GateStates /\ Default \in GateStates
  BY DEF Default, GateStates
<1>4. /\ IsFiniteSet({}) /\ Cardinality({}) <= MaxReorderMessages
      /\ Bytes({}) <= MaxReorderBytes
  BY FS_EmptySet, BytesNone, ReceiveAssumption
<1> QED
  BY <1>1, <1>2, <1>3, <1>4 DEF GateOf

\* Expiring late records removes records and resets gates, nothing else.
LEMMA NowShape ==
  ASSUME StoreOK
  PROVE  /\ DOMAIN ActiveNow = {m \in Active \ Late : m.ch \notin LateFails}
         /\ \A m \in DOMAIN ActiveNow : ActiveNow[m] = active[m]
         /\ ActiveNow \in [DOMAIN ActiveNow -> RecordsOf]
         /\ LateFails \subseteq Channels
<1>1. DOMAIN Drop(active, Late) = Active \ Late
  BY DEF Drop, Active
<1>2. \A m \in Active \ Late : Drop(active, Late)[m] = active[m]
  BY DEF Drop, Active
<1>3. DOMAIN ActiveNow = {m \in Active \ Late : m.ch \notin LateFails}
  BY <1>1 DEF ActiveNow, FailActive, Drop
<1>4. \A m \in DOMAIN ActiveNow : ActiveNow[m] = active[m]
  <2>1. \A m \in DOMAIN ActiveNow : ActiveNow[m] = Drop(active, Late)[m]
    BY <1>1, <1>3 DEF ActiveNow, FailActive, Drop
  <2> QED
    BY <1>2, <1>3, <2>1
<1>5. ActiveNow \in [DOMAIN ActiveNow -> RecordsOf]
  <2>1. ActiveNow = [m \in DOMAIN ActiveNow |-> ActiveNow[m]]
    BY DEF ActiveNow, FailActive, Drop
  <2>2. \A m \in DOMAIN ActiveNow : ActiveNow[m] \in RecordsOf
    BY <1>3, <1>4 DEF StoreOK, ActiveTyped
  <2> QED
    BY <2>1, <2>2
<1>6. LateFails \subseteq Channels
  BY TrafficShape DEF LateFails, Late, StoreOK, ActiveTyped
<1> QED
  BY <1>3, <1>4, <1>5, <1>6

LEMMA FailOrderedGates ==
  ASSUME StoreOK, Gates, NEW F, ordered' = FailOrdered(F)
  PROVE  ordered' \in [Channels -> GateStates] /\ Gates'
<1>1. \A ch \in Channels : ordered'[ch] = Default \/ ordered'[ch] = ordered[ch]
  BY DEF FailOrdered
<1>2. \A ch \in Channels : Default \in GateStates /\ GateOf(Default, ch)
  BY DefaultGate
<1>3. \A ch \in Channels : ordered'[ch] \in GateStates
  BY <1>1, <1>2 DEF StoreOK
<1>4. \A ch \in Channels : GateOf(ordered'[ch], ch)
  BY <1>1, <1>2 DEF Gates
<1>5. ordered' \in [Channels -> GateStates]
  BY <1>3 DEF FailOrdered
<1> QED
  BY <1>4, <1>5 DEF Gates

LEMMA NowKeeps ==
  ASSUME StoreOK, Gates, active' = ActiveNow, ordered' = OrderedNow, failed' = FailedNow
  PROVE  StoreOK' /\ Gates'
<1>1. ordered' \in [Channels -> GateStates] /\ Gates'
  BY FailOrderedGates DEF OrderedNow
<1>2. Active' = DOMAIN ActiveNow
  BY DEF Active
<1>3. ActiveTyped'
  BY <1>2, NowShape DEF ActiveTyped, StoreOK
<1>4. failed' \subseteq Channels
  BY NowShape DEF FailedNow, StoreOK
<1> QED
  BY <1>1, <1>3, <1>4 DEF StoreOK

-----------------------------------------------------------------------------
(* The receive store: every step keeps the gates in order                  *)

\* A receiver moves to a stage that fits the message it carries.
LEMMA WaitKeepsHandlers ==
  ASSUME HandlersOK, NEW h \in Handlers, NEW m \in Traffic,
         NEW st \in {"registered", "rejecting", "reack"}, Wait(h, st, m),
         st \in {"registered", "rejecting"} => Ordered(m)
  PROVE  /\ HandlersOK'
         /\ handler'[h] = [stage |-> st, m |-> m]
         /\ \A g \in Handlers \ {h} : handler'[g] = handler[g]
BY DEF HandlersOK, HandlerShape, HandlerStates, Wait

LEMMA DoneKeepsHandlers ==
  ASSUME HandlersOK, NEW h \in Handlers, Done(h)
  PROVE  /\ HandlersOK'
         /\ handler'[h] = Idle
         /\ \A g \in Handlers \ {h} : handler'[g] = handler[g]
BY DEF HandlersOK, HandlerShape, HandlerStates, Done, Idle

LEMMA PutTyped ==
  ASSUME NEW f, DOMAIN f \subseteq Traffic, f \in [DOMAIN f -> RecordsOf],
         NEW m \in Traffic, NEW v \in RecordsOf, active' = Put(f, m, v)
  PROVE  /\ ActiveTyped' /\ Active' = DOMAIN f \cup {m}
         /\ active'[m] = v /\ \A x \in DOMAIN f \ {m} : active'[x] = f[x]
<1>1. Active' = DOMAIN f \cup {m}
  BY DEF Put, Active
<1>2. active'[m] = v /\ \A x \in DOMAIN f \ {m} : active'[x] = f[x]
  BY DEF Put
<1>3. active' \in [Active' -> RecordsOf]
  BY <1>1 DEF Put
<1> QED
  BY <1>1, <1>2, <1>3 DEF ActiveTyped

LEMMA DropTyped ==
  ASSUME ActiveTyped, NEW S, active' = Drop(active, S)
  PROVE  /\ ActiveTyped' /\ Active' = Active \ S
         /\ \A x \in Active' : active'[x] = active[x]
<1>1. Active' = Active \ S /\ \A x \in Active \ S : active'[x] = active[x]
  BY DEF Drop, Active
<1>2. active' \in [Active' -> RecordsOf]
  BY <1>1 DEF Drop, Active, ActiveTyped
<1> QED
  BY <1>1, <1>2 DEF ActiveTyped

\* The records Fresh and Held are of the type of a record.
LEMMA RecordsTyped == Fresh \in RecordsOf /\ Held \in RecordsOf
BY DEF Fresh, Held, RecordsOf

\* begin_incoming
LEMMA ReceiveKeeps ==
  ASSUME Received, NEW h \in Handlers, NEW m \in Traffic, Receive(h, m)
  PROVE  Received'
<1> USE DEF Received
<1>1. CASE ReceiveBestEffort(h, m)
  BY <1>1 DEF ReceiveBestEffort, incoming, StoreOK, ActiveTyped, Active, HandlersOK, HandlerShape,
    AckSound, Known, Gates
<1>2. CASE BeginDropped(h, m)
  <2>1. StoreOK' /\ Gates'
    BY <1>2, NowKeeps DEF BeginDropped
  <2>2. HandlersOK' /\ AckSound'
    BY <1>2 DEF BeginDropped, HandlersOK, HandlerShape, AckSound, Known
  <2> QED
    BY <2>1, <2>2
<1>3. CASE BeginProcessed(h, m)
  <2>1. StoreOK' /\ Gates'
    BY <1>3, NowKeeps DEF BeginProcessed
  <2>2. /\ HandlersOK' /\ handler'[h] = [stage |-> "reack", m |-> m]
        /\ \A g \in Handlers \ {h} : handler'[g] = handler[g]
    BY <1>3, WaitKeepsHandlers DEF BeginProcessed
  <2>3. processed' \in Seq(Traffic) /\ Len(processed') <= DedupMax /\ Known' \subseteq Known /\ m \in Known
    BY <1>3, SeenProperties DEF BeginProcessed, AckSound, Known
  <2>4. AckSound'
    BY <1>3, <2>2, <2>3 DEF BeginProcessed, AckSound
  <2> QED
    BY <2>1, <2>2, <2>4
<1>4. CASE BeginNew(h, m)
  <2>1. ordered' \in [Channels -> GateStates] /\ Gates' /\ failed' \subseteq Channels
    BY <1>4, FailOrderedGates, NowShape DEF BeginNew, OrderedNow, FailedNow, StoreOK
  <2>2. ActiveTyped'
    <3>1. DOMAIN ActiveNow \subseteq Traffic /\ ActiveNow \in [DOMAIN ActiveNow -> RecordsOf]
      BY NowShape DEF StoreOK, ActiveTyped
    <3> QED
      BY <1>4, <3>1, PutTyped, RecordsTyped DEF BeginNew
  <2>3. HandlersOK' /\ AckSound'
    <3>1. CASE Ordered(m)
      <4>1. /\ HandlersOK' /\ handler'[h] = [stage |-> "registered", m |-> m]
            /\ \A g \in Handlers \ {h} : handler'[g] = handler[g]
        BY <1>4, <3>1, WaitKeepsHandlers DEF BeginNew
      <4> QED
        BY <1>4, <3>1, <4>1 DEF BeginNew, AckSound, Known
    <3>2. CASE ~Ordered(m)
      BY <1>4, <3>2 DEF BeginNew, AckSound, Known, HandlersOK, HandlerShape
    <3> QED
      BY <3>1, <3>2
  <2> QED
    BY <2>1, <2>2, <2>3 DEF StoreOK
<1> QED
  BY <1>1, <1>2, <1>3, <1>4 DEF Receive

\* accept_ordered, reject_incoming, the repeated ACK and a cancelled receiver.
LEMMA HandlerKeeps ==
  ASSUME Received, NEW h \in Handlers, HandlerStep(h) \/ CancelHandler(h)
  PROVE  Received'
<1> USE DEF Received
<1> DEFINE m == handler[h].m
<1>1. CASE AcceptReady(h)
  <2>1. m \in Traffic /\ m \in Active /\ m.ch \in Channels /\ m # NoMessage
    BY <1>1, TrafficShape DEF AcceptReady, HandlersOK, HandlerShape, Insertable, StoreOK, ActiveTyped
  <2>2. HandlersOK' /\ handler'[h] = Idle /\ \A g \in Handlers \ {h} : handler'[g] = handler[g]
    BY <1>1, DoneKeepsHandlers DEF AcceptReady
  <2>3. ActiveTyped'
    BY <1>1, <2>1, PutTyped, RecordsTyped DEF AcceptReady, StoreOK, ActiveTyped, Active
  <2>4. ordered' \in [Channels -> GateStates] /\ Gates'
    <3>1. ordered' = [ordered EXCEPT ![m.ch].inFlight = m]
      BY <1>1 DEF AcceptReady
    <3>2. ordered[m.ch] \in GateStates /\ m.seq = ordered[m.ch].expected
      BY <1>1, <2>1 DEF AcceptReady, InsertReady, StoreOK
    <3>3. /\ ordered'[m.ch] = [ordered[m.ch] EXCEPT !.inFlight = m]
          /\ \A ch \in Channels \ {m.ch} : ordered'[ch] = ordered[ch]
      BY <2>1, <3>1 DEF StoreOK
    <3>4. ordered'[m.ch] \in GateStates /\ ordered' \in [Channels -> GateStates]
      BY <2>1, <3>1, <3>2, <3>3 DEF StoreOK, GateStates
    <3>5. /\ ordered'[m.ch].inFlight = m /\ ordered'[m.ch].expected = ordered[m.ch].expected
          /\ ordered'[m.ch].buffer = ordered[m.ch].buffer
      BY <3>2, <3>3 DEF GateStates
    <3>6. GateOf(ordered'[m.ch], m.ch)
      BY <2>1, <3>2, <3>5 DEF Gates, GateOf
    <3> QED
      BY <3>3, <3>4, <3>6 DEF Gates
  <2>5. AckSound'
    BY <1>1, <2>1, <2>2 DEF AcceptReady, AckSound, Known, Idle
  <2> QED
    BY <1>1, <2>2, <2>3, <2>4, <2>5 DEF StoreOK, AcceptReady
<1>2. CASE AcceptBuffered(h)
  <2>1. /\ m \in Traffic /\ m \in Active /\ m.ch \in Channels /\ m # NoMessage
        /\ m.size \in Nat /\ m.seq \in Nat
    BY <1>2, TrafficShape DEF AcceptBuffered, HandlersOK, HandlerShape, Insertable, StoreOK, ActiveTyped
  <2>2. HandlersOK' /\ handler'[h] = Idle /\ \A g \in Handlers \ {h} : handler'[g] = handler[g]
    BY <1>2, DoneKeepsHandlers DEF AcceptBuffered
  <2>3. ActiveTyped'
    BY <1>2, <2>1, PutTyped, RecordsTyped DEF AcceptBuffered, StoreOK, ActiveTyped, Active
  <2>4. ordered' \in [Channels -> GateStates] /\ Gates'
    <3> DEFINE o == ordered[m.ch]
    <3>1. ordered' = [ordered EXCEPT ![m.ch].buffer = @ \cup {m}]
      BY <1>2 DEF AcceptBuffered
    <3>2. o \in GateStates /\ GateOf(o, m.ch)
      BY <2>1 DEF StoreOK, Gates
    <3>3. /\ m.seq > o.expected /\ m.seq - o.expected <= MaxSequenceGap
          /\ Cardinality(o.buffer) < MaxReorderMessages
          /\ BufferBytes(m.ch) + m.size <= MaxReorderBytes
          /\ \A x \in o.buffer : x.seq # m.seq
      BY <1>2 DEF AcceptBuffered, InsertBuffers
    <3>4. /\ ordered'[m.ch] = [o EXCEPT !.buffer = @ \cup {m}]
          /\ \A ch \in Channels \ {m.ch} : ordered'[ch] = ordered[ch]
      BY <2>1, <3>1 DEF StoreOK
    <3>5. ordered'[m.ch] \in GateStates /\ ordered' \in [Channels -> GateStates]
      BY <2>1, <3>1, <3>2, <3>4 DEF StoreOK, GateStates
    <3>6. /\ ordered'[m.ch].inFlight = o.inFlight /\ ordered'[m.ch].expected = o.expected
          /\ ordered'[m.ch].buffer = o.buffer \cup {m}
      BY <3>2, <3>4 DEF GateStates
    <3>7. m \notin o.buffer /\ IsFiniteSet(o.buffer) /\ \A x \in o.buffer : x.size \in Nat
      BY <3>2, <3>3, TrafficShape DEF GateOf, GateStates
    <3>8. Bytes(o.buffer \cup {m}) = Bytes(o.buffer) + m.size /\ Bytes(o.buffer) = BufferBytes(m.ch)
      BY <2>1, <3>7, BytesAdd DEF Bytes, BufferBytes
    <3>9. /\ IsFiniteSet(o.buffer \cup {m}) /\ Cardinality(o.buffer) \in Nat
          /\ Cardinality(o.buffer \cup {m}) = Cardinality(o.buffer) + 1
      BY <3>7, FS_AddElement, FS_CardinalityType
    <3>10. Cardinality(o.buffer \cup {m}) <= MaxReorderMessages
      BY <3>3, <3>9, ReceiveAssumption
    <3>11. GateOf(ordered'[m.ch], m.ch)
      <4>1. \A x, y \in o.buffer \cup {m} : x.seq = y.seq => x = y
        BY <3>2, <3>3 DEF GateOf
      <4>2. \A x \in o.buffer \cup {m} : x.ch = m.ch /\ x.seq > o.expected /\ x.seq - o.expected <= MaxSequenceGap
        BY <3>2, <3>3 DEF GateOf
      <4>3. Bytes(o.buffer \cup {m}) <= MaxReorderBytes
        BY <3>3, <3>8
      <4>4. o.inFlight # NoMessage => o.inFlight.ch = m.ch /\ o.inFlight.seq = o.expected
        BY <3>2 DEF GateOf
      <4> QED
        BY <3>6, <3>9, <3>10, <4>1, <4>2, <4>3, <4>4 DEF GateOf
    <3> QED
      BY <3>4, <3>5, <3>11 DEF Gates
  <2>5. AckSound'
    BY <1>2, <2>2 DEF AcceptBuffered, AckSound, Known, Idle
  <2> QED
    BY <1>2, <2>2, <2>3, <2>4, <2>5 DEF StoreOK, AcceptBuffered
<1>3. CASE AcceptRefused(h)
  <2>1. m \in Traffic /\ Ordered(m)
    BY <1>3 DEF AcceptRefused, HandlersOK, HandlerShape
  <2>2. /\ HandlersOK' /\ handler'[h] = [stage |-> "rejecting", m |-> m]
        /\ \A g \in Handlers \ {h} : handler'[g] = handler[g]
    BY <1>3, <2>1, WaitKeepsHandlers DEF AcceptRefused
  <2>3. AckSound'
    BY <1>3, <2>2 DEF AcceptRefused, AckSound, Known, incoming
  <2> QED
    BY <1>3, <2>2, <2>3 DEF AcceptRefused, incoming, StoreOK, ActiveTyped, Active, Gates
<1>4. CASE RejectIncoming(h)
  <2>1. HandlersOK' /\ handler'[h] = Idle /\ \A g \in Handlers \ {h} : handler'[g] = handler[g]
    BY <1>4, DoneKeepsHandlers DEF RejectIncoming
  <2>2. ActiveTyped'
    BY <1>4, DropTyped DEF RejectIncoming, StoreOK
  <2> QED
    BY <1>4, <2>1, <2>2 DEF RejectIncoming, StoreOK, AckSound, Known, Gates, Idle
<1>5. CASE Reack(h)
  <2>1. HandlersOK' /\ handler'[h] = Idle /\ \A g \in Handlers \ {h} : handler'[g] = handler[g]
    BY <1>5, DoneKeepsHandlers DEF Reack
  <2>2. AckSound'
    BY <1>5, <2>1 DEF Reack, AckSound, Known, incoming, Idle
  <2> QED
    BY <1>5, <2>1, <2>2 DEF Reack, incoming, StoreOK, ActiveTyped, Active, Gates
<1>6. CASE CancelHandler(h)
  <2>1. HandlersOK' /\ handler'[h] = Idle /\ \A g \in Handlers \ {h} : handler'[g] = handler[g]
    BY <1>6, DoneKeepsHandlers DEF CancelHandler
  <2>2. AckSound'
    BY <1>6, <2>1 DEF CancelHandler, AckSound, Known, incoming, Idle
  <2> QED
    BY <1>6, <2>1, <2>2 DEF CancelHandler, incoming, StoreOK, ActiveTyped, Active, Gates
<1> QED
  BY <1>1, <1>2, <1>3, <1>4, <1>5, <1>6 DEF HandlerStep

\* OrderedChannelState::acknowledge: the released message, if there is one, is the
\* one the gate expects next.
LEMMA AdvanceGate ==
  ASSUME NEW ch \in Channels, NEW o \in GateStates, GateOf(o, ch),
         NEW R, R = {x \in o.buffer : x.seq = o.expected + 1}
  PROVE  /\ Advance(o, R) \in GateStates /\ GateOf(Advance(o, R), ch)
         /\ \/ R = {} /\ Advance(o, R).inFlight = NoMessage
            \/ \E x \in R : R = {x} /\ Advance(o, R).inFlight = x
         /\ Advance(o, R).expected = o.expected + 1 /\ Advance(o, R).buffer = o.buffer \ R
<1> DEFINE a == Advance(o, R)
<1>1. o.expected \in Nat /\ o.buffer \subseteq Traffic
  BY DEF GateStates
<1>2. a.expected = o.expected + 1 /\ a.buffer = o.buffer \ R
  BY DEF Advance
<1>3. \/ R = {} /\ a.inFlight = NoMessage
      \/ \E x \in R : R = {x} /\ a.inFlight = x
  <2>1. CASE R = {}
    BY <2>1 DEF Advance
  <2>2. CASE R # {}
    <3>1. a.inFlight = (CHOOSE x \in R : TRUE)
      BY <2>2 DEF Advance
    <3>2. a.inFlight \in R
      BY <2>2, <3>1
    <3>3. \A x \in R : x = a.inFlight
      BY <3>2 DEF GateOf
    <3> QED
      BY <3>2, <3>3
  <2> QED
    BY <2>1, <2>2
<1>4. a \in GateStates
  <2>1. a.inFlight \in Traffic \cup {NoMessage}
    BY <1>1, <1>3
  <2>2. a = [expected |-> a.expected, inFlight |-> a.inFlight, buffer |-> a.buffer]
    BY DEF Advance
  <2>3. a.expected \in Nat
    BY <1>1, <1>2
  <2>4. a.buffer \in SUBSET Traffic
    BY <1>1, <1>2
  <2> QED
    BY <2>1, <2>2, <2>3, <2>4 DEF GateStates
<1>5. GateOf(a, ch)
  <2>1. a.inFlight # NoMessage => a.inFlight.ch = ch /\ a.inFlight.seq = a.expected
    BY <1>2, <1>3 DEF GateOf
  <2>2. ASSUME NEW m \in a.buffer
        PROVE  m.ch = ch /\ m.seq > a.expected /\ m.seq - a.expected <= MaxSequenceGap
    <3>1. m \in o.buffer /\ m.seq # o.expected + 1 /\ m.seq \in Nat
      BY <1>1, <1>2, TrafficShape
    <3>2. m.ch = ch /\ m.seq > o.expected /\ m.seq - o.expected <= MaxSequenceGap
      BY <3>1 DEF GateOf
    <3> QED
      BY <1>1, <1>2, <3>1, <3>2, ReceiveAssumption
  <2>3. \A x, y \in a.buffer : x.seq = y.seq => x = y
    BY <1>2 DEF GateOf
  <2>4. IsFiniteSet(o.buffer) /\ \A x \in o.buffer : x.size \in Nat
    BY <1>1, TrafficShape DEF GateOf
  <2>5. R \in SUBSET o.buffer /\ o.buffer \ R \in SUBSET o.buffer
    OBVIOUS
  <2>6. /\ IsFiniteSet(a.buffer) /\ Cardinality(a.buffer) <= Cardinality(o.buffer)
        /\ Cardinality(a.buffer) \in Nat /\ Cardinality(o.buffer) \in Nat /\ IsFiniteSet(R)
    BY <1>2, <2>4, <2>5, FS_Subset, FS_CardinalityType
  <2>7. Bytes(o.buffer) = Bytes(a.buffer) + Bytes(R)
    BY <1>2, <2>4, <2>5, BytesSplit
  <2>8. Bytes(a.buffer) \in Nat /\ Bytes(R) \in Nat
    BY <1>2, <2>4, <2>5, <2>6, BytesFinite
  <2>9. Cardinality(a.buffer) <= MaxReorderMessages /\ Bytes(a.buffer) <= MaxReorderBytes
    BY <2>6, <2>7, <2>8, ReceiveAssumption DEF GateOf
  <2> QED
    BY <2>1, <2>2, <2>3, <2>6, <2>9 DEF GateOf
<1> QED
  BY <1>2, <1>3, <1>4, <1>5

\* What completing m does to the gate of its channel.
LEMMA CompleteShape ==
  ASSUME Received, NEW m \in Active, CompleteIncoming(m)
  PROVE  /\ m \in Traffic /\ ordered' \in [Channels -> GateStates] /\ Gates'
         /\ Active' = Active \ {m} /\ ActiveTyped'
         /\ \A x \in Active' : active'[x] = IF x \in Released(m) THEN Fresh ELSE active[x]
         /\ \A ch \in Channels \ {m.ch} : ordered'[ch] = ordered[ch]
         /\ \/ ordered[m.ch].inFlight # m /\ ordered' = ordered /\ Released(m) = {}
            \/ /\ ordered[m.ch].inFlight = m
               /\ Released(m) = {x \in ordered[m.ch].buffer : x.seq = ordered[m.ch].expected + 1}
               /\ ordered'[m.ch] = Advance(ordered[m.ch], Released(m))
<1> DEFINE o == ordered[m.ch]
<1>1. m \in Traffic /\ m.ch \in Channels
  BY TrafficShape DEF Received, StoreOK, ActiveTyped
<1>2. /\ Active' = Active \ {m}
      /\ \A x \in Active \ {m} : active'[x] = IF x \in Released(m) THEN Fresh ELSE active[x]
  BY DEF CompleteIncoming, Active
<1>3. ActiveTyped'
  <2>1. active' = [x \in Active \ {m} |-> IF x \in Released(m) THEN Fresh ELSE active[x]]
    BY DEF CompleteIncoming
  <2>2. \A x \in Active : active[x] \in RecordsOf
    BY DEF Received, StoreOK, ActiveTyped
  <2>3. active' \in [Active' -> RecordsOf]
    BY <1>2, <2>1, <2>2, RecordsTyped
  <2> QED
    BY <1>2, <2>3 DEF ActiveTyped, Received, StoreOK
<1>4. CASE o.inFlight # m
  <2>1. ordered' = ordered /\ Released(m) = {}
    BY <1>4 DEF CompleteIncoming, Released
  <2> QED
    BY <1>1, <1>2, <1>3, <1>4, <2>1 DEF Received, StoreOK, Gates
<1>5. CASE o.inFlight = m
  <2>1. ordered' = [ordered EXCEPT ![m.ch] = Advance(@, Released(m))]
    BY <1>5 DEF CompleteIncoming
  <2>2. Released(m) = {x \in o.buffer : x.seq = o.expected + 1}
    BY <1>5 DEF Released
  <2>3. o \in GateStates /\ GateOf(o, m.ch)
    BY <1>1 DEF Received, StoreOK, Gates
  <2>4. Advance(o, Released(m)) \in GateStates /\ GateOf(Advance(o, Released(m)), m.ch)
    BY <1>1, <2>2, <2>3, AdvanceGate
  <2>5. /\ ordered'[m.ch] = Advance(o, Released(m))
        /\ \A ch \in Channels \ {m.ch} : ordered'[ch] = ordered[ch]
    BY <1>1, <2>1 DEF Received, StoreOK
  <2>6. ordered' \in [Channels -> GateStates]
    BY <1>1, <2>1, <2>4 DEF Received, StoreOK
  <2>7. Gates'
    BY <2>4, <2>5 DEF Received, Gates
  <2> QED
    BY <1>1, <1>2, <1>3, <1>5, <2>2, <2>5, <2>6, <2>7
<1> QED
  BY <1>4, <1>5

LEMMA CompleteKeeps ==
  ASSUME Received, NEW m \in shown, CompleteIncoming(m)
  PROVE  Received'
<1>1. m \in Active
  BY DEF CompleteIncoming, MayComplete
<1>2. m \in Traffic /\ ordered' \in [Channels -> GateStates] /\ Gates' /\ ActiveTyped'
  BY <1>1, CompleteShape
<1>3. StoreOK'
  BY <1>2 DEF StoreOK, Received, CompleteIncoming
<1>4. HandlersOK'
  BY DEF CompleteIncoming, Received, HandlersOK, HandlerShape
<1>5. processed' \in Seq(Traffic) /\ Len(processed') <= DedupMax /\ Known' \subseteq Known \cup {m}
  BY <1>2, RememberProperties DEF CompleteIncoming, Received, AckSound, Known
<1>6. Released(m) \subseteq Traffic
  BY <1>2, TrafficShape DEF Released, Received, StoreOK, GateStates
<1>7. AckSound'
  BY <1>2, <1>5, <1>6 DEF CompleteIncoming, Received, AckSound
<1> QED
  BY <1>2, <1>3, <1>4, <1>7 DEF Received

\* The application's other calls, the clock and an explicit disconnect.
LEMMA OthersKeep ==
  ASSUME Received,
         \/ \E m \in shown : CompleteUnknown(m)
         \/ \E m \in Active : AbandonIncoming(m) \/ DeadlineElapses(m)
         \/ ExpireIncoming \/ DedupExpires \/ ClosePeer \/ UNCHANGED receiving
  PROVE  Received'
<1> USE DEF Received
<1>1. ASSUME NEW m \in shown, CompleteUnknown(m) PROVE Received'
  BY <1>1 DEF CompleteUnknown, incoming, StoreOK, ActiveTyped, Active, HandlersOK, HandlerShape,
    AckSound, Known, Gates
<1>2. ASSUME NEW m \in Active, AbandonIncoming(m) PROVE Received'
  <2>1. m.ch \in Channels
    BY TrafficShape DEF StoreOK, ActiveTyped
  <2>2. ActiveTyped'
    BY <1>2, DropTyped DEF AbandonIncoming, FailActive, StoreOK
  <2>3. ordered' \in [Channels -> GateStates] /\ Gates'
    <3>1. CASE ordered' = FailOrdered({m.ch})
      BY <3>1, FailOrderedGates
    <3>2. CASE ordered' = ordered
      BY <3>2 DEF StoreOK, Gates
    <3> QED
      BY <1>2, <3>1, <3>2 DEF AbandonIncoming
  <2>4. failed' \subseteq Channels
    BY <1>2, <2>1 DEF AbandonIncoming, StoreOK
  <2>5. HandlersOK' /\ AckSound'
    BY <1>2 DEF AbandonIncoming, HandlersOK, HandlerShape, AckSound, Known
  <2> QED
    BY <2>2, <2>3, <2>4, <2>5 DEF StoreOK
<1>3. ASSUME NEW m \in Active, DeadlineElapses(m) PROVE Received'
  <2>1. Active' = Active /\ active' \in [Active -> RecordsOf]
    BY <1>3 DEF DeadlineElapses, Active, StoreOK, ActiveTyped, RecordsOf
  <2> QED
    BY <1>3, <2>1 DEF DeadlineElapses, StoreOK, ActiveTyped, HandlersOK, HandlerShape, AckSound, Known, Gates
<1>4. ASSUME ExpireIncoming PROVE Received'
  <2>1. StoreOK' /\ Gates'
    BY <1>4, NowKeeps DEF ExpireIncoming
  <2> QED
    BY <1>4, <2>1 DEF ExpireIncoming, HandlersOK, HandlerShape, AckSound, Known
<1>5. ASSUME DedupExpires PROVE Received'
  <2>1. processed' \in Seq(Traffic) /\ Len(processed') <= DedupMax /\ Known' \subseteq Known
    BY <1>5, TailProperties DEF DedupExpires, AckSound, Known
  <2> QED
    BY <1>5, <2>1 DEF DedupExpires, StoreOK, ActiveTyped, Active, HandlersOK, HandlerShape, AckSound, Gates
<1>6. ASSUME ClosePeer PROVE Received'
  <2>1. Active' = {}
    BY <1>6 DEF ClosePeer, Active
  <2>2. active' \in [Active' -> RecordsOf]
    BY <1>6, <2>1 DEF ClosePeer
  <2>3. \A ch \in Channels : ordered[ch].expected \in Nat
    BY DEF StoreOK, GateStates
  <2>4. \A ch \in Channels : ordered'[ch] = [Default EXCEPT !.expected = ordered[ch].expected]
    BY <1>6 DEF ClosePeer
  <2>5. \A ch \in Channels : ordered'[ch] \in GateStates /\ GateOf(ordered'[ch], ch)
    BY <2>3, <2>4, DefaultGate
  <2>6. ordered' \in [Channels -> GateStates]
    BY <1>6, <2>4, <2>5 DEF ClosePeer
  <2>7. /\ processed' \in Seq(Traffic) /\ Len(processed') = 0
        /\ Known' = {}
    BY <1>6 DEF ClosePeer, Known, ToSet
  <2>8. AckSound'
    BY <1>6, <2>7, ReceiveAssumption DEF ClosePeer, AckSound
  <2>9. HandlersOK'
    BY <1>6 DEF ClosePeer, HandlersOK, HandlerShape
  <2> QED
    BY <1>6, <2>1, <2>2, <2>5, <2>6, <2>8, <2>9 DEF ClosePeer, StoreOK, ActiveTyped, Gates
<1>7. ASSUME UNCHANGED receiving PROVE Received'
  BY <1>7 DEF receiving, incoming, StoreOK, ActiveTyped, Active, HandlersOK, HandlerShape,
    AckSound, Known, Gates
<1> QED
  BY <1>1, <1>2, <1>3, <1>4, <1>5, <1>6, <1>7

LEMMA ReceivedStep ==
  ASSUME Received, [ReceiveNext]_receiving
  PROVE  Received'
BY ReceiveKeeps, HandlerKeeps, CompleteKeeps, OthersKeep DEF ReceiveNext, ReceiveConnected, ReceiveLocal

LEMMA ReceivedInit ==
  ASSUME ReceiveInit
  PROVE  Received
<1>1. Active = {} /\ active \in [Active -> RecordsOf]
  BY DEF ReceiveInit, Active
<1>2. \A ch \in Channels : Default \in GateStates /\ GateOf(Default, ch)
  BY DefaultGate
<1>3. StoreOK /\ Gates
  BY <1>1, <1>2 DEF ReceiveInit, StoreOK, ActiveTyped, Gates
<1>4. HandlersOK
  BY DEF ReceiveInit, HandlersOK, HandlerShape, HandlerStates, Idle
<1>5. processed \in Seq(Traffic) /\ Len(processed) = 0 /\ Known = {}
  BY DEF ReceiveInit, Known, ToSet
<1>6. AckSound
  BY <1>5, ReceiveAssumption DEF ReceiveInit, AckSound, Idle
<1> QED
  BY <1>3, <1>4, <1>6 DEF Received

LEMMA ReceivedImplies ==
  ASSUME Received
  PROVE  GateConsistent
<1>1. ReceiveTypeOK
  BY DEF Received, StoreOK, ActiveTyped, RecordsOf, GateStates, HandlersOK, HandlerStates, AckSound, ReceiveTypeOK
<1>2. GateInOrder
  <2>1. \A ch \in Channels : BufferBytes(ch) = Bytes(ordered[ch].buffer)
    BY DEF BufferBytes, Bytes
  <2> QED
    BY <2>1 DEF Received, Gates, GateOf, GateInOrder
<1>3. AckedWasCompleted
  BY DEF Received, AckSound, AckedWasCompleted
<1> QED
  BY <1>1, <1>2, <1>3 DEF GateConsistent

\* Whatever a peer sends, repeats and reorders, and however expiries, completions,
\* cancelled receivers and disconnects interleave: the gate of an ordered channel
\* holds its next message, what waits behind it is later and within the reorder
\* limits, and a DeliveryAck is only sent for a completed message.
THEOREM GateStaysConsistent == ReceiveSpec => []GateConsistent
<1>1. ReceiveInit => Received
  BY ReceivedInit
<1>2. Received /\ [ReceiveNext]_receiving => Received'
  BY ReceivedStep
<1>3. Received => GateConsistent
  BY ReceivedImplies
<1> QED
  BY <1>1, <1>2, <1>3, PTL DEF ReceiveSpec

-----------------------------------------------------------------------------
(* The receive store until an explicit disconnect                          *)

\* Gate and buffer hold ordered messages with a record of the right state.
SlotsOf(act, ord) ==
  /\ \A m \in DOMAIN act : act[m].state = "OrderedBuffered" => m \in ord[m.ch].buffer
  /\ \A ch \in Channels :
       /\ ord[ch].inFlight # NoMessage =>
            /\ ord[ch].inFlight \in DOMAIN act /\ Ordered(ord[ch].inFlight)
            /\ act[ord[ch].inFlight].state = "InFlight"
       /\ \A m \in ord[ch].buffer :
            m \in DOMAIN act /\ Ordered(m) /\ act[m].state = "OrderedBuffered"
TimedOf(act) == \A m \in DOMAIN act : (act[m].state = "InFlight") = (act[m].deadline # "none")
\* Nothing of a failed channel is left.
CleanOf(act, ord, down) ==
  /\ \A m \in DOMAIN act : m.ch \notin down
  /\ \A ch \in down : ord[ch] = Default
SlotsSound ==
  SlotsOf(active, ordered) /\ TimedOf(active) /\ CleanOf(active, ordered, failed)
NeverBoth == Active \cap Known = {}
\* The application works on one ordered message of a channel, the one at the gate.
ShownIsGate ==
  /\ \A m \in shown : Ordered(m) /\ m.ch \notin failed => ordered[m.ch].inFlight = m
  /\ \A x, y \in shown : Ordered(x) /\ Ordered(y) /\ x.ch = y.ch => x = y
\* A receiver on its way to accept_ordered is alone with its message, whose record
\* is in flight and not late, unless the channel failed meanwhile.
Entering(h) == handler[h].stage \in {"registered", "rejecting"}
Registered(h) ==
  LET m == handler[h].m IN
  \/ m.ch \in failed
  \/ /\ m \in Active /\ active[m] = Fresh
     /\ ordered[m.ch].inFlight # m
     /\ \A g \in Handlers \ {h} : Entering(g) => handler[g].m # m
EnteringAlone == \A h \in Handlers : Entering(h) => Registered(h)

Anchored == SlotsSound /\ NeverBoth /\ ShownIsGate /\ EnteringAlone /\ CompletedIsBehind

\* Expiry leaves the remaining gates, buffers and records consistent.
LEMMA NowSlots ==
  ASSUME Received, Anchored
  PROVE  /\ SlotsOf(ActiveNow, OrderedNow) /\ TimedOf(ActiveNow)
         /\ CleanOf(ActiveNow, OrderedNow, FailedNow)
         /\ \A ch \in Channels : OrderedNow[ch] = IF ch \in LateFails THEN Default ELSE ordered[ch]
<1>1. /\ DOMAIN ActiveNow = {m \in Active \ Late : m.ch \notin LateFails}
      /\ \A m \in DOMAIN ActiveNow : ActiveNow[m] = active[m]
  BY NowShape DEF Received
<1>2. \A ch \in Channels : OrderedNow[ch] = IF ch \in LateFails THEN Default ELSE ordered[ch]
  BY DEF OrderedNow, FailOrdered
<1>3. Default.inFlight = NoMessage /\ Default.buffer = {}
  BY DEF Default
<1>4. Active \subseteq Traffic /\ \A m \in Active : m.ch \in Channels
  BY TrafficShape DEF Received, StoreOK, ActiveTyped
<1>5. SlotsOf(active, ordered) /\ TimedOf(active) /\ CleanOf(active, ordered, failed) /\ Active = DOMAIN active
  BY DEF Anchored, SlotsSound, Active
<1>6. ASSUME NEW m \in DOMAIN ActiveNow, ActiveNow[m].state = "OrderedBuffered"
      PROVE  m \in OrderedNow[m.ch].buffer
  BY <1>1, <1>2, <1>4, <1>5, <1>6 DEF SlotsOf
<1>7. ASSUME NEW ch \in Channels, OrderedNow[ch].inFlight # NoMessage
      PROVE  /\ OrderedNow[ch].inFlight \in DOMAIN ActiveNow /\ Ordered(OrderedNow[ch].inFlight)
             /\ ActiveNow[OrderedNow[ch].inFlight].state = "InFlight"
  <2> DEFINE x == ordered[ch].inFlight
  <2>1. ch \notin LateFails /\ OrderedNow[ch] = ordered[ch] /\ x # NoMessage
    BY <1>2, <1>3, <1>7
  <2>2. x \in Active /\ Ordered(x) /\ active[x].state = "InFlight" /\ x.ch = ch
    BY <1>5, <2>1 DEF SlotsOf, Received, Gates, GateOf
  <2>3. x \notin Late
    BY <2>1, <2>2 DEF LateFails
  <2> QED
    BY <1>1, <2>1, <2>2, <2>3
<1>8. ASSUME NEW ch \in Channels, NEW m \in OrderedNow[ch].buffer
      PROVE  m \in DOMAIN ActiveNow /\ Ordered(m) /\ ActiveNow[m].state = "OrderedBuffered"
  <2>1. ch \notin LateFails /\ OrderedNow[ch] = ordered[ch] /\ m \in ordered[ch].buffer
    BY <1>2, <1>3
  <2>2. m \in Active /\ Ordered(m) /\ active[m].state = "OrderedBuffered" /\ m.ch = ch
    BY <1>5, <2>1 DEF SlotsOf, Received, Gates, GateOf
  <2>3. m \notin Late
    BY <2>2 DEF Late
  <2> QED
    BY <1>1, <2>1, <2>2, <2>3
<1>9. SlotsOf(ActiveNow, OrderedNow)
  BY <1>6, <1>7, <1>8 DEF SlotsOf
<1>10. TimedOf(ActiveNow)
  BY <1>1, <1>5 DEF TimedOf
<1>11. CleanOf(ActiveNow, OrderedNow, FailedNow)
  <2>1. failed \subseteq Channels /\ LateFails \subseteq Channels
    BY NowShape DEF Received, StoreOK
  <2> QED
    BY <1>1, <1>2, <1>5, <2>1 DEF CleanOf, FailedNow
<1> QED
  BY <1>2, <1>9, <1>10, <1>11

\* The handlers and the application do not notice an expiry, unless the channel of
\* their message fails.
LEMMA NowOthers ==
  ASSUME Received, Anchored, ordered' = OrderedNow, failed' = FailedNow
  PROVE  /\ \A m \in Traffic : m.ch \notin failed' => m.ch \notin failed /\ ordered'[m.ch] = ordered[m.ch]
         /\ \A h \in Handlers : Entering(h) =>
              LET m == handler[h].m IN
              \/ m.ch \in failed'
              \/ /\ m \in DOMAIN ActiveNow /\ ActiveNow[m] = Fresh /\ Registered(h)
                 /\ m.ch \notin failed /\ ordered'[m.ch] = ordered[m.ch]
<1>1. \A m \in Traffic : m.ch \notin failed' => m.ch \notin failed /\ ordered'[m.ch] = ordered[m.ch]
  BY TrafficShape, NowSlots DEF FailedNow
<1>2. ASSUME NEW h \in Handlers, Entering(h), handler[h].m.ch \notin failed'
      PROVE  /\ handler[h].m \in DOMAIN ActiveNow /\ ActiveNow[handler[h].m] = Fresh /\ Registered(h)
             /\ handler[h].m.ch \notin failed /\ ordered'[handler[h].m.ch] = ordered[handler[h].m.ch]
  <2> DEFINE m == handler[h].m
  <2>1. m \in Traffic
    BY <1>2 DEF Entering, Received, HandlersOK, HandlerShape
  <2>2. m.ch \notin failed /\ ordered'[m.ch] = ordered[m.ch] /\ m.ch \notin LateFails
    BY <1>1, <1>2, <2>1 DEF FailedNow
  <2>3. Registered(h) /\ m \in Active /\ active[m] = Fresh
    BY <1>2, <2>2 DEF Anchored, EnteringAlone, Registered
  <2>4. m \notin Late
    BY <2>3 DEF Late, Fresh
  <2> QED
    BY <2>2, <2>3, <2>4, NowShape DEF Received
<1> QED
  BY <1>1, <1>2

LEMMA NowAnchors ==
  ASSUME Received, Anchored, active' = ActiveNow, ordered' = OrderedNow, failed' = FailedNow,
         Known' \subseteq Known, UNCHANGED <<shown, completed>>,
         \A h \in Handlers : Entering(h)' => Entering(h) /\ handler'[h].m = handler[h].m
  PROVE  Anchored'
<1>1. SlotsSound'
  BY NowSlots DEF SlotsSound
<1>2. Active' \subseteq Active
  BY NowShape DEF Active, Received
<1>3. NeverBoth'
  BY <1>2 DEF Anchored, NeverBoth
<1>4. ShownIsGate'
  BY NowOthers DEF Anchored, ShownIsGate, Received, AckSound
<1>5. EnteringAlone'
  <2> SUFFICES ASSUME NEW h \in Handlers, Entering(h)' PROVE Registered(h)'
    BY DEF EnteringAlone
  <2>1. Entering(h) /\ handler'[h].m = handler[h].m
    OBVIOUS
  <2>2. Active' = DOMAIN ActiveNow
    BY DEF Active
  <2> QED
    BY <2>1, <2>2, NowOthers DEF Registered
<1>6. CompletedIsBehind'
  BY NowOthers DEF Anchored, CompletedIsBehind, Received, AckSound
<1> QED
  BY <1>1, <1>3, <1>4, <1>5, <1>6 DEF Anchored

\* Steps that leave the store alone and bring no receiver or ordered event.
LEMMA QuietAnchors ==
  ASSUME Received, Anchored, UNCHANGED <<active, ordered, failed, completed>>,
         Known' \subseteq Known, \A m \in shown' : Ordered(m) => m \in shown,
         \A h \in Handlers : Entering(h)' => Entering(h) /\ handler'[h].m = handler[h].m
  PROVE  Anchored'
<1>1. Active' = Active
  BY DEF Active
<1>2. SlotsSound' /\ NeverBoth' /\ ShownIsGate' /\ CompletedIsBehind'
  BY <1>1 DEF Anchored, SlotsSound, NeverBoth, ShownIsGate, CompletedIsBehind
<1>3. EnteringAlone'
  BY <1>1 DEF Anchored, EnteringAlone, Registered
<1> QED
  BY <1>2, <1>3 DEF Anchored

\* A new record enters the store for a message that nobody else carries.
LEMMA BeginNewAnchors ==
  ASSUME Received, Anchored, NEW h \in Handlers, handler[h] = Idle, NEW m \in Traffic, BeginNew(h, m)
  PROVE  Anchored'
<1>1. /\ m.ch \notin FailedNow /\ m \notin DOMAIN ActiveNow /\ m \notin Known
      /\ active' = Put(ActiveNow, m, Fresh) /\ ordered' = OrderedNow /\ failed' = FailedNow
      /\ UNCHANGED <<processed, completed>>
  BY DEF BeginNew
<1>2. /\ Active' = DOMAIN ActiveNow \cup {m} /\ active'[m] = Fresh
      /\ \A x \in DOMAIN ActiveNow : active'[x] = ActiveNow[x]
  BY <1>1 DEF Put, Active
<1>3. DOMAIN ActiveNow \subseteq Active /\ DOMAIN active' = Active'
  BY NowShape DEF Received, Active
<1>4. m.ch \in Channels /\ m # NoMessage
  BY TrafficShape
<1>5. SlotsSound'
  <2>1. SlotsOf(active', ordered')
    <3>1. \A x \in Active' : active'[x].state = "OrderedBuffered" => x \in ordered'[x.ch].buffer
      BY <1>1, <1>2, NowSlots DEF SlotsOf, Fresh
    <3>2. ASSUME NEW ch \in Channels, ordered'[ch].inFlight # NoMessage
          PROVE  /\ ordered'[ch].inFlight \in Active' /\ Ordered(ordered'[ch].inFlight)
                 /\ active'[ordered'[ch].inFlight].state = "InFlight"
      BY <1>1, <1>2, <3>2, NowSlots DEF SlotsOf
    <3>3. ASSUME NEW ch \in Channels, NEW x \in ordered'[ch].buffer
          PROVE  x \in Active' /\ Ordered(x) /\ active'[x].state = "OrderedBuffered"
      BY <1>1, <1>2, NowSlots DEF SlotsOf
    <3> QED
      BY <1>3, <3>1, <3>2, <3>3 DEF SlotsOf
  <2>2. TimedOf(active')
    BY <1>2, <1>3, NowSlots DEF TimedOf, Fresh
  <2>3. CleanOf(active', ordered', failed')
    BY <1>1, <1>2, <1>3, NowSlots DEF CleanOf
  <2> QED
    BY <2>1, <2>2, <2>3 DEF SlotsSound
<1>6. NeverBoth'
  BY <1>1, <1>2, <1>3 DEF Anchored, NeverBoth, Known
<1>7. ShownIsGate'
  <2>1. \A x \in shown' : Ordered(x) => x \in shown
    BY DEF BeginNew
  <2> QED
    BY <1>1, <2>1, NowOthers DEF Anchored, ShownIsGate, Received, AckSound
<1>8. CompletedIsBehind'
  BY <1>1, NowOthers DEF Anchored, CompletedIsBehind, Received, AckSound
<1>9. ~Entering(h)
  BY DEF Entering, Idle
<1>10. ASSUME NEW g \in Handlers, Entering(g) PROVE handler[g].m # m
  BY <1>1, <1>10, NowOthers
<1>11. /\ \A g \in Handlers \ {h} : handler'[g] = handler[g]
       /\ handler'[h].stage # "idle" => handler'[h].m = m
  BY DEF BeginNew, Wait, Received, HandlersOK, Idle
<1>12. EnteringAlone'
  <2> SUFFICES ASSUME NEW g \in Handlers, Entering(g)' PROVE Registered(g)'
    BY DEF EnteringAlone
  <2>1. CASE g = h
    <3>1. handler'[h].m = m
      BY <1>11, <2>1 DEF Entering
    <3>2. m \in Active' /\ active'[m] = Fresh
      BY <1>2
    <3>3. ordered'[m.ch].inFlight # m
      BY <1>1, <1>4, NowSlots DEF SlotsOf
    <3>4. \A f \in Handlers \ {h} : Entering(f)' => handler'[f].m # m
      BY <1>10, <1>11 DEF Entering
    <3> QED
      BY <2>1, <3>1, <3>2, <3>3, <3>4 DEF Registered
  <2>2. CASE g # h
    <3>1. Entering(g) /\ handler'[g] = handler[g] /\ handler[g].m # m
      BY <1>10, <1>11, <2>2 DEF Entering
    <3>2. CASE handler[g].m.ch \in failed'
      BY <3>1, <3>2 DEF Registered
    <3>3. CASE handler[g].m.ch \notin failed'
      <4>1. /\ handler[g].m \in DOMAIN ActiveNow /\ ActiveNow[handler[g].m] = Fresh /\ Registered(g)
            /\ handler[g].m.ch \notin failed /\ ordered'[handler[g].m.ch] = ordered[handler[g].m.ch]
        BY <1>1, <3>1, <3>3, NowOthers
      <4>2. handler[g].m \in Active' /\ active'[handler[g].m] = Fresh
        BY <1>2, <4>1
      <4>3. ordered'[handler[g].m.ch].inFlight # handler[g].m
        BY <4>1 DEF Registered
      <4>4. \A f \in Handlers \ {g} : Entering(f)' => handler'[f].m # handler[g].m
        <5> SUFFICES ASSUME NEW f \in Handlers \ {g}, Entering(f)' PROVE handler'[f].m # handler[g].m
          OBVIOUS
        <5>1. CASE f = h
          BY <1>11, <3>1, <5>1 DEF Entering
        <5>2. CASE f # h
          BY <1>11, <4>1, <5>2 DEF Entering, Registered
        <5> QED
          BY <5>1, <5>2
      <4> QED
        BY <3>1, <4>2, <4>3, <4>4 DEF Registered
    <3> QED
      BY <3>2, <3>3
  <2> QED
    BY <2>1, <2>2
<1> QED
  BY <1>5, <1>6, <1>7, <1>8, <1>12 DEF Anchored

\* The message of an entering receiver of a healthy channel is in no slot.
LEMMA EnteringFacts ==
  ASSUME Received, Anchored, NEW h \in Handlers, Entering(h), handler[h].m.ch \notin failed
  PROVE  LET m == handler[h].m IN
         /\ m \in Traffic /\ Ordered(m) /\ m \in Active /\ active[m] = Fresh /\ m \notin shown
         /\ \A ch \in Channels : ordered[ch].inFlight # m /\ m \notin ordered[ch].buffer
         /\ \A g \in Handlers \ {h} : Entering(g) => handler[g].m # m
<1> DEFINE m == handler[h].m
<1>1. m \in Traffic /\ Ordered(m) /\ m.ch \in Channels /\ m # NoMessage
  BY TrafficShape DEF Entering, Received, HandlersOK, HandlerShape
<1>2. Registered(h) /\ m \in Active /\ active[m] = Fresh /\ ordered[m.ch].inFlight # m
  BY DEF Anchored, EnteringAlone, Registered
<1>3. m \notin shown
  BY <1>1, <1>2 DEF Anchored, ShownIsGate
<1>4. \A ch \in Channels : m \notin ordered[ch].buffer
  BY <1>2 DEF Anchored, SlotsSound, SlotsOf, Fresh
<1>5. \A ch \in Channels : ordered[ch].inFlight # m
  BY <1>1, <1>2 DEF Received, Gates, GateOf
<1> QED
  BY <1>1, <1>2, <1>3, <1>4, <1>5 DEF Registered

LEMMA AcceptReadyAnchors ==
  ASSUME Received, Anchored, NEW h \in Handlers, AcceptReady(h)
  PROVE  Anchored'
<1> DEFINE m == handler[h].m
<1>1. /\ m.ch \notin failed /\ Entering(h) /\ UNCHANGED <<processed, failed, completed>>
      /\ m.seq = ordered[m.ch].expected /\ ordered[m.ch].inFlight = NoMessage
      /\ shown' = shown \cup {m}
  BY DEF AcceptReady, Entering, Insertable, InsertReady
<1>2. /\ m \in Traffic /\ Ordered(m) /\ m \in Active /\ active[m] = Fresh /\ m \notin shown
      /\ \A ch \in Channels : ordered[ch].inFlight # m /\ m \notin ordered[ch].buffer
      /\ \A g \in Handlers \ {h} : Entering(g) => handler[g].m # m
  BY <1>1, EnteringFacts
<1>3. m.ch \in Channels /\ m # NoMessage
  BY <1>2, TrafficShape
<1>4. active' = active /\ Active' = Active
  <2>1. active' = Put(active, m, Fresh)
    BY DEF AcceptReady
  <2>2. DOMAIN active \cup {m} = DOMAIN active /\ active = [x \in DOMAIN active |-> active[x]]
    BY <1>2 DEF Active, Received, StoreOK, ActiveTyped
  <2>3. active' = active
    BY <1>2, <2>1, <2>2 DEF Put
  <2> QED
    BY <2>3 DEF Active
<1>5. /\ ordered'[m.ch].inFlight = m /\ ordered'[m.ch].buffer = ordered[m.ch].buffer
      /\ ordered'[m.ch].expected = ordered[m.ch].expected
      /\ \A ch \in Channels \ {m.ch} : ordered'[ch] = ordered[ch]
  BY <1>3 DEF AcceptReady, Received, StoreOK, GateStates
<1>6. SlotsSound'
  <2>1. SlotsOf(active, ordered')
    <3>1. SlotsOf(active, ordered) /\ DOMAIN active = Active /\ \A x \in Active : x.ch \in Channels
      BY TrafficShape DEF Anchored, SlotsSound, Active, Received, StoreOK, ActiveTyped
    <3>2. \A ch \in Channels : ordered'[ch].buffer = ordered[ch].buffer
      BY <1>5
    <3>3. \A ch \in Channels : ordered'[ch].inFlight = ordered[ch].inFlight \/ ordered'[ch].inFlight = m
      BY <1>5
    <3> QED
      BY <1>2, <3>1, <3>2, <3>3 DEF SlotsOf, Fresh
  <2>2. CleanOf(active, ordered', failed)
    <3>1. CleanOf(active, ordered, failed) /\ failed \subseteq Channels
      BY DEF Anchored, SlotsSound, Received, StoreOK
    <3> QED
      BY <1>1, <1>5, <3>1 DEF CleanOf
  <2> QED
    BY <1>1, <1>4, <2>1, <2>2 DEF Anchored, SlotsSound
<1>7. NeverBoth'
  BY <1>1, <1>4 DEF Anchored, NeverBoth, Known
<1>8. ShownIsGate'
  <2>1. ASSUME NEW x \in shown, Ordered(x), x.ch \notin failed PROVE x.ch # m.ch /\ ordered'[x.ch].inFlight = x
    <3>1. ordered[x.ch].inFlight = x /\ x # NoMessage /\ x.ch \in Channels
      BY <2>1, TrafficShape DEF Anchored, ShownIsGate, Received, AckSound
    <3> QED
      BY <1>1, <1>5, <3>1
  <2>2. ASSUME NEW x \in shown', NEW y \in shown', Ordered(x), Ordered(y), x.ch = y.ch PROVE x = y
    BY <1>1, <2>1, <2>2 DEF Anchored, ShownIsGate
  <2>3. ASSUME NEW x \in shown', Ordered(x), x.ch \notin failed' PROVE ordered'[x.ch].inFlight = x
    BY <1>1, <1>5, <2>1, <2>3
  <2> QED
    BY <2>2, <2>3 DEF ShownIsGate
<1>9. CompletedIsBehind'
  <2>1. \A ch \in Channels : ordered'[ch].expected = ordered[ch].expected
    BY <1>5
  <2> QED
    BY <1>1, <2>1, TrafficShape DEF Anchored, CompletedIsBehind, Received, AckSound
<1>10. EnteringAlone'
  <2>1. handler'[h] = Idle /\ \A g \in Handlers \ {h} : handler'[g] = handler[g]
    BY DoneKeepsHandlers DEF AcceptReady, Received
  <2> SUFFICES ASSUME NEW g \in Handlers, Entering(g)' PROVE Registered(g)'
    BY DEF EnteringAlone
  <2>2. g # h /\ handler'[g] = handler[g] /\ Entering(g)
    BY <2>1 DEF Entering, Idle
  <2>3. Registered(g) /\ handler[g].m # m /\ handler[g].m \in Traffic
    BY <1>2, <2>2 DEF Anchored, EnteringAlone, Received, HandlersOK, HandlerShape, Entering
  <2>4. handler[g].m.ch \notin failed => ordered'[handler[g].m.ch].inFlight # handler[g].m
    BY <1>5, <2>3, TrafficShape DEF Registered
  <2>5. \A f \in Handlers : Entering(f)' => Entering(f) /\ handler'[f] = handler[f]
    BY <2>1 DEF Entering, Idle
  <2> QED
    BY <1>1, <1>4, <2>2, <2>3, <2>4, <2>5 DEF Registered
<1> QED
  BY <1>6, <1>7, <1>8, <1>9, <1>10 DEF Anchored

LEMMA AcceptBufferedAnchors ==
  ASSUME Received, Anchored, NEW h \in Handlers, AcceptBuffered(h)
  PROVE  Anchored'
<1> DEFINE m == handler[h].m
<1>1. /\ m.ch \notin failed /\ Entering(h) /\ UNCHANGED <<processed, failed, shown, completed>>
  BY DEF AcceptBuffered, Entering, Insertable
<1>2. /\ m \in Traffic /\ Ordered(m) /\ m \in Active /\ active[m] = Fresh /\ m \notin shown
      /\ \A ch \in Channels : ordered[ch].inFlight # m /\ m \notin ordered[ch].buffer
      /\ \A g \in Handlers \ {h} : Entering(g) => handler[g].m # m
  BY <1>1, EnteringFacts
<1>3. m.ch \in Channels
  BY <1>2, TrafficShape
<1>4. /\ Active' = Active /\ active'[m] = Held /\ \A x \in Active \ {m} : active'[x] = active[x]
  BY <1>2 DEF AcceptBuffered, Put, Active
<1>5. /\ ordered'[m.ch].inFlight = ordered[m.ch].inFlight
      /\ ordered'[m.ch].buffer = ordered[m.ch].buffer \cup {m}
      /\ ordered'[m.ch].expected = ordered[m.ch].expected
      /\ \A ch \in Channels \ {m.ch} : ordered'[ch] = ordered[ch]
  BY <1>3 DEF AcceptBuffered, Received, StoreOK, GateStates
<1>6. /\ SlotsOf(active, ordered) /\ TimedOf(active) /\ CleanOf(active, ordered, failed)
      /\ DOMAIN active = Active /\ DOMAIN active' = Active /\ \A x \in Active : x.ch \in Channels
  BY <1>4, TrafficShape DEF Anchored, SlotsSound, Active, Received, StoreOK, ActiveTyped
<1>7. SlotsSound'
  <2>1. ASSUME NEW x \in Active, active'[x].state = "OrderedBuffered" PROVE x \in ordered'[x.ch].buffer
    BY <1>4, <1>5, <1>6, <2>1 DEF SlotsOf
  <2>2. ASSUME NEW ch \in Channels, ordered'[ch].inFlight # NoMessage
        PROVE  /\ ordered'[ch].inFlight \in Active /\ Ordered(ordered'[ch].inFlight)
               /\ active'[ordered'[ch].inFlight].state = "InFlight"
    <3>1. ordered'[ch].inFlight = ordered[ch].inFlight
      BY <1>5
    <3> QED
      BY <1>2, <1>4, <1>6, <2>2, <3>1 DEF SlotsOf
  <2>3. ASSUME NEW ch \in Channels, NEW x \in ordered'[ch].buffer
        PROVE  x \in Active /\ Ordered(x) /\ active'[x].state = "OrderedBuffered"
    BY <1>2, <1>4, <1>5, <1>6 DEF SlotsOf, Held
  <2>4. SlotsOf(active', ordered')
    BY <1>6, <2>1, <2>2, <2>3 DEF SlotsOf
  <2>5. TimedOf(active')
    BY <1>4, <1>6 DEF TimedOf, Held
  <2>6. CleanOf(active', ordered', failed')
    <3>1. failed \subseteq Channels
      BY DEF Received, StoreOK
    <3> QED
      BY <1>1, <1>5, <1>6, <3>1 DEF CleanOf
  <2> QED
    BY <2>4, <2>5, <2>6 DEF SlotsSound
<1>8. NeverBoth'
  BY <1>1, <1>4 DEF Anchored, NeverBoth, Known
<1>9. ShownIsGate' /\ CompletedIsBehind'
  <2>1. \A ch \in Channels : /\ ordered'[ch].expected = ordered[ch].expected
                             /\ ordered'[ch].inFlight = ordered[ch].inFlight
    BY <1>5
  <2>2. ShownIsGate'
    BY <1>1, <2>1, TrafficShape DEF Anchored, ShownIsGate, Received, AckSound
  <2>3. CompletedIsBehind'
    BY <1>1, <2>1, TrafficShape DEF Anchored, CompletedIsBehind, Received, AckSound
  <2> QED
    BY <2>2, <2>3
<1>10. EnteringAlone'
  <2>1. handler'[h] = Idle /\ \A g \in Handlers \ {h} : handler'[g] = handler[g]
    BY DoneKeepsHandlers DEF AcceptBuffered, Received
  <2> SUFFICES ASSUME NEW g \in Handlers, Entering(g)' PROVE Registered(g)'
    BY DEF EnteringAlone
  <2>2. g # h /\ handler'[g] = handler[g] /\ Entering(g)
    BY <2>1 DEF Entering, Idle
  <2>3. Registered(g) /\ handler[g].m # m /\ handler[g].m \in Traffic
    BY <1>2, <2>2 DEF Anchored, EnteringAlone, Received, HandlersOK, HandlerShape, Entering
  <2>4. ordered'[handler[g].m.ch].inFlight = ordered[handler[g].m.ch].inFlight
    BY <1>5, <2>3, TrafficShape
  <2>5. \A f \in Handlers : Entering(f)' => Entering(f) /\ handler'[f] = handler[f]
    BY <2>1 DEF Entering, Idle
  <2> QED
    BY <1>1, <1>4, <2>2, <2>3, <2>4, <2>5 DEF Registered
<1> QED
  BY <1>7, <1>8, <1>9, <1>10 DEF Anchored

\* A record that sits in no slot may be dropped.
LEMMA DropAnchors ==
  ASSUME Received, Anchored, NEW m, active' = Drop(active, {m}),
         UNCHANGED <<processed, ordered, failed, shown, completed>>,
         \A ch \in Channels : ordered[ch].inFlight # m /\ m \notin ordered[ch].buffer,
         \A h \in Handlers : Entering(h)' =>
           Entering(h) /\ handler'[h] = handler[h] /\ (handler[h].m # m \/ handler[h].m.ch \in failed)
  PROVE  Anchored'
<1>1. Active' = Active \ {m} /\ \A x \in Active' : active'[x] = active[x]
  BY DropTyped DEF Received, StoreOK
<1>2. Active' = DOMAIN active' /\ Active = DOMAIN active
  BY DEF Active
<1>3. SlotsSound'
  <2>1. SlotsOf(active, ordered) /\ TimedOf(active) /\ CleanOf(active, ordered, failed)
    BY DEF Anchored, SlotsSound
  <2>2. SlotsOf(active', ordered)
    <3>1. \A x \in Active' : active'[x].state = "OrderedBuffered" => x \in ordered[x.ch].buffer
      BY <1>1, <1>2, <2>1 DEF SlotsOf
    <3>2. ASSUME NEW ch \in Channels, ordered[ch].inFlight # NoMessage
          PROVE  /\ ordered[ch].inFlight \in Active' /\ Ordered(ordered[ch].inFlight)
                 /\ active'[ordered[ch].inFlight].state = "InFlight"
      <4> DEFINE x == ordered[ch].inFlight
      <4>1. x \in Active /\ Ordered(x) /\ active[x].state = "InFlight"
        BY <1>2, <2>1, <3>2 DEF SlotsOf
      <4>2. x # m
        OBVIOUS
      <4> QED
        BY <1>1, <4>1, <4>2
    <3>3. ASSUME NEW ch \in Channels, NEW x \in ordered[ch].buffer
          PROVE  x \in Active' /\ Ordered(x) /\ active'[x].state = "OrderedBuffered"
      <4>1. x \in Active /\ Ordered(x) /\ active[x].state = "OrderedBuffered"
        BY <1>2, <2>1 DEF SlotsOf
      <4>2. x # m
        OBVIOUS
      <4> QED
        BY <1>1, <4>1, <4>2
    <3> QED
      BY <1>2, <3>1, <3>2, <3>3 DEF SlotsOf
  <2>3. TimedOf(active')
    BY <1>1, <1>2, <2>1 DEF TimedOf
  <2>4. CleanOf(active', ordered, failed)
    BY <1>1, <1>2, <2>1 DEF CleanOf
  <2> QED
    BY <2>2, <2>3, <2>4 DEF SlotsSound
<1>4. NeverBoth' /\ ShownIsGate' /\ CompletedIsBehind'
  BY <1>1 DEF Anchored, NeverBoth, Known, ShownIsGate, CompletedIsBehind
<1>5. EnteringAlone'
  BY <1>1 DEF Anchored, EnteringAlone, Registered
<1> QED
  BY <1>3, <1>4, <1>5 DEF Anchored

LEMMA RejectAnchors ==
  ASSUME Received, Anchored, NEW h \in Handlers, RejectIncoming(h)
  PROVE  Anchored'
<1> DEFINE m == handler[h].m
<1>1. /\ active' = Drop(active, {m}) /\ Entering(h)
      /\ UNCHANGED <<processed, ordered, failed, shown, completed>>
  BY DEF RejectIncoming, Entering
<1>2. handler'[h] = Idle /\ \A g \in Handlers \ {h} : handler'[g] = handler[g]
  BY DoneKeepsHandlers DEF RejectIncoming, Received
<1>3. \A f \in Handlers : Entering(f)' => f # h /\ Entering(f) /\ handler'[f] = handler[f]
  BY <1>2 DEF Entering, Idle
<1>4. CASE m.ch \notin failed
  <2>1. /\ \A ch \in Channels : ordered[ch].inFlight # m /\ m \notin ordered[ch].buffer
        /\ \A g \in Handlers \ {h} : Entering(g) => handler[g].m # m
    BY <1>1, <1>4, EnteringFacts
  <2> QED
    BY <1>1, <1>3, <2>1, DropAnchors
<1>5. CASE m.ch \in failed
  <2>1. m \notin Active
    BY <1>5 DEF Anchored, SlotsSound, CleanOf, Active
  <2>2. active' = active
    BY <1>1, <2>1 DEF Drop, Active, Received, StoreOK, ActiveTyped
  <2>3. \A ch \in Channels : ordered[ch].inFlight # m /\ m \notin ordered[ch].buffer
    <3>1. m # NoMessage
      BY <1>1, TrafficShape DEF Entering, Received, HandlersOK, HandlerShape
    <3> QED
      BY <2>1, <3>1 DEF Anchored, SlotsSound, SlotsOf, Active
  <2> QED
    BY <1>1, <1>3, <1>5, <2>3, DropAnchors
<1> QED
  BY <1>4, <1>5

\* An arrival that is dropped, already processed or not a matter of the store.
LEMMA ArrivalAnchors ==
  ASSUME Received, Anchored, NEW h \in Handlers, NEW m \in Traffic, Receive(h, m)
  PROVE  Anchored'
<1>1. CASE ReceiveBestEffort(h, m)
  <2>1. \A x \in shown' : Ordered(x) => x \in shown
    BY <1>1 DEF ReceiveBestEffort, Ordered
  <2>2. UNCHANGED <<active, processed, ordered, failed, completed, handler>>
    BY <1>1 DEF ReceiveBestEffort, incoming
  <2>3. Known' = Known /\ \A g \in Handlers : Entering(g)' = Entering(g)
    BY <2>2 DEF Known, Entering
  <2> QED
    BY <2>1, <2>2, <2>3, QuietAnchors
<1>2. CASE BeginDropped(h, m)
  <2>1. /\ active' = ActiveNow /\ ordered' = OrderedNow /\ failed' = FailedNow
        /\ UNCHANGED <<processed, handler, shown, completed>>
    BY <1>2 DEF BeginDropped
  <2>2. Known' = Known /\ \A g \in Handlers : Entering(g)' = Entering(g)
    BY <2>1 DEF Known, Entering
  <2> QED
    BY <2>1, <2>2, NowAnchors
<1>3. CASE BeginProcessed(h, m)
  <2>1. /\ active' = ActiveNow /\ ordered' = OrderedNow /\ failed' = FailedNow
        /\ processed' = Seen(m) /\ m \in Known
        /\ UNCHANGED <<shown, completed>>
    BY <1>3 DEF BeginProcessed
  <2>2. Known' \subseteq Known
    BY <2>1, SeenProperties DEF Known, Received, AckSound
  <2>3. \A g \in Handlers : Entering(g)' => Entering(g) /\ handler'[g].m = handler[g].m
    BY <1>3 DEF BeginProcessed, Wait, Entering, Received, HandlersOK
  <2> QED
    BY <2>1, <2>2, <2>3, NowAnchors
<1>4. CASE BeginNew(h, m)
  BY <1>4, BeginNewAnchors DEF Receive
<1> QED
  BY <1>1, <1>2, <1>3, <1>4 DEF Receive

LEMMA HandlerAnchors ==
  ASSUME Received, Anchored, NEW h \in Handlers, HandlerStep(h) \/ CancelHandler(h)
  PROVE  Anchored'
<1>1. ASSUME AcceptRefused(h) \/ Reack(h) \/ CancelHandler(h) PROVE Anchored'
  <2>1. UNCHANGED <<active, processed, ordered, failed, completed, shown>>
    BY <1>1 DEF AcceptRefused, Reack, CancelHandler, incoming
  <2>2. /\ handler'[h] = Idle \/ (Entering(h) /\ handler'[h].m = handler[h].m)
        /\ \A g \in Handlers \ {h} : handler'[g] = handler[g]
    BY <1>1 DEF AcceptRefused, Reack, CancelHandler, Wait, Done, Entering, Received, HandlersOK
  <2>3. \A g \in Handlers : Entering(g)' => Entering(g) /\ handler'[g].m = handler[g].m
    BY <2>2 DEF Entering, Idle
  <2>4. Known' = Known
    BY <2>1 DEF Known
  <2> QED
    BY <2>1, <2>3, <2>4, QuietAnchors
<1> QED
  BY <1>1, AcceptReadyAnchors, AcceptBufferedAnchors, RejectAnchors DEF HandlerStep

\* An ordered event the application still works on is the gate's, if its record lives.
LEMMA ShownFacts ==
  ASSUME Received, Anchored, NEW m \in Active \cap shown
  PROVE  /\ m \in Traffic /\ m.ch \in Channels /\ m # NoMessage /\ m.ch \notin failed
         /\ Ordered(m) => ordered[m.ch].inFlight = m
         /\ \A ch \in Channels : ordered[ch].inFlight = m => ch = m.ch /\ Ordered(m)
         /\ \A ch \in Channels : m \notin ordered[ch].buffer
         /\ \A h \in Handlers : Entering(h) => handler[h].m # m
<1>1. m \in Traffic /\ m.ch \in Channels /\ m # NoMessage
  BY TrafficShape DEF Received, StoreOK, ActiveTyped
<1>2. m.ch \notin failed
  BY DEF Anchored, SlotsSound, CleanOf, Active
<1>3. Ordered(m) => ordered[m.ch].inFlight = m
  BY <1>2 DEF Anchored, ShownIsGate
<1>4. \A ch \in Channels : ordered[ch].inFlight = m => ch = m.ch /\ Ordered(m)
  BY <1>1 DEF Anchored, SlotsSound, SlotsOf, Received, Gates, GateOf
<1>5. ASSUME NEW ch \in Channels, m \in ordered[ch].buffer PROVE FALSE
  <2>1. Ordered(m) /\ active[m].state = "OrderedBuffered" /\ m.ch = ch
    BY <1>5 DEF Anchored, SlotsSound, SlotsOf, Received, Gates, GateOf
  <2>2. active[m].state = "InFlight"
    BY <1>1, <1>3, <2>1 DEF Anchored, SlotsSound, SlotsOf
  <2> QED
    BY <2>1, <2>2
<1>6. \A h \in Handlers : Entering(h) => handler[h].m # m
  BY <1>2, EnteringFacts
<1> QED
  BY <1>1, <1>2, <1>3, <1>4, <1>5, <1>6

\* The anchor moves past what is completed, and the released message takes the gate.
LEMMA CompleteAnchors ==
  ASSUME Received, Anchored, NEW m \in shown, CompleteIncoming(m)
  PROVE  Anchored'
<1> DEFINE o == ordered[m.ch]
           R == Released(m)
<1>1. m \in Active \cap shown
  BY DEF CompleteIncoming, MayComplete
<1>2. /\ Active' = Active \ {m}
      /\ \A x \in Active' : active'[x] = IF x \in R THEN Fresh ELSE active[x]
      /\ \A ch \in Channels \ {m.ch} : ordered'[ch] = ordered[ch]
      /\ \/ o.inFlight # m /\ ordered' = ordered /\ R = {}
         \/ /\ o.inFlight = m /\ R = {x \in o.buffer : x.seq = o.expected + 1}
            /\ ordered'[m.ch] = Advance(o, R)
  BY <1>1, CompleteShape
<1>3. /\ m \in Traffic /\ m.ch \in Channels /\ m # NoMessage /\ m.ch \notin failed
      /\ Ordered(m) => o.inFlight = m
      /\ \A ch \in Channels : ordered[ch].inFlight = m => ch = m.ch /\ Ordered(m)
      /\ \A ch \in Channels : m \notin ordered[ch].buffer
      /\ \A h \in Handlers : Entering(h) => handler[h].m # m
  BY <1>1, ShownFacts
<1>4. /\ UNCHANGED <<failed, handler>> /\ shown' = (shown \ {m}) \cup R
      /\ completed' = completed \cup {m} /\ processed' = Remember(m)
  BY DEF CompleteIncoming
<1>5. /\ SlotsOf(active, ordered) /\ TimedOf(active) /\ CleanOf(active, ordered, failed)
      /\ DOMAIN active = Active /\ DOMAIN active' = Active' /\ \A x \in Active : x.ch \in Channels
  BY TrafficShape DEF Anchored, SlotsSound, Active, Received, StoreOK, ActiveTyped
<1>6. NeverBoth'
  <2>1. Known' \subseteq Known \cup {m}
    BY <1>3, <1>4, RememberProperties DEF Known, Received, AckSound
  <2> QED
    BY <1>2, <2>1 DEF Anchored, NeverBoth
<1>7. CASE o.inFlight # m
  <2>1. ordered' = ordered /\ R = {} /\ ~Ordered(m)
    BY <1>2, <1>3, <1>7
  <2>2. \A x \in Active' : x \in Active /\ active'[x] = active[x]
    BY <1>2, <2>1
  <2>3. \A ch \in Channels : ordered[ch].inFlight # m
    BY <1>3, <2>1
  <2>4. SlotsSound'
    <3>1. SlotsOf(active', ordered)
      <4>1. \A x \in Active' : active'[x].state = "OrderedBuffered" => x \in ordered[x.ch].buffer
        BY <1>5, <2>2 DEF SlotsOf
      <4>2. ASSUME NEW ch \in Channels, ordered[ch].inFlight # NoMessage
            PROVE  /\ ordered[ch].inFlight \in Active' /\ Ordered(ordered[ch].inFlight)
                   /\ active'[ordered[ch].inFlight].state = "InFlight"
        BY <1>2, <1>5, <2>2, <2>3, <4>2 DEF SlotsOf
      <4>3. ASSUME NEW ch \in Channels, NEW x \in ordered[ch].buffer
            PROVE  x \in Active' /\ Ordered(x) /\ active'[x].state = "OrderedBuffered"
        BY <1>2, <1>3, <1>5, <2>2 DEF SlotsOf
      <4> QED
        BY <1>5, <4>1, <4>2, <4>3 DEF SlotsOf
    <3>2. TimedOf(active')
      BY <1>5, <2>2 DEF TimedOf
    <3>3. CleanOf(active', ordered, failed)
      BY <1>5, <2>2 DEF CleanOf
    <3> QED
      BY <1>4, <2>1, <3>1, <3>2, <3>3 DEF SlotsSound
  <2>5. ShownIsGate' /\ CompletedIsBehind'
    BY <1>4, <2>1 DEF Anchored, ShownIsGate, CompletedIsBehind
  <2>6. EnteringAlone'
    BY <1>2, <1>3, <1>4, <2>1, <2>2 DEF Anchored, EnteringAlone, Registered, Entering
  <2> QED
    BY <1>6, <2>4, <2>5, <2>6 DEF Anchored
<1>8. CASE o.inFlight = m
  <2>1. R = {x \in o.buffer : x.seq = o.expected + 1} /\ ordered'[m.ch] = Advance(o, R)
    BY <1>2, <1>8
  <2>2. o \in GateStates /\ GateOf(o, m.ch)
    BY <1>3 DEF Received, StoreOK, Gates
  <2>3. /\ \/ R = {} /\ ordered'[m.ch].inFlight = NoMessage
           \/ \E x \in R : R = {x} /\ ordered'[m.ch].inFlight = x
        /\ ordered'[m.ch].expected = o.expected + 1 /\ ordered'[m.ch].buffer = o.buffer \ R
    BY <1>3, <2>1, <2>2, AdvanceGate
  <2>4. Ordered(m) /\ m.seq = o.expected /\ m.seq \in Nat
    BY <1>3, <1>8, <2>2, TrafficShape DEF GateOf
  <2>5. /\ \A x \in R : x \in o.buffer /\ x.ch = m.ch /\ x \in Active' /\ Ordered(x) /\ x # m
        /\ \A x \in R : x # NoMessage
    <3>1. \A x \in R : x \in o.buffer /\ x.ch = m.ch
      BY <2>1, <2>2 DEF GateOf
    <3>2. \A x \in R : x \in Active /\ Ordered(x) /\ x # m
      BY <1>3, <1>5, <3>1 DEF SlotsOf
    <3>3. \A x \in R : x # NoMessage
      BY <3>2, TrafficShape DEF Received, StoreOK, ActiveTyped
    <3> QED
      BY <1>2, <3>1, <3>2, <3>3
  <2>6. SlotsSound'
    <3>1. ASSUME NEW x \in Active', active'[x].state = "OrderedBuffered" PROVE x \in ordered'[x.ch].buffer
      <4>1. x \notin R /\ active'[x] = active[x] /\ x \in Active
        BY <1>2, <3>1 DEF Fresh
      <4>2. x \in ordered[x.ch].buffer /\ x.ch \in Channels
        BY <1>5, <3>1, <4>1 DEF SlotsOf
      <4> QED
        BY <1>2, <2>3, <4>1, <4>2
    <3>2. ASSUME NEW ch \in Channels, ordered'[ch].inFlight # NoMessage
          PROVE  /\ ordered'[ch].inFlight \in Active' /\ Ordered(ordered'[ch].inFlight)
                 /\ active'[ordered'[ch].inFlight].state = "InFlight"
      <4>1. CASE ch = m.ch
        <5>1. ordered'[ch].inFlight \in R
          BY <2>3, <3>2, <4>1
        <5> QED
          BY <1>2, <2>5, <5>1 DEF Fresh
      <4>2. CASE ch # m.ch
        <5> DEFINE x == ordered[ch].inFlight
        <5>1. ordered'[ch].inFlight = x /\ x # m /\ x # NoMessage
          BY <1>2, <1>3, <3>2, <4>2
        <5>2. x \in Active /\ Ordered(x) /\ active[x].state = "InFlight"
          BY <1>5, <5>1 DEF SlotsOf
        <5>3. x \in Active' /\ x \notin R
          BY <1>2, <2>5, <5>1, <5>2, <1>5, <1>3 DEF SlotsOf
        <5> QED
          BY <1>2, <5>1, <5>2, <5>3
      <4> QED
        BY <4>1, <4>2
    <3>3. ASSUME NEW ch \in Channels, NEW x \in ordered'[ch].buffer
          PROVE  x \in Active' /\ Ordered(x) /\ active'[x].state = "OrderedBuffered"
      <4>1. x \in ordered[ch].buffer /\ x \notin R /\ x # m
        <5>1. CASE ch = m.ch
          BY <1>3, <2>3, <5>1
        <5>2. CASE ch # m.ch
          <6>1. x \in ordered[ch].buffer /\ x.ch = ch
            BY <1>2, <5>2 DEF Received, Gates, GateOf
          <6> QED
            BY <1>3, <2>5, <5>2, <6>1
        <5> QED
          BY <5>1, <5>2
      <4>2. x \in Active /\ Ordered(x) /\ active[x].state = "OrderedBuffered"
        BY <1>5, <4>1 DEF SlotsOf
      <4> QED
        BY <1>2, <4>1, <4>2
    <3>4. SlotsOf(active', ordered')
      BY <1>5, <3>1, <3>2, <3>3 DEF SlotsOf
    <3>5. TimedOf(active')
      BY <1>2, <1>5 DEF TimedOf, Fresh
    <3>6. CleanOf(active', ordered', failed')
      <4>1. failed \subseteq Channels
        BY DEF Received, StoreOK
      <4> QED
        BY <1>2, <1>3, <1>4, <1>5, <4>1 DEF CleanOf
    <3> QED
      BY <3>4, <3>5, <3>6 DEF SlotsSound
  <2>7. ShownIsGate'
    <3>1. \A x \in shown' : Ordered(x) /\ x.ch = m.ch => x \in R
      BY <1>4, <2>4 DEF Anchored, ShownIsGate
    <3>2. \A x \in shown' : Ordered(x) /\ x.ch # m.ch => x \in shown /\ ordered'[x.ch] = ordered[x.ch]
      BY <1>2, <1>4, <2>5, TrafficShape DEF Received, AckSound
    <3>3. \A x \in R : ordered'[x.ch].inFlight = x
      BY <2>3, <2>5
    <3>4. \A x, y \in R : x = y
      BY <2>3
    <3>5. ASSUME NEW x \in shown', Ordered(x), x.ch \notin failed' PROVE ordered'[x.ch].inFlight = x
      <4>1. CASE x.ch = m.ch
        BY <3>1, <3>3, <3>5, <4>1
      <4>2. CASE x.ch # m.ch
        BY <1>4, <3>2, <3>5, <4>2 DEF Anchored, ShownIsGate
      <4> QED
        BY <4>1, <4>2
    <3>6. ASSUME NEW x \in shown', NEW y \in shown', Ordered(x), Ordered(y), x.ch = y.ch PROVE x = y
      <4>1. CASE x.ch = m.ch
        BY <3>1, <3>4, <3>6, <4>1
      <4>2. CASE x.ch # m.ch
        BY <3>2, <3>6, <4>2 DEF Anchored, ShownIsGate
      <4> QED
        BY <4>1, <4>2
    <3> QED
      BY <3>5, <3>6 DEF ShownIsGate
  <2>8. CompletedIsBehind'
    <3> SUFFICES ASSUME NEW x \in completed', Ordered(x), x.ch \notin failed
                 PROVE  x.seq < ordered'[x.ch].expected
      BY <1>4 DEF CompletedIsBehind
    <3>1. x \in Traffic /\ x.ch \in Channels /\ x.seq \in Nat /\ o.expected \in Nat
      BY <1>3, <1>4, <2>2, TrafficShape DEF Received, AckSound, GateStates
    <3>2. CASE x = m
      BY <2>3, <2>4, <3>1, <3>2
    <3>3. CASE x # m
      <4>1. x.seq < ordered[x.ch].expected
        BY <1>4, <3>3 DEF Anchored, CompletedIsBehind
      <4>2. CASE x.ch = m.ch
        BY <2>3, <3>1, <4>1, <4>2
      <4>3. CASE x.ch # m.ch
        BY <1>2, <3>1, <4>1, <4>3
      <4> QED
        BY <4>2, <4>3
    <3> QED
      BY <3>2, <3>3
  <2>9. EnteringAlone'
    <3> SUFFICES ASSUME NEW h \in Handlers, Entering(h), handler[h].m.ch \notin failed
                 PROVE  /\ handler[h].m \in Active' /\ active'[handler[h].m] = Fresh
                        /\ ordered'[handler[h].m.ch].inFlight # handler[h].m
      BY <1>4 DEF Anchored, EnteringAlone, Registered, Entering
    <3> DEFINE n == handler[h].m
    <3>1. /\ n \in Active /\ active[n] = Fresh /\ n \in Traffic /\ n # m
          /\ \A ch \in Channels : ordered[ch].inFlight # n /\ n \notin ordered[ch].buffer
      BY <1>3, EnteringFacts
    <3>2. n \notin R /\ n.ch \in Channels /\ n # NoMessage
      BY <1>3, <2>5, <3>1, TrafficShape
    <3>3. ordered'[n.ch].inFlight # n
      BY <1>2, <2>3, <3>1, <3>2
    <3> QED
      BY <1>2, <3>1, <3>2, <3>3
  <2> QED
    BY <1>6, <2>6, <2>7, <2>8, <2>9 DEF Anchored
<1> QED
  BY <1>7, <1>8

\* The application's other calls and the clock.
LEMMA OthersAnchor ==
  ASSUME Received, Anchored,
         \/ \E m \in shown : CompleteUnknown(m)
         \/ \E m \in Active : AbandonIncoming(m) \/ DeadlineElapses(m)
         \/ ExpireIncoming \/ DedupExpires \/ UNCHANGED receiving
  PROVE  Anchored'
<1>1. ASSUME NEW m \in shown, CompleteUnknown(m) PROVE Anchored'
  <2>1. UNCHANGED <<active, processed, ordered, failed, completed, handler>> /\ shown' \subseteq shown
    BY <1>1 DEF CompleteUnknown, incoming
  <2>2. Known' = Known /\ \A g \in Handlers : Entering(g)' = Entering(g)
    BY <2>1 DEF Known, Entering
  <2> QED
    BY <2>1, <2>2, QuietAnchors
<1>2. ASSUME NEW m \in Active, AbandonIncoming(m) PROVE Anchored'
  <2>1. UNCHANGED <<processed, handler, shown, completed>> /\ m \in Active \cap shown
    BY <1>2 DEF AbandonIncoming
  <2>2. Known' = Known /\ \A g \in Handlers : Entering(g)' = Entering(g)
    BY <2>1 DEF Known, Entering
  <2>3. /\ m \in Traffic /\ m.ch \in Channels /\ m.ch \notin failed
        /\ Ordered(m) => ordered[m.ch].inFlight = m
        /\ \A ch \in Channels : ordered[ch].inFlight = m => ch = m.ch
        /\ \A ch \in Channels : m \notin ordered[ch].buffer
        /\ \A h \in Handlers : Entering(h) => handler[h].m # m
    BY <2>1, ShownFacts
  <2>4. CASE ordered[m.ch].inFlight = m \/ m \in ordered[m.ch].buffer
    <3>1. /\ active' = FailActive(active, {m.ch}) /\ ordered' = FailOrdered({m.ch})
          /\ failed' = failed \cup {m.ch}
      BY <1>2, <2>4 DEF AbandonIncoming
    <3>2. /\ Active' = {x \in Active : x.ch # m.ch} /\ \A x \in Active' : active'[x] = active[x]
      BY <3>1 DEF FailActive, Drop, Active
    <3>3. \A ch \in Channels : ordered'[ch] = IF ch = m.ch THEN Default ELSE ordered[ch]
      BY <3>1 DEF FailOrdered
    <3>4. Default.inFlight = NoMessage /\ Default.buffer = {}
      BY DEF Default
    <3>5. /\ SlotsOf(active, ordered) /\ TimedOf(active) /\ CleanOf(active, ordered, failed)
          /\ DOMAIN active = Active /\ DOMAIN active' = Active' /\ \A x \in Active : x.ch \in Channels
      BY TrafficShape DEF Anchored, SlotsSound, Active, Received, StoreOK, ActiveTyped
    <3>6. SlotsSound'
      <4>1. ASSUME NEW x \in Active', active'[x].state = "OrderedBuffered" PROVE x \in ordered'[x.ch].buffer
        BY <3>2, <3>3, <3>5, <4>1 DEF SlotsOf
      <4>2. ASSUME NEW ch \in Channels, ordered'[ch].inFlight # NoMessage
            PROVE  /\ ordered'[ch].inFlight \in Active' /\ Ordered(ordered'[ch].inFlight)
                   /\ active'[ordered'[ch].inFlight].state = "InFlight"
        <5>1. ch # m.ch /\ ordered'[ch] = ordered[ch]
          BY <3>3, <3>4, <4>2
        <5>2. ordered[ch].inFlight.ch = ch
          BY <4>2, <5>1 DEF Received, Gates, GateOf
        <5> QED
          BY <3>2, <3>5, <4>2, <5>1, <5>2 DEF SlotsOf
      <4>3. ASSUME NEW ch \in Channels, NEW x \in ordered'[ch].buffer
            PROVE  x \in Active' /\ Ordered(x) /\ active'[x].state = "OrderedBuffered"
        <5>1. ch # m.ch /\ ordered'[ch] = ordered[ch]
          BY <3>3, <3>4
        <5>2. x.ch = ch
          BY <5>1 DEF Received, Gates, GateOf
        <5> QED
          BY <3>2, <3>5, <5>1, <5>2 DEF SlotsOf
      <4>4. SlotsOf(active', ordered')
        BY <3>5, <4>1, <4>2, <4>3 DEF SlotsOf
      <4>5. TimedOf(active')
        BY <3>2, <3>5 DEF TimedOf
      <4>6. CleanOf(active', ordered', failed')
        <5>1. failed \subseteq Channels
          BY DEF Received, StoreOK
        <5> QED
          BY <2>3, <3>1, <3>2, <3>3, <3>5, <5>1 DEF CleanOf
      <4> QED
        BY <4>4, <4>5, <4>6 DEF SlotsSound
    <3>7. NeverBoth'
      BY <2>2, <3>2 DEF Anchored, NeverBoth
    <3>8. \A x \in Traffic : x.ch \notin failed' => x.ch \notin failed /\ x.ch # m.ch /\ ordered'[x.ch] = ordered[x.ch]
      BY <3>1, <3>3, TrafficShape
    <3>9. ShownIsGate' /\ CompletedIsBehind'
      BY <2>1, <3>8 DEF Anchored, ShownIsGate, CompletedIsBehind, Received, AckSound
    <3>10. EnteringAlone'
      <4> SUFFICES ASSUME NEW h \in Handlers, Entering(h), handler[h].m.ch \notin failed'
                   PROVE  Registered(h)'
        BY <2>1, <2>2 DEF EnteringAlone, Registered
      <4>1. handler[h].m \in Traffic
        BY DEF Received, HandlersOK, HandlerShape, Entering
      <4>2. Registered(h) /\ handler[h].m.ch \notin failed /\ handler[h].m.ch # m.ch
        BY <3>8, <4>1 DEF Anchored, EnteringAlone
      <4>3. ordered'[handler[h].m.ch] = ordered[handler[h].m.ch]
        BY <3>8, <4>1
      <4>4. handler[h].m \in Active' /\ active'[handler[h].m] = Fresh
        BY <3>2, <4>2 DEF Registered
      <4> QED
        BY <2>1, <2>2, <4>2, <4>3, <4>4 DEF Registered
    <3> QED
      BY <3>6, <3>7, <3>9, <3>10 DEF Anchored
  <2>5. CASE ~(ordered[m.ch].inFlight = m \/ m \in ordered[m.ch].buffer)
    <3>1. active' = Drop(active, {m}) /\ UNCHANGED <<ordered, failed>>
      BY <1>2, <2>5 DEF AbandonIncoming
    <3>2. \A ch \in Channels : ordered[ch].inFlight # m
      BY <2>3, <2>5
    <3> QED
      BY <2>1, <2>2, <2>3, <3>1, <3>2, DropAnchors
  <2> QED
    BY <2>4, <2>5
<1>3. ASSUME NEW m \in Active, DeadlineElapses(m) PROVE Anchored'
  <2>1. /\ UNCHANGED <<processed, ordered, failed, handler, shown, completed>>
        /\ \A h \in Handlers : handler[h].m # m
        /\ active[m].deadline = "armed"
    BY <1>3 DEF DeadlineElapses
  <2>2. /\ Active' = Active /\ \A x \in Active \ {m} : active'[x] = active[x]
        /\ active'[m].state = active[m].state /\ active'[m].deadline = "reached"
    BY <1>3 DEF DeadlineElapses, Active, Received, StoreOK, ActiveTyped, RecordsOf
  <2>3. /\ SlotsOf(active, ordered) /\ TimedOf(active) /\ CleanOf(active, ordered, failed)
        /\ DOMAIN active = Active /\ DOMAIN active' = Active
    BY <2>2 DEF Anchored, SlotsSound, Active
  <2>4. \A x \in Active : active'[x].state = active[x].state
    BY <2>2
  <2>5. SlotsOf(active', ordered)
    BY <2>3, <2>4 DEF SlotsOf
  <2>6. TimedOf(active')
    BY <2>1, <2>2, <2>3 DEF TimedOf
  <2>7. CleanOf(active', ordered, failed)
    BY <2>3 DEF CleanOf
  <2>8. SlotsSound'
    BY <2>1, <2>5, <2>6, <2>7 DEF SlotsSound
  <2>9. NeverBoth' /\ ShownIsGate' /\ CompletedIsBehind'
    BY <2>1, <2>2 DEF Anchored, NeverBoth, Known, ShownIsGate, CompletedIsBehind
  <2>10. EnteringAlone'
    BY <2>1, <2>2 DEF Anchored, EnteringAlone, Registered, Entering
  <2> QED
    BY <2>8, <2>9, <2>10 DEF Anchored
<1>4. ASSUME ExpireIncoming PROVE Anchored'
  <2>1. /\ active' = ActiveNow /\ ordered' = OrderedNow /\ failed' = FailedNow
        /\ UNCHANGED <<processed, handler, shown, completed>>
    BY <1>4 DEF ExpireIncoming
  <2>2. Known' = Known /\ \A g \in Handlers : Entering(g)' = Entering(g)
    BY <2>1 DEF Known, Entering
  <2> QED
    BY <2>1, <2>2, NowAnchors
<1>5. ASSUME DedupExpires PROVE Anchored'
  <2>1. Known' \subseteq Known
    BY <1>5, TailProperties DEF DedupExpires, Known, Received, AckSound
  <2>2. UNCHANGED <<active, ordered, failed, handler, shown, completed>>
    BY <1>5 DEF DedupExpires
  <2>3. \A g \in Handlers : Entering(g)' = Entering(g)
    BY <2>2 DEF Entering
  <2> QED
    BY <2>1, <2>2, <2>3, QuietAnchors
<1>6. ASSUME UNCHANGED receiving PROVE Anchored'
  <2>1. UNCHANGED <<active, processed, ordered, failed, handler, shown, completed>>
    BY <1>6 DEF receiving, incoming
  <2>2. Known' = Known /\ \A g \in Handlers : Entering(g)' = Entering(g)
    BY <2>1 DEF Known, Entering
  <2> QED
    BY <2>1, <2>2, QuietAnchors
<1> QED
  BY <1>1, <1>2, <1>3, <1>4, <1>5, <1>6

LEMMA AnchoredStep ==
  ASSUME Received, Anchored, [ReceiveConnected]_receiving
  PROVE  Anchored'
BY ArrivalAnchors, HandlerAnchors, CompleteAnchors, OthersAnchor DEF ReceiveConnected, ReceiveLocal

LEMMA AnchoredInit ==
  ASSUME ReceiveInit
  PROVE  Anchored
<1>1. Active = {} /\ DOMAIN active = {}
  BY DEF ReceiveInit, Active
<1>2. \A ch \in Channels : ordered[ch].inFlight = NoMessage /\ ordered[ch].buffer = {}
  BY DEF ReceiveInit, Default
<1>3. SlotsSound
  BY <1>1, <1>2 DEF ReceiveInit, SlotsSound, SlotsOf, TimedOf, CleanOf
<1>4. NeverBoth
  BY <1>1 DEF NeverBoth
<1>5. ShownIsGate /\ EnteringAlone /\ CompletedIsBehind
  BY DEF ReceiveInit, ShownIsGate, EnteringAlone, Entering, Idle, CompletedIsBehind
<1> QED
  BY <1>3, <1>4, <1>5 DEF Anchored

\* The two invariants hold together as long as nobody disconnects the peer.
LEMMA ConnectedInvariant == ConnectedSpec => [](Received /\ Anchored)
<1>1. ReceiveInit => Received /\ Anchored
  BY ReceivedInit, AnchoredInit
<1>2. Received /\ Anchored /\ [ReceiveConnected]_receiving => Received' /\ Anchored'
  BY ReceivedStep, AnchoredStep DEF ReceiveNext
<1> QED
  BY <1>1, <1>2, PTL DEF ConnectedSpec

\* Until an explicit disconnect the store is what assert_delivery_invariants asks
\* for between any two calls, and the anchor of a healthy channel is past everything
\* the application completed on it.
THEOREM StoreStaysAnchored == ConnectedSpec => []StoreAnchored
<1>1. Received /\ Anchored => StoreAnchored
  BY DEF Anchored, SlotsSound, SlotsOf, TimedOf, NeverBoth, StoreAnchored, StoreConsistent, Active
<1> QED
  BY <1>1, ConnectedInvariant, PTL

\* What is newly shown is ahead of the anchor: only the gate's next message is shown.
LEMMA NewlyShownIsNext ==
  ASSUME Received, Anchored, ReceiveConnected, NEW m \in shown' \ shown, Ordered(m)
  PROVE  m.ch \in Channels /\ m.ch \notin failed /\ m.seq \in Nat /\ m.seq >= ordered[m.ch].expected
<1>1. ASSUME NEW h \in Handlers, NEW x \in Traffic, Receive(h, x) PROVE FALSE
  BY <1>1 DEF Receive, ReceiveBestEffort, BeginDropped, BeginProcessed, BeginNew, Ordered
<1>2. ASSUME NEW h \in Handlers, HandlerStep(h) \/ CancelHandler(h)
      PROVE  /\ m.ch \in Channels /\ m.ch \notin failed /\ m.seq \in Nat
             /\ m.seq >= ordered[m.ch].expected
  <2>1. AcceptReady(h) /\ m = handler[h].m
    BY <1>2 DEF HandlerStep, AcceptReady, AcceptBuffered, AcceptRefused, RejectIncoming, Reack, CancelHandler
  <2>2. m \in Traffic /\ m.ch \notin failed /\ m.seq = ordered[m.ch].expected
    BY <2>1 DEF AcceptReady, Insertable, InsertReady, Received, HandlersOK, HandlerShape
  <2> QED
    BY <2>2, TrafficShape
<1>3. ASSUME NEW x \in shown, CompleteIncoming(x)
      PROVE  /\ m.ch \in Channels /\ m.ch \notin failed /\ m.seq \in Nat
             /\ m.seq >= ordered[m.ch].expected
  <2>1. m \in ordered[x.ch].buffer /\ m.seq = ordered[x.ch].expected + 1 /\ x \in Active
    BY <1>3 DEF CompleteIncoming, Released, MayComplete
  <2>2. x.ch \in Channels /\ x.ch \notin failed
    BY <2>1, ShownFacts
  <2>3. m.ch = x.ch /\ ordered[x.ch].expected \in Nat
    BY <2>1, <2>2 DEF Received, Gates, GateOf, StoreOK, GateStates
  <2> QED
    BY <2>1, <2>2, <2>3
<1>4. ASSUME \/ \E x \in shown : CompleteUnknown(x)
             \/ \E x \in Active : AbandonIncoming(x) \/ DeadlineElapses(x)
             \/ ExpireIncoming \/ DedupExpires
      PROVE  FALSE
  BY <1>4 DEF CompleteUnknown, AbandonIncoming, DeadlineElapses, ExpireIncoming, DedupExpires
<1> QED
  BY <1>1, <1>2, <1>3, <1>4 DEF ReceiveConnected, ReceiveLocal

\* However much of its dedup history the receiver forgets, the application does not
\* get an ordered message a second time once it completed it.
THEOREM CompletedStaysHidden == ConnectedSpec => CompletedNotShownAgain
<1>1. Received /\ Anchored /\ [ReceiveConnected]_receiving =>
        [\A m \in completed : Ordered(m) /\ m \in shown' => m \in shown]_receiving
  <2> SUFFICES ASSUME Received, Anchored, ReceiveConnected, NEW m \in completed, Ordered(m),
                      m \in shown', m \notin shown
               PROVE  FALSE
    OBVIOUS
  <2>1. m.ch \in Channels /\ m.ch \notin failed /\ m.seq \in Nat /\ m.seq >= ordered[m.ch].expected
    BY NewlyShownIsNext
  <2>2. m.seq < ordered[m.ch].expected /\ ordered[m.ch].expected \in Nat
    BY <2>1 DEF Anchored, CompletedIsBehind, Received, StoreOK, GateStates
  <2> QED
    BY <2>1, <2>2
<1> QED
  BY <1>1, ConnectedInvariant, PTL DEF ConnectedSpec, CompletedNotShownAgain

-----------------------------------------------------------------------------
(* End to end: what is under way                                           *)

\* The sending side only works on messages the two sides agreed on.
SendsTraffic ==
  /\ Pending \subseteq Traffic
  /\ \A j \in jobs : j[2] \in Traffic
  /\ \A c \in claims : c.m \in Traffic
  /\ \A w \in wrote : w[1] \in Traffic

LEMMA SendableIsTraffic == Sendable \subseteq Traffic
BY DeliveryAssumption DEF Sendable

LEMMA SendsTrafficStep ==
  ASSUME SendTypeOK, SendsTraffic, [SendNext]_sending
  PROVE  SendsTraffic'
<1>1. Pending' \subseteq Traffic
  <2>1. CASE \E m \in Sendable : Enqueue(m)
    BY <2>1, EnqueueShape, SendableIsTraffic DEF SendsTraffic
  <2>2. CASE ~(\E m \in Sendable : Enqueue(m))
    BY <2>2, StoreShape DEF SendsTraffic, Removes
  <2> QED
    BY <2>1, <2>2
<1> SUFFICES (\A j \in jobs' : j[2] \in Traffic) /\ (\A c \in claims' : c.m \in Traffic)
             /\ (\A w \in wrote' : w[1] \in Traffic)
  BY <1>1 DEF SendsTraffic
<1> USE DEF SendsTraffic
<1>2. ASSUME NEW m \in Sendable, Enqueue(m) \/ EnqueueFull(m)
      PROVE  jobs' \subseteq jobs \cup {<<"send", m>>} /\ claims' = claims /\ wrote' = wrote
  BY <1>2 DEF Enqueue, EnqueueFull
<1>3. ASSUME NEW j \in jobs, DeliverStep(j[1], j[2])
      PROVE  /\ jobs' \subseteq jobs /\ wrote' = wrote
             /\ \A c \in claims' : c \in claims \/ c.m = j[2]
  BY <1>3 DEF DeliverStep, BeginBestEffort, BeginNothing, BeginSettled, BeginSend, TakeJob, Claim
<1>4. ASSUME NEW c \in claims, MarkSent(c) \/ MarkSendFailed(c)
      PROVE  jobs' = jobs /\ wrote' = wrote /\ claims' \subseteq claims
  BY <1>4 DEF MarkSent, MarkSendFailed
<1>5. ASSUME RecoverSession \/ RetryScan
      PROVE  /\ \A j \in jobs' : j \in jobs \/ j[2] \in Pending
             /\ wrote' = wrote /\ claims' = claims
  <2>1. \E S \in SUBSET Pending : \E by \in Actors : jobs' = jobs \cup {<<by, m>> : m \in S}
    <3>1. CASE RecoverSession
      BY <3>1 DEF RecoverSession, Actors
    <3>2. CASE RetryScan
      BY <3>2 DEF RetryScan, Retryable, Actors
    <3> QED
      BY <1>5, <3>1, <3>2
  <2>2. \A j \in jobs' : j \in jobs \/ j[2] \in Pending
    BY <2>1
  <2> QED
    BY <1>5, <2>2 DEF RecoverSession, RetryScan
<1>6. ASSUME SessionChanges \/ \E m \in Pending : Cancel(m) \/ BackoffElapses(m) \/ TtlElapses(m) \/ Acknowledge(m)
      PROVE  UNCHANGED <<jobs, claims, wrote>>
  BY <1>6 DEF SessionChanges, Cancel, BackoffElapses, TtlElapses, Acknowledge
<1>7. ASSUME NEW c \in claims, Write(c)
      PROVE  /\ jobs' = jobs /\ wrote' = wrote \cup {<<c.m, c.attempt>>}
             /\ \A d \in claims' : d \in claims \/ d.m = c.m
  <2>1. c \in Claims
    BY DEF SendTypeOK
  <2>2. [c EXCEPT !.written = TRUE].m = c.m
    BY <2>1 DEF Claims
  <2> QED
    BY <1>7, <2>2 DEF Write
<1>8. ASSUME UNCHANGED sending PROVE UNCHANGED <<jobs, claims, wrote>>
  BY <1>8 DEF sending
<1>9. CASE \E m \in Sendable : Enqueue(m) \/ EnqueueFull(m)
  BY <1>2, <1>9, SendableIsTraffic
<1>10. CASE \E c \in claims : Write(c)
  <2>1. PICK c \in claims : Write(c)
    BY <1>10
  <2>2. c.m \in Traffic /\ wrote' = wrote \cup {<<c.m, c.attempt>>}
    BY <1>7, <2>1
  <2>3. \A w \in wrote' : w[1] \in Traffic
    BY <2>2
  <2> QED
    BY <1>7, <2>1, <2>2, <2>3
<1> QED
  BY <1>3, <1>4, <1>5, <1>6, <1>8, <1>9, <1>10 DEF SendNext, SendLocal

\* A reliable message that was written has a sequence that was given out.
WrittenGiven ==
  \A w \in wrote : w[1].pol # "BestEffort" => w[1].seq < nextSequence[w[1].ch]

LEMMA SequencesGrow ==
  ASSUME SendTypeOK, [SendNext]_sending
  PROVE  \/ nextSequence' = nextSequence
         \/ \E ch \in SendChannels : nextSequence' = [nextSequence EXCEPT ![ch] = @ + 1]
<1>1. CASE \E m \in Sendable : Enqueue(m)
  BY <1>1 DEF Enqueue, Sendable
<1>2. CASE ~(\E m \in Sendable : Enqueue(m))
  BY <1>2, StoreShape DEF Removes
<1> QED
  BY <1>1, <1>2

\* Only a write of a claimed message adds to what was written.
LEMMA WroteSteps ==
  ASSUME [SendNext]_sending
  PROVE  wrote' = wrote \/ \E c \in claims : Write(c) /\ wrote' = wrote \cup {<<c.m, c.attempt>>}
<1>1. CASE SendLocal \/ \E m \in Pending : Acknowledge(m)
  BY <1>1 DEF SendLocal, DeliverStep, BeginBestEffort, BeginNothing, BeginSettled, BeginSend,
    Enqueue, EnqueueFull, MarkSent, MarkSendFailed, RecoverSession, SessionChanges, RetryScan,
    Cancel, BackoffElapses, TtlElapses, Acknowledge
<1>2. CASE \E c \in claims : Write(c)
  BY <1>2 DEF Write
<1>3. CASE UNCHANGED sending
  BY <1>3 DEF sending
<1> QED
  BY <1>1, <1>2, <1>3 DEF SendNext

LEMMA WrittenGivenStep ==
  ASSUME SendTypeOK, Owned, WrittenGiven, [SendNext]_sending
  PROVE  WrittenGiven'
<1>1. \A ch \in SendChannels : nextSequence[ch] \in Nat /\ nextSequence'[ch] \in Nat
                               /\ nextSequence'[ch] >= nextSequence[ch]
  BY SequencesGrow DEF SendTypeOK
<1> SUFFICES ASSUME NEW w \in wrote', w[1].pol # "BestEffort"
             PROVE  w[1].seq < nextSequence'[w[1].ch]
  BY DEF WrittenGiven
<1>2. w[1] \in Messages /\ w[1].seq < nextSequence[w[1].ch]
  <2>1. CASE w \in wrote
    BY <2>1 DEF SendTypeOK, WrittenGiven
  <2>2. CASE w \notin wrote
    <3>1. PICK c \in claims : w = <<c.m, c.attempt>>
      BY <2>2, WroteSteps
    <3>2. w[1] = c.m /\ c.m \in Messages
      BY <3>1 DEF SendTypeOK, Claims
    <3> QED
      BY <3>1, <3>2 DEF Owned, ClaimsNumbered, Claimed
  <2> QED
    BY <2>1, <2>2
<1>3. w[1].ch \in SendChannels /\ w[1].seq \in Nat
  BY <1>2 DEF Messages
<1> QED
  BY <1>1, <1>2, <1>3

\* No step of the sender by itself reports a message as acknowledged.
Reported == {m \in DOMAIN outcomes : outcomes[m] = "Acknowledged"}
LEMMA SettleReports ==
  ASSUME NEW S, NEW o, RecordTerminal(S, o), o # "Acknowledged"
  PROVE  Reported' \subseteq Reported
BY DEF RecordTerminal, Reported

LEMMA LocalReportsNothing ==
  ASSUME SendLocal \/ UNCHANGED sending \/ \E c \in claims : Write(c)
  PROVE  Reported' \subseteq Reported
<1>1. CASE UNCHANGED outcomes
  BY <1>1 DEF Reported
<1>2. CASE \E S : \E o \in Terminals \ {"Acknowledged"} : RecordTerminal(S, o)
  BY <1>2, SettleReports
<1>3. ASSUME NEW S, NEW o \in Terminals \ {"Acknowledged"}, Settle(S, o)
      PROVE  \E T : \E p \in Terminals \ {"Acknowledged"} : RecordTerminal(T, p)
  BY <1>3 DEF Settle
<1> USE DEF Terminals
<1>4. ASSUME NEW m \in Sendable, Enqueue(m) \/ EnqueueFull(m) PROVE Reported' \subseteq Reported
  BY <1>2, <1>3, <1>4 DEF Enqueue, EnqueueFull
<1>5. ASSUME NEW j \in jobs, DeliverStep(j[1], j[2]) PROVE Reported' \subseteq Reported
  BY <1>1, <1>2, <1>3, <1>5 DEF DeliverStep, BeginBestEffort, BeginNothing, BeginSettled, BeginSend, store
<1>6. ASSUME NEW c \in claims, MarkSent(c) \/ MarkSendFailed(c) \/ Write(c) PROVE Reported' \subseteq Reported
  BY <1>1, <1>2, <1>3, <1>6 DEF MarkSent, MarkSendFailed, Write, store
<1>7. ASSUME RecoverSession \/ RetryScan \/ SessionChanges \/ UNCHANGED sending PROVE Reported' \subseteq Reported
  BY <1>1, <1>2, <1>7 DEF RecoverSession, RetryScan, SessionChanges, store, sending
<1>8. ASSUME NEW m \in Pending, Cancel(m) \/ BackoffElapses(m) \/ TtlElapses(m) PROVE Reported' \subseteq Reported
  BY <1>1, <1>2, <1>3, <1>8 DEF Cancel, BackoffElapses, TtlElapses
<1> QED
  BY <1>4, <1>5, <1>6, <1>7, <1>8 DEF SendLocal

\* The messages the receiving side has anything to do with.
Carried ==
  {m \in Traffic : \/ m \in Active \cup shown \cup completed
                   \/ \E h \in Handlers : handler[h].stage # "idle" /\ handler[h].m = m}

LEMMA CarriedHolds ==
  ASSUME Received
  PROVE  /\ Active \subseteq Carried /\ shown \subseteq Carried /\ completed \subseteq Carried
         /\ \A h \in Handlers : handler[h].stage # "idle" => handler[h].m \in Carried
         /\ DOMAIN ActiveNow \subseteq Active
<1>1. /\ Active \subseteq Carried /\ shown \subseteq Carried /\ completed \subseteq Carried
      /\ \A h \in Handlers : handler[h].stage # "idle" => handler[h].m \in Carried
  BY DEF Carried, Received, StoreOK, ActiveTyped, AckSound, HandlersOK, HandlerShape
<1>2. DOMAIN ActiveNow \subseteq Active
  BY NowShape DEF Received
<1> QED
  BY <1>1, <1>2

\* A message only comes in through Receive.
LEMMA CarriedArrives ==
  ASSUME Received, NEW h \in Handlers, NEW m \in Traffic, Receive(h, m)
  PROVE  Carried' \subseteq Carried \cup {m}
<1>1. Active' \subseteq Active \cup {m} /\ shown' \subseteq shown \cup {m} /\ completed' = completed
  BY CarriedHolds DEF Receive, ReceiveBestEffort, BeginDropped, BeginProcessed, BeginNew, Put, Active, incoming
<1>2. \A g \in Handlers : handler'[g] = handler[g] \/ handler'[g].m = m
  BY DEF Receive, ReceiveBestEffort, BeginDropped, BeginProcessed, BeginNew, Wait, Received, HandlersOK
<1> QED
  BY <1>1, <1>2, CarriedHolds DEF Carried

LEMMA CarriedStays ==
  ASSUME Received, ReceiveLocal \/ ClosePeer \/ UNCHANGED receiving
  PROVE  Carried' \subseteq Carried
<1>1. /\ Active \subseteq Carried /\ shown \subseteq Carried /\ completed \subseteq Carried
      /\ \A h \in Handlers : handler[h].stage # "idle" => handler[h].m \in Carried
  BY CarriedHolds
<1>2. DOMAIN ActiveNow \subseteq Active
  BY CarriedHolds
<1>4. ASSUME NEW h \in Handlers, HandlerStep(h) \/ CancelHandler(h) PROVE Carried' \subseteq Carried
  <2>1. handler[h].stage # "idle"
    BY <1>4 DEF HandlerStep, AcceptReady, AcceptBuffered, AcceptRefused, RejectIncoming, Reack, CancelHandler,
      Received, HandlersOK, HandlerShape
  <2>2. handler[h].m \in Carried
    BY <1>1, <2>1
  <2>3. Active' \subseteq Active \cup {handler[h].m}
    BY <1>4 DEF HandlerStep, AcceptReady, AcceptBuffered, AcceptRefused, RejectIncoming, Reack, CancelHandler,
      Put, Drop, Active, incoming
  <2>4. shown' \subseteq shown \cup {handler[h].m} /\ completed' = completed
    BY <1>4 DEF HandlerStep, AcceptReady, AcceptBuffered, AcceptRefused, RejectIncoming, Reack, CancelHandler
  <2>5. \A g \in Handlers : handler'[g] = handler[g] \/ handler'[g] = Idle \/ handler'[g].m = handler[h].m
    BY <1>4 DEF HandlerStep, AcceptReady, AcceptBuffered, AcceptRefused, RejectIncoming, Reack, CancelHandler,
      Wait, Done, Received, HandlersOK
  <2> QED
    BY <1>1, <2>2, <2>3, <2>4, <2>5 DEF Carried, Idle
<1>5. ASSUME NEW m \in shown, CompleteIncoming(m) \/ CompleteUnknown(m) PROVE Carried' \subseteq Carried
  <2>1. Active' \subseteq Active /\ shown' \subseteq shown \cup Active /\ completed' \subseteq completed \cup {m}
        /\ handler' = handler
    BY <1>5 DEF CompleteIncoming, CompleteUnknown, MayComplete, Active, incoming
  <2> QED
    BY <1>1, <2>1 DEF Carried
<1>6. ASSUME \/ \E m \in Active : AbandonIncoming(m) \/ DeadlineElapses(m)
             \/ ExpireIncoming \/ DedupExpires \/ ClosePeer \/ UNCHANGED receiving
      PROVE  Carried' \subseteq Carried
  <2>1. Active' \subseteq Active
    <3>1. ASSUME NEW m \in Active, AbandonIncoming(m) \/ DeadlineElapses(m) PROVE Active' \subseteq Active
      BY <3>1 DEF AbandonIncoming, DeadlineElapses, FailActive, Drop, Active
    <3>2. ASSUME ExpireIncoming \/ DedupExpires \/ ClosePeer \/ UNCHANGED receiving PROVE Active' \subseteq Active
      BY <1>2, <3>2 DEF ExpireIncoming, DedupExpires, ClosePeer, Active, receiving, incoming
    <3> QED
      BY <1>6, <3>1, <3>2
  <2>2. UNCHANGED <<handler, shown, completed>>
    BY <1>6 DEF AbandonIncoming, DeadlineElapses, ExpireIncoming, DedupExpires, ClosePeer, receiving
  <2> QED
    BY <1>1, <2>1, <2>2 DEF Carried
<1> QED
  BY <1>4, <1>5, <1>6 DEF ReceiveLocal

-----------------------------------------------------------------------------
(* End to end: the composition                                             *)

Sent == {w[1] : w \in wrote}
SendSide == SendIInv /\ Owned /\ SendsTraffic /\ WrittenGiven
\* What the peer carries was written to it, and it acknowledges what it completed.
Underway ==
  /\ frames \subseteq Sent /\ Carried \subseteq Sent
  /\ acks \subseteq completed /\ Reported \subseteq completed
Joint == SendSide /\ Received /\ Underway

LEMMA SendSideStep ==
  ASSUME SendSide, [SendNext]_sending
  PROVE  SendSide' /\ Sent \subseteq Sent'
<1>1. SendTypeOK /\ Settled
  BY DEF SendSide, SendIInv, Accounted
<1>2. SendIInv'
  BY AccountedStep, SettledStep DEF SendSide, SendIInv, Accounted, Settled
<1>3. Owned' /\ SendsTraffic' /\ WrittenGiven'
  BY <1>1, OwnedStep, SendsTrafficStep, WrittenGivenStep DEF SendSide
<1>4. wrote \subseteq wrote'
  BY WroteSteps
<1>5. Sent \subseteq Sent'
  BY <1>4 DEF Sent
<1> QED
  BY <1>2, <1>3, <1>5 DEF SendSide

\* An acknowledgement that arrives answers a message that was written.
LEMMA AckAnswersWrite ==
  ASSUME Joint, NEW m \in acks, m \in Pending
  PROVE  \E n \in 1 .. MaxAttempts : <<m, n>> \in wrote
<1>1. m \in Sent /\ m.pol # "BestEffort"
  BY DEF Joint, Underway, Carried, Received, AckSound, SendSide, Owned, Stored
<1>2. PICK w \in wrote : w[1] = m
  BY <1>1 DEF Sent
<1>3. w \in Messages \X Nat
  BY DEF Joint, SendSide, SendIInv, Accounted, SendTypeOK
<1>4. w = <<m, w[2]>> /\ w[2] \in 1 .. MaxAttempts
  BY <1>1, <1>2, <1>3 DEF Joint, SendSide, Owned, WrittenNumbered
<1> QED
  BY <1>4

\* Every step of the whole system is a step of each half, or does not concern it.
LEMMA StepsProject ==
  ASSUME Joint, [Next]_vars
  PROVE  /\ [SendNext]_sending /\ [ReceiveNext]_receiving
         /\ ~MayClose => [ReceiveConnected]_receiving
<1>1. CASE SendLocal /\ UNCHANGED <<receiving, frames, acks>>
  BY <1>1 DEF SendNext
<1>2. CASE ReceiverAlone /\ UNCHANGED <<sending, frames, acks>>
  <2>1. ReceiveLocal \/ ClosePeer
    BY <1>2 DEF ReceiverAlone, ReceiveLocal, HandlerStep
  <2> QED
    BY <1>2, <2>1 DEF ReceiveNext, ReceiveConnected, ClosePeer
<1>3. CASE Transmit
  BY <1>3 DEF Transmit, SendNext
<1>4. CASE Deliver
  <2>1. frames \subseteq Traffic
    BY DEF Joint, Underway, Sent, SendSide, SendsTraffic
  <2> QED
    BY <1>4, <2>1 DEF Deliver, ReceiveNext, ReceiveConnected
<1>5. CASE Complete
  BY <1>5 DEF Complete, ReceiveNext, ReceiveConnected, ReceiveLocal
<1>6. CASE RepeatAck
  BY <1>6 DEF RepeatAck, ReceiveNext, ReceiveConnected, ReceiveLocal, HandlerStep
<1>7. CASE ReceiveAck
  BY <1>7, AckAnswersWrite DEF ReceiveAck, SendNext
<1>8. CASE Lose \/ UNCHANGED vars
  BY <1>8 DEF Lose, vars
<1> QED
  BY <1>1, <1>2, <1>3, <1>4, <1>5, <1>6, <1>7, <1>8 DEF Next, Step

LEMMA JointInit == Init => Joint
<1> SUFFICES ASSUME Init PROVE Joint
  OBVIOUS
<1>1. SendSide
  <2>1. SendIInv
    <3>1. Pending = {} /\ DOMAIN outcomes = {}
      BY DEF Init, SendInit, Pending
    <3> QED
      BY <3>1, AccountedInit DEF Init, SendIInv, Settled, Given, Apart
  <2>2. Pending = {} /\ claims = {} /\ jobs = {} /\ wrote = {}
    BY DEF Init, SendInit, Pending
  <2>3. Owned /\ SendsTraffic /\ WrittenGiven
    BY <2>2 DEF Owned, Stored, ClaimsNumbered, SendingHeld, SentWasWritten, WrittenNumbered,
      SendsTraffic, WrittenGiven
  <2> QED
    BY <2>1, <2>3 DEF SendSide
<1>2. Received
  BY ReceivedInit DEF Init
<1>3. Underway
  <2>1. Active = {} /\ DOMAIN outcomes = {}
    BY DEF Init, ReceiveInit, SendInit, Active
  <2>2. Carried = {} /\ Reported = {}
    BY <2>1 DEF Init, ReceiveInit, Carried, Idle, Reported
  <2> QED
    BY <2>2 DEF Init, ReceiveInit, Underway
<1> QED
  BY <1>1, <1>2, <1>3 DEF Joint

LEMMA JointStep ==
  ASSUME Joint, [Next]_vars
  PROVE  Joint'
<1>1. [SendNext]_sending /\ [ReceiveNext]_receiving
  BY StepsProject
<1>2. SendSide' /\ Sent \subseteq Sent' /\ Received'
  BY <1>1, SendSideStep, ReceivedStep DEF Joint
<1>3. completed \subseteq completed'
  BY <1>1 DEF ReceiveNext, ReceiveConnected, ReceiveLocal, Receive, ReceiveBestEffort, BeginDropped,
    BeginProcessed, BeginNew, HandlerStep, AcceptReady, AcceptBuffered, AcceptRefused, RejectIncoming,
    Reack, CancelHandler, CompleteIncoming, CompleteUnknown, AbandonIncoming, DeadlineElapses,
    ExpireIncoming, DedupExpires, ClosePeer, receiving
<1>4. frames' \subseteq Sent'
  <2>1. CASE Transmit
    <3>1. PICK c \in claims : Write(c) /\ frames' = frames \cup {c.m}
      BY <2>1 DEF Transmit
    <3>2. <<c.m, c.attempt>> \in wrote'
      BY <3>1 DEF Write
    <3>3. c.m \in Sent'
      BY <3>2 DEF Sent
    <3> QED
      BY <1>2, <3>1, <3>3 DEF Joint, Underway
  <2>2. CASE ~Transmit
    <3>1. frames' \subseteq frames
      BY <2>2 DEF Next, Step, Deliver, Complete, RepeatAck, ReceiveAck, Lose, vars
    <3> QED
      BY <1>2, <3>1 DEF Joint, Underway
  <2> QED
    BY <2>1, <2>2
<1>5. Carried' \subseteq Sent'
  <2>1. CASE Deliver
    <3>1. PICK h \in Handlers, m \in frames : Receive(h, m)
      BY <2>1 DEF Deliver
    <3>2. m \in Sent /\ m \in Traffic
      BY DEF Joint, Underway, Sent, SendSide, SendsTraffic
    <3>3. Carried' \subseteq Carried \cup {m}
      BY <3>1, <3>2, CarriedArrives DEF Joint
    <3> QED
      BY <1>2, <3>2, <3>3 DEF Joint, Underway
  <2>2. CASE ~Deliver
    <3>1. ReceiveLocal \/ ClosePeer \/ UNCHANGED receiving
      BY <2>2 DEF Next, Step, Transmit, ReceiverAlone, Complete, RepeatAck, ReceiveAck, Lose, vars,
        ReceiveLocal, HandlerStep
    <3> QED
      BY <1>2, <3>1, CarriedStays DEF Joint, Underway
  <2> QED
    BY <2>1, <2>2
<1>6. acks' \subseteq completed'
  <2>1. CASE Complete
    BY <1>3, <2>1 DEF Complete, CompleteIncoming, Joint, Underway
  <2>2. CASE RepeatAck
    <3>1. PICK h \in Handlers : Reack(h) /\ acks' \subseteq acks \cup {handler[h].m}
      BY <2>2 DEF RepeatAck
    <3>2. handler[h].m \in completed
      BY <3>1 DEF Reack, Joint, Received, AckSound
    <3> QED
      BY <1>3, <3>1, <3>2 DEF Joint, Underway
  <2>3. CASE ~Complete /\ ~RepeatAck
    <3>1. acks' \subseteq acks
      BY <2>3 DEF Next, Step, Transmit, Deliver, ReceiveAck, Lose, vars
    <3> QED
      BY <1>3, <3>1 DEF Joint, Underway
  <2> QED
    BY <2>1, <2>2, <2>3
<1>7. Reported' \subseteq completed'
  <2>1. CASE ReceiveAck
    <3>1. PICK m \in acks : IF m \in Pending THEN Acknowledge(m) ELSE UNCHANGED sending
      BY <2>1 DEF ReceiveAck
    <3>2. CASE m \in Pending
      <4>1. RecordTerminal({m}, "Acknowledged")
        BY <3>1, <3>2 DEF Acknowledge, Settle
      <4>2. Reported' \subseteq Reported \cup {m}
        BY <4>1 DEF RecordTerminal, Reported
      <4> QED
        BY <1>3, <4>2 DEF Joint, Underway
    <3>3. CASE m \notin Pending
      BY <1>3, <3>1, <3>3, LocalReportsNothing DEF Joint, Underway
    <3> QED
      BY <3>2, <3>3
  <2>2. CASE ~ReceiveAck
    <3>1. SendLocal \/ UNCHANGED sending \/ \E c \in claims : Write(c)
      BY <2>2 DEF Next, Step, Transmit, Deliver, Complete, RepeatAck, Lose, vars
    <3> QED
      BY <1>3, <3>1, LocalReportsNothing DEF Joint, Underway
  <2> QED
    BY <2>1, <2>2
<1> QED
  BY <1>2, <1>4, <1>5, <1>6, <1>7 DEF Joint, Underway

LEMMA JointInvariant == Spec => []Joint
<1>1. Joint /\ [Next]_vars => Joint'
  BY JointStep
<1> QED
  BY <1>1, JointInit, PTL DEF Spec

\* The whole system is made of the two components: what it does to the sending side
\* is what DeliverySend does on its own, every acknowledgement included, and what it
\* does to the receiving side is what DeliveryReceive does.  All that is proved of a
\* component therefore holds end to end.
THEOREM HalvesAreImplemented == Spec => SendSpec /\ ReceiveSpec
<1>1. Joint /\ [Next]_vars => [SendNext]_sending /\ [ReceiveNext]_receiving
  BY StepsProject
<1>2. Init => SendInit /\ ReceiveInit
  BY DEF Init
<1> QED
  BY <1>1, <1>2, JointInvariant, PTL DEF Spec, SendSpec, ReceiveSpec

\* A sender that reports a message as acknowledged is right, over every loss, repeat
\* and reordering of frames and acknowledgements, every retry, replay and late result
\* of the sender, and every expiry, eviction, cancelled receiver and disconnect of
\* the receiver: the application over there completed the message.
THEOREM AcknowledgementsAreTrue == Spec => []AcknowledgedWasCompleted
<1>1. Joint => AcknowledgedWasCompleted
  BY DEF Joint, Underway, Reported, AcknowledgedWasCompleted
<1> QED
  BY <1>1, JointInvariant, PTL

-----------------------------------------------------------------------------
(* End to end: the ordered channel the receiving application sees          *)

\* What the application completed of an ordered channel is a prefix of it, as long
\* as the anchor of the channel says unless the channel failed.
Prefix ==
  \A ch \in Channels : \E n \in Nat :
    /\ OrderedOf(completed, ch) = 0 .. (n - 1)
    /\ ch \notin failed => n = ordered[ch].expected

\* The four things a step may do to what the application sees.
Quiet ==
  /\ \A m \in Traffic : Ordered(m) => (m \in shown' <=> m \in shown)
  /\ completed' \subseteq Traffic /\ \A m \in Traffic : Ordered(m) => (m \in completed' <=> m \in completed)
  /\ \A ch \in Channels \ failed' : ch \notin failed /\ ordered'[ch].expected = ordered[ch].expected
Shows(m) ==
  /\ m \in Traffic /\ Ordered(m) /\ m \in Carried
  /\ m.ch \notin failed /\ m.seq = ordered[m.ch].expected
  /\ \A x \in shown : Ordered(x) => x.ch # m.ch
  /\ shown' = shown \cup {m} /\ UNCHANGED <<completed, failed>>
  /\ \A ch \in Channels : ordered'[ch].expected = ordered[ch].expected
Finishes(m, R) ==
  /\ m \in Traffic /\ Ordered(m) /\ m \in shown
  /\ m.ch \notin failed /\ m.seq = ordered[m.ch].expected
  /\ \A x \in R : Ordered(x) /\ x.ch = m.ch /\ x.seq = m.seq + 1 /\ x \in Carried
  /\ shown' = (shown \ {m}) \cup R /\ completed' = completed \cup {m} /\ failed' = failed
  /\ ordered'[m.ch].expected = ordered[m.ch].expected + 1
  /\ \A ch \in Channels \ {m.ch} : ordered'[ch].expected = ordered[ch].expected
Withdraws(m) ==
  /\ m \in Traffic /\ Ordered(m) /\ m \in shown
  /\ shown' = shown \ {m} /\ UNCHANGED <<completed, failed, ordered>>

LEMMA ViewSteps ==
  ASSUME Received, Anchored, [ReceiveConnected]_receiving
  PROVE  Quiet \/ \E m : Shows(m) \/ Withdraws(m) \/ \E R : Finishes(m, R)
<1>1. failed \subseteq Channels /\ completed \subseteq Traffic /\ shown \subseteq Traffic
  BY DEF Received, StoreOK, AckSound
<1>2. ASSUME NEW h \in Handlers, NEW m \in Traffic, Receive(h, m) PROVE Quiet
  <2>1. completed' = completed /\ \A x \in Traffic : Ordered(x) => (x \in shown' <=> x \in shown)
    BY <1>2 DEF Receive, ReceiveBestEffort, BeginDropped, BeginProcessed, BeginNew, Ordered
  <2>2. \/ UNCHANGED <<ordered, failed>>
        \/ ordered' = OrderedNow /\ failed' = FailedNow
    BY <1>2 DEF Receive, ReceiveBestEffort, BeginDropped, BeginProcessed, BeginNew, incoming
  <2>3. \A ch \in Channels \ failed' : ch \notin failed /\ ordered'[ch].expected = ordered[ch].expected
    BY <2>2, NowSlots DEF FailedNow
  <2> QED
    BY <1>1, <2>1, <2>3 DEF Quiet
<1>3. ASSUME NEW h \in Handlers, HandlerStep(h) \/ CancelHandler(h) PROVE Quiet \/ \E m : Shows(m)
  <2>1. CASE AcceptReady(h)
    <3> DEFINE m == handler[h].m
    <3>1. /\ handler[h].stage = "registered" /\ m.ch \notin failed /\ m.seq = ordered[m.ch].expected
          /\ ordered[m.ch].inFlight = NoMessage
          /\ shown' = shown \cup {m} /\ UNCHANGED <<completed, failed>>
          /\ ordered' = [ordered EXCEPT ![m.ch].inFlight = m]
      BY <2>1 DEF AcceptReady, Insertable, InsertReady
    <3>2. m \in Traffic /\ Ordered(m)
      BY <3>1 DEF Received, HandlersOK, HandlerShape
    <3>3. \A ch \in Channels : ordered'[ch].expected = ordered[ch].expected
      BY <3>1 DEF Received, StoreOK, GateStates
    <3>4. m \in Carried
      BY <3>1, CarriedHolds
    <3>5. \A x \in shown : Ordered(x) => x.ch # m.ch
      BY <1>1, <3>1, TrafficShape DEF Anchored, ShownIsGate
    <3> QED
      BY <3>1, <3>2, <3>3, <3>4, <3>5 DEF Shows
  <2>2. CASE AcceptBuffered(h)
    <3>1. UNCHANGED <<shown, completed, failed>>
      BY <2>2 DEF AcceptBuffered
    <3>2. \A ch \in Channels : ordered'[ch].expected = ordered[ch].expected
      BY <2>2 DEF AcceptBuffered, Received, StoreOK, GateStates
    <3> QED
      BY <1>1, <3>1, <3>2 DEF Quiet
  <2>3. CASE AcceptRefused(h) \/ RejectIncoming(h) \/ Reack(h) \/ CancelHandler(h)
    <3>1. UNCHANGED <<shown, completed, failed, ordered>>
      BY <2>3 DEF AcceptRefused, RejectIncoming, Reack, CancelHandler, incoming
    <3> QED
      BY <1>1, <3>1 DEF Quiet
  <2> QED
    BY <1>3, <2>1, <2>2, <2>3 DEF HandlerStep
<1>4. ASSUME NEW m \in shown, CompleteIncoming(m) PROVE Quiet \/ \E R : Finishes(m, R)
  <2> DEFINE o == ordered[m.ch]
             R == Released(m)
  <2>1. m \in Active \cap shown
    BY <1>4 DEF CompleteIncoming, MayComplete
  <2>2. /\ \A ch \in Channels \ {m.ch} : ordered'[ch] = ordered[ch]
        /\ \/ o.inFlight # m /\ ordered' = ordered /\ R = {}
           \/ /\ o.inFlight = m /\ R = {x \in o.buffer : x.seq = o.expected + 1}
              /\ ordered'[m.ch] = Advance(o, R)
    BY <1>4, <2>1, CompleteShape
  <2>3. /\ m \in Traffic /\ m.ch \in Channels /\ m # NoMessage /\ m.ch \notin failed
        /\ Ordered(m) => o.inFlight = m
        /\ o.inFlight = m => Ordered(m)
    BY <2>1, ShownFacts
  <2>4. shown' = (shown \ {m}) \cup R /\ completed' = completed \cup {m} /\ failed' = failed
    BY <1>4 DEF CompleteIncoming
  <2>5. CASE o.inFlight # m
    BY <1>1, <2>2, <2>3, <2>4, <2>5 DEF Quiet
  <2>6. CASE o.inFlight = m
    <3>1. R = {x \in o.buffer : x.seq = o.expected + 1} /\ ordered'[m.ch] = Advance(o, R)
      BY <2>2, <2>6
    <3>2. GateOf(o, m.ch) /\ m.seq = o.expected
      BY <2>3, <2>6 DEF Received, Gates, GateOf
    <3>3. \A x \in R : Ordered(x) /\ x.ch = m.ch /\ x.seq = m.seq + 1 /\ x \in Active
      BY <2>3, <3>1, <3>2 DEF GateOf, Anchored, SlotsSound, SlotsOf, Active
    <3>4. ordered'[m.ch].expected = o.expected + 1
      BY <3>1 DEF Advance
    <3>5. \A x \in R : x \in Carried
      BY <3>3, CarriedHolds
    <3> QED
      BY <2>2, <2>3, <2>4, <2>6, <3>2, <3>3, <3>4, <3>5 DEF Finishes
  <2> QED
    BY <2>5, <2>6
<1>5. ASSUME NEW m \in shown, CompleteUnknown(m) PROVE Quiet \/ Withdraws(m)
  <2>1. shown' = shown \ {m} /\ UNCHANGED <<completed, failed, ordered>>
    BY <1>5 DEF CompleteUnknown, incoming
  <2> QED
    BY <1>1, <2>1 DEF Quiet, Withdraws
<1>6. ASSUME NEW m \in Active, AbandonIncoming(m) \/ DeadlineElapses(m) PROVE Quiet
  <2>1. UNCHANGED <<shown, completed>>
    BY <1>6 DEF AbandonIncoming, DeadlineElapses
  <2>2. \A ch \in Channels \ failed' : ch \notin failed /\ ordered'[ch] = ordered[ch]
    BY <1>6 DEF AbandonIncoming, DeadlineElapses, FailOrdered
  <2> QED
    BY <1>1, <2>1, <2>2 DEF Quiet
<1>7. ASSUME ExpireIncoming \/ DedupExpires \/ UNCHANGED receiving PROVE Quiet
  <2>1. UNCHANGED <<shown, completed>>
    BY <1>7 DEF ExpireIncoming, DedupExpires, receiving
  <2>2. \/ UNCHANGED <<ordered, failed>>
        \/ ordered' = OrderedNow /\ failed' = FailedNow
    BY <1>7 DEF ExpireIncoming, DedupExpires, receiving, incoming
  <2>3. \A ch \in Channels \ failed' : ch \notin failed /\ ordered'[ch].expected = ordered[ch].expected
    BY <2>2, NowSlots DEF FailedNow
  <2> QED
    BY <1>1, <2>1, <2>3 DEF Quiet
<1> QED
  BY <1>2, <1>3, <1>4, <1>5, <1>6, <1>7 DEF ReceiveConnected, ReceiveLocal

LEMMA PrefixStep ==
  ASSUME Received, Anchored, Prefix, [ReceiveConnected]_receiving
  PROVE  Prefix'
<1> SUFFICES ASSUME NEW ch \in Channels
             PROVE  \E n \in Nat : /\ OrderedOf(completed', ch) = 0 .. (n - 1)
                                   /\ ch \notin failed' => n = ordered'[ch].expected
  BY DEF Prefix, OrderedOf
<1>1. PICK n \in Nat : /\ OrderedOf(completed, ch) = 0 .. (n - 1)
                       /\ ch \notin failed => n = ordered[ch].expected
  BY DEF Prefix
<1>2. CASE Quiet
  <2>1. OrderedOf(completed', ch) = OrderedOf(completed, ch)
    BY <1>2 DEF Quiet, OrderedOf, Received, AckSound
  <2> QED
    BY <1>1, <1>2, <2>1 DEF Quiet
<1>3. CASE \E m : Shows(m) \/ Withdraws(m)
  BY <1>1, <1>3 DEF Shows, Withdraws
<1>4. ASSUME NEW m, NEW R, Finishes(m, R)
      PROVE  \E k \in Nat : /\ OrderedOf(completed', ch) = 0 .. (k - 1)
                            /\ ch \notin failed' => k = ordered'[ch].expected
  <2>1. CASE ch = m.ch
    <3>1. n = m.seq /\ completed' = completed \cup {m} /\ Ordered(m)
      BY <1>1, <1>4, <2>1 DEF Finishes
    <3>2. OrderedOf(completed', ch) = OrderedOf(completed, ch) \cup {m.seq}
      BY <2>1, <3>1 DEF OrderedOf
    <3>3. 0 .. ((n + 1) - 1) = (0 .. (n - 1)) \cup {n}
      OBVIOUS
    <3>4. OrderedOf(completed', ch) = 0 .. ((n + 1) - 1)
      BY <1>1, <3>1, <3>2, <3>3
    <3>5. n + 1 \in Nat /\ (ch \notin failed' => n + 1 = ordered'[ch].expected)
      BY <1>1, <1>4, <2>1 DEF Finishes
    <3> QED
      BY <3>4, <3>5
  <2>2. CASE ch # m.ch
    <3>1. OrderedOf(completed', ch) = OrderedOf(completed, ch)
      BY <1>4, <2>2 DEF Finishes, OrderedOf
    <3> QED
      BY <1>1, <1>4, <2>2, <3>1 DEF Finishes
  <2> QED
    BY <2>1, <2>2
<1> QED
  BY <1>2, <1>3, <1>4, ViewSteps

\* What the receiver carries of an ordered channel was sent before.
LEMMA CarriedWasSent ==
  ASSUME Joint, NEW m \in Carried, Ordered(m)
  PROVE  m.ch \in Channels /\ m.seq \in Nat /\ nextSequence[m.ch] \in Nat /\ m.seq < nextSequence[m.ch]
<1>1. PICK w \in wrote : w[1] = m
  BY DEF Joint, Underway, Sent
<1>2. m.ch \in Channels /\ m.seq \in Nat /\ nextSequence[m.ch] \in Nat
  BY TrafficShape, DeliveryAssumption DEF Carried, Joint, SendSide, SendIInv, Accounted, SendTypeOK
<1> QED
  BY <1>1, <1>2 DEF Joint, SendSide, WrittenGiven, Ordered

\* The next message of a healthy channel is the one its anchor expects.
LEMMA PrefixNext ==
  ASSUME Prefix, NEW ch \in Channels, ch \notin failed,
         ordered[ch].expected \in Nat, nextSequence[ch] \in Nat, ordered[ch].expected < nextSequence[ch]
  PROVE  AppView!Next(ch) = ordered[ch].expected
<1> DEFINE n == ordered[ch].expected
           P(s) == s \notin OrderedOf(completed, ch)
                   /\ \A r \in 0 .. nextSequence[ch] : r < s => r \in OrderedOf(completed, ch)
<1>1. OrderedOf(completed, ch) = 0 .. (n - 1)
  BY DEF Prefix
<1>2. n \in 0 .. nextSequence[ch] /\ P(n)
  BY <1>1
<1>3. \A s \in 0 .. nextSequence[ch] : P(s) => s = n
  BY <1>1, <1>2
<1>4. (CHOOSE s \in 0 .. nextSequence[ch] : P(s)) = n
  <2> HIDE DEF P, n
  <2> QED
    BY <1>2, <1>3
<1> QED
  BY <1>4 DEF AppView!Next

AppStep == \E ch \in Channels : AppView!Send(ch) \/ AppView!Show(ch) \/ AppView!Finish(ch) \/ AppView!Withdraw(ch)

LEMMA SenderView ==
  ASSUME Joint, [SendNext]_sending, UNCHANGED receiving
  PROVE  AppStep \/ UNCHANGED AppView!vars
<1>1. UNCHANGED <<shown, completed>>
  BY DEF receiving
<1>2. CASE nextSequence' = nextSequence
  BY <1>1, <1>2 DEF AppView!vars
<1>3. CASE \E ch \in SendChannels : nextSequence' = [nextSequence EXCEPT ![ch] = @ + 1]
  BY <1>1, <1>3, DeliveryAssumption DEF AppStep, AppView!Send
<1> QED
  BY <1>2, <1>3, SequencesGrow DEF Joint, SendSide, SendIInv, Accounted

LEMMA ReceiverView ==
  ASSUME Joint, Anchored, Prefix, [ReceiveConnected]_receiving, UNCHANGED sending
  PROVE  AppStep \/ UNCHANGED AppView!vars
<1> DEFINE C(ch) == OrderedOf(completed, ch)
           O(ch) == OrderedOf(shown, ch)
<1>1. nextSequence' = nextSequence /\ Received
  BY DEF sending, store, Joint
<1>2. shown \subseteq Traffic /\ completed \subseteq Traffic /\ shown' \subseteq Traffic
  BY <1>1, ReceivedStep DEF Received, AckSound, ReceiveNext
<1>3. CASE Quiet
  <2>1. \A ch \in Channels : OrderedOf(shown', ch) = O(ch) /\ OrderedOf(completed', ch) = C(ch)
    BY <1>2, <1>3 DEF Quiet, OrderedOf
  <2>2. /\ [ch \in Channels |-> OrderedOf(shown', ch)] = [ch \in Channels |-> O(ch)]
        /\ [ch \in Channels |-> OrderedOf(completed', ch)] = [ch \in Channels |-> C(ch)]
    BY <2>1
  <2> QED
    BY <1>1, <2>2 DEF AppView!vars, OrderedOf
<1>4. ASSUME NEW m, Shows(m) PROVE AppView!Show(m.ch) /\ m.ch \in Channels
  <2>1. /\ m.ch \in Channels /\ m.seq \in Nat
        /\ nextSequence[m.ch] \in Nat /\ m.seq < nextSequence[m.ch]
    BY <1>4, CarriedWasSent DEF Shows
  <2>2. AppView!Next(m.ch) = m.seq
    BY <1>4, <2>1, PrefixNext DEF Shows
  <2>3. O(m.ch) = {}
    BY <1>4 DEF Shows, OrderedOf
  <2>4. OrderedOf(shown', m.ch) = {m.seq} /\ \A ch \in Channels \ {m.ch} : OrderedOf(shown', ch) = O(ch)
    BY <1>4 DEF Shows, OrderedOf
  <2>5. [ch \in Channels |-> OrderedOf(shown', ch)] =
          [[ch \in Channels |-> O(ch)] EXCEPT ![m.ch] = {m.seq}]
    BY <2>1, <2>4
  <2>6. completed' = completed
    BY <1>4 DEF Shows
  <2> QED
    BY <1>1, <2>1, <2>2, <2>3, <2>5, <2>6 DEF AppView!Show, OrderedOf
<1>5. ASSUME NEW m, Withdraws(m) PROVE AppView!Withdraw(m.ch) /\ m.ch \in Channels
  <2>1. m.ch \in Channels /\ m \in shown /\ Ordered(m) /\ shown' = shown \ {m}
    BY <1>5, TrafficShape DEF Withdraws
  <2>2. m.seq \in O(m.ch)
    BY <2>1 DEF OrderedOf
  <2>3. OrderedOf(shown', m.ch) = {}
    BY <2>1 DEF OrderedOf, Anchored, ShownIsGate
  <2>4. \A ch \in Channels \ {m.ch} : OrderedOf(shown', ch) = O(ch)
    BY <2>1 DEF OrderedOf
  <2>5. [ch \in Channels |-> OrderedOf(shown', ch)] =
          [[ch \in Channels |-> O(ch)] EXCEPT ![m.ch] = {}]
    BY <2>1, <2>3, <2>4
  <2>6. completed' = completed
    BY <1>5 DEF Withdraws
  <2> QED
    BY <1>1, <2>1, <2>2, <2>5, <2>6 DEF AppView!Withdraw, OrderedOf
<1>6. ASSUME NEW m, NEW R, Finishes(m, R) PROVE AppView!Finish(m.ch) /\ m.ch \in Channels
  <2>1. /\ m.ch \in Channels /\ m.seq \in Nat /\ m \in shown /\ Ordered(m)
        /\ nextSequence[m.ch] \in Nat /\ m.seq < nextSequence[m.ch]
    BY <1>1, <1>6, CarriedHolds, CarriedWasSent DEF Finishes
  <2>2. AppView!Next(m.ch) = m.seq
    BY <1>6, <2>1, PrefixNext DEF Finishes
  <2>3. O(m.ch) = {m.seq}
    BY <2>1 DEF OrderedOf, Anchored, ShownIsGate
  <2> DEFINE more == {x.seq : x \in R}
  <2>4. more \in {{}, {m.seq + 1}}
    BY <1>6 DEF Finishes
  <2>5. \A s \in more : s < nextSequence[m.ch]
    BY <1>6, CarriedWasSent DEF Finishes
  <2>6. OrderedOf(shown', m.ch) = more
    BY <1>6, <2>1 DEF Finishes, OrderedOf, Anchored, ShownIsGate
  <2>7. \A ch \in Channels \ {m.ch} : OrderedOf(shown', ch) = O(ch)
    BY <1>6 DEF Finishes, OrderedOf
  <2>8. [ch \in Channels |-> OrderedOf(shown', ch)] =
          [[ch \in Channels |-> O(ch)] EXCEPT ![m.ch] = more]
    BY <2>1, <2>6, <2>7
  <2>9. /\ OrderedOf(completed', m.ch) = C(m.ch) \cup O(m.ch)
        /\ \A ch \in Channels \ {m.ch} : OrderedOf(completed', ch) = C(ch)
    BY <1>6, <2>3 DEF Finishes, OrderedOf
  <2>10. [ch \in Channels |-> OrderedOf(completed', ch)] =
           [[ch \in Channels |-> C(ch)] EXCEPT ![m.ch] = @ \cup O(m.ch)]
    BY <2>1, <2>9
  <2> HIDE DEF more
  <2> QED
    BY <1>1, <2>1, <2>2, <2>3, <2>4, <2>5, <2>8, <2>10 DEF AppView!Finish, OrderedOf
<1> QED
  BY <1>1, <1>3, <1>4, <1>5, <1>6, ViewSteps DEF AppStep

\* As long as nobody disconnects the peer explicitly, the stores, tasks, handlers,
\* retries, timeouts and the lossy, reordering paths together implement the ordered
\* channel OrderedChannel promises: the receiving application is shown the messages
\* of a channel one at a time, in order, without gaps and never again once finished.
THEOREM ChannelIsOrdered ==
  ASSUME MayClose = FALSE
  PROVE  Spec => ImplementsOrderedChannel
<1> DEFINE Inv == Joint /\ Anchored /\ Prefix
<1>1. Init => Inv
  <2> SUFFICES ASSUME Init PROVE Prefix
    BY JointInit, AnchoredInit DEF Init
  <2>1. completed = {} /\ \A ch \in Channels : ordered[ch].expected = 0
    BY DEF Init, ReceiveInit, Default
  <2>2. \A ch \in Channels : OrderedOf(completed, ch) = 0 .. (0 - 1)
    BY <2>1 DEF OrderedOf
  <2> QED
    BY <2>1, <2>2 DEF Prefix
<1>2. Inv /\ [Next]_vars => Inv'
  BY JointStep, StepsProject, AnchoredStep, PrefixStep DEF Joint
<1>3. Inv /\ [Next]_vars => [AppStep]_(AppView!vars)
  <2> SUFFICES ASSUME Inv, [Next]_vars PROVE AppStep \/ UNCHANGED AppView!vars
    OBVIOUS
  <2>1. [SendNext]_sending /\ [ReceiveConnected]_receiving
    BY StepsProject
  <2>2. UNCHANGED sending \/ UNCHANGED receiving
    BY DEF Next, Step, Transmit, Deliver, Complete, RepeatAck, ReceiveAck, Lose, vars
  <2> QED
    BY <2>1, <2>2, SenderView, ReceiverView
<1>4. Init => AppView!Init
  <2> SUFFICES ASSUME Init PROVE AppView!Init
    OBVIOUS
  <2>1. shown = {} /\ completed = {} /\ nextSequence = [ch \in Channels |-> 0]
    BY DeliveryAssumption DEF Init, ReceiveInit, SendInit
  <2>2. \A ch \in Channels : OrderedOf(completed, ch) = {} /\ OrderedOf(shown, ch) = {}
    BY <2>1 DEF OrderedOf
  <2> QED
    BY <2>1, <2>2 DEF AppView!Init
<1>5. Spec => AppView!Init /\ [][AppStep]_(AppView!vars)
  <2> HIDE DEF Inv
  <2> QED
    BY <1>1, <1>2, <1>3, <1>4, PTL DEF Spec
<1> QED
  BY <1>5 DEF ImplementsOrderedChannel, AppView!Spec, AppStep
=============================================================================
