-------------------------- MODULE RelayClientProofs --------------------------
(***************************************************************************)
(* Safety proofs of RelayClient: calls and replies are paired, for any     *)
(* number of concurrent callers, attempt ids, queue capacities and         *)
(* disturbances.                                                           *)
(***************************************************************************)
EXTENDS RelayClient, SequenceTheorems, TLAPS

-----------------------------------------------------------------------------
(* The inductive invariant                                                 *)

RcOps == {"resolve", "begin", "signal", "publish", "reserve", "ping"}
RcNotes == {RcNone, "ready", "other", "invalid"} \cup RcAttemptIds
RcFrames == [kind : RcKinds, id : Nat, note : RcNotes]
RcPeers == {RcPeerOf[c] : c \in RcCallers} \cup {RcNone}
RcOutFrames == [kind : RcOps \cup {"offer", "close"}, id : Nat, attempt : RcAttemptIds \cup {RcNone},
                peer : RcPeers]
RcCalls == [pc : {"idle", "lock", "register", "send", "wait", "track", "offer", "answer", "done"},
            op : RcOps \cup {RcNone}, attempt : RcAttemptIds \cup {RcNone}, id : Nat, box : RcFrames,
            result : {RcNone, "ok", "failed"}]

Expected(c) == IF rcCall[c].op = "begin" THEN "resolve" ELSE rcCall[c].op
Requesting(c) == rcCall[c].pc \in {"send", "wait"}
Coordinates(c) == rcCall[c].op \in {"resolve", "begin"}

\* Where a call can be, and with which ids: an id is given out once.
RecordOK(r) ==
    /\ r.pc \notin {"idle", "done"} => r.op # RcNone /\ r.attempt \in RcAttemptIds
    /\ r.pc = "lock" => r.op \in {"resolve", "begin"}
    /\ r.pc \in {"track", "offer", "answer"} => r.op = "begin"
    /\ r.pc \in {"register", "wait"} => r.op # "signal"
    /\ r.pc \in {"send", "wait"} => r.id # 0
    /\ r.pc \in {"idle", "lock", "register", "done"} => r.id = 0
    /\ r.pc \in {"idle", "lock", "register", "track", "done"} => r.box = RcEmpty
CallsOK ==
    /\ rcCall \in [RcCallers -> RcCalls] /\ rcNextId \in 1..(RcMaxIds + 1)
    /\ \A c \in RcCallers : RecordOK(rcCall[c]) /\ rcCall[c].id < rcNextId
    /\ \A c, d \in RcCallers : rcCall[c].id # 0 /\ rcCall[c].id = rcCall[d].id => c = d

\* The gate is held from the Resolve to the Offer of one call.
Inside(c) == Coordinates(c) /\ rcCall[c].pc \in {"register", "send", "wait", "track", "offer"}
GateOK ==
    /\ rcGate \in RcCallers \cup {RcNone}
    /\ \A c \in RcCallers : Inside(c) => rcGate = c

\* Registrations: under the caller's id or attempt, and one for each empty oneshot.
BoxOK(r) ==
    /\ r.pc = "send" => r.box \in {RcEmpty, RcDisconnected}
    /\ r.pc = "wait" /\ r.box # RcEmpty =>
          r.box.kind \in {IF r.op = "begin" THEN "resolve" ELSE r.op, "error", "disconnected"}
PendingOK ==
    /\ rcPending \in [RcIds -> RcCallers \cup {RcNone}]
    /\ \A i \in RcIds, c \in RcCallers : rcPending[i] = c =>
          (rcCall[c].id = i /\ Requesting(c)) \/ rcCall[c].pc = "done"
    /\ \A c \in RcCallers :
          /\ Requesting(c) /\ rcCall[c].op # "signal" /\ rcCall[c].box = RcEmpty => rcPending[rcCall[c].id] = c
          /\ BoxOK(rcCall[c])
TrackedOK ==
    /\ rcTracked \in [RcAttemptIds -> RcCallers \cup {RcNone}]
    /\ \A a \in RcAttemptIds, c \in RcCallers : rcTracked[a] = c =>
          rcCall[c].attempt = a /\ rcCall[c].pc \in {"offer", "answer"}
    /\ \A c \in RcCallers :
          rcCall[c].pc \in {"offer", "answer"} /\ rcCall[c].box = RcEmpty => rcTracked[rcCall[c].attempt] = c
    /\ \A c \in RcCallers :
          rcCall[c].op = "begin" /\ rcCall[c].pc \in {"register", "send", "wait", "track"}
             => rcTracked[rcCall[c].attempt] = RcNone

\* Frames on their way to the relay, in the order the relay will see them: the frame of a
\* call that waits is its request, and no Resolve or Offer of another call is behind it;
\* an Offer is for the target the relay remembers, and no Resolve or Offer is before it.
Steers(f) == f.kind \in {"resolve", "offer"}
OutOK ==
    /\ rcOut \in Seq(RcOutFrames)
    /\ \A j \in 1..Len(rcOut) : rcOut[j].id < rcNextId
    /\ \A j \in 1..Len(rcOut), c \in RcCallers :
          Requesting(c) /\ rcOut[j].id = rcCall[c].id =>
             /\ rcCall[c].pc = "wait" /\ rcOut[j].kind = Expected(c) /\ rcOut[j].peer = RcPeerOf[c]
             /\ Coordinates(c) => \A i \in (j + 1)..Len(rcOut) : ~Steers(rcOut[i])
    /\ \A j \in 1..Len(rcOut) : rcOut[j].kind = "offer" =>
          rcTarget = rcOut[j].peer /\ \A i \in 1..(j - 1) : ~Steers(rcOut[i])

\* Frames on their way to the reader: a reply carries the id of its request and nothing
\* of an attempt, and one that a call waits for is of the kind the call expects.
InOK ==
    /\ rcIn \in Seq(RcFrames)
    /\ \A j \in 1..Len(rcIn) :
          /\ rcIn[j].kind # "empty" /\ rcIn[j].id < rcNextId
          /\ rcIn[j].note \in RcAttemptIds => rcIn[j].id = 0
    /\ \A j \in 1..Len(rcIn), c \in RcCallers :
          Requesting(c) /\ rcIn[j].id = rcCall[c].id =>
             rcCall[c].pc = "wait" /\ rcIn[j].kind \in {Expected(c), "error"}

\* From its READY reply to its Offer, a call is the last that steered the relay.
ReadyFor(c) ==
    \/ rcCall[c].pc \in {"track", "offer"}
    \/ /\ rcCall[c].pc = "wait" /\ rcCall[c].op = "begin"
       /\ \/ rcCall[c].box.note = "ready"
          \/ \E j \in 1..Len(rcIn) : rcIn[j].id = rcCall[c].id /\ rcIn[j].note = "ready"
TargetOK ==
    \A c \in RcCallers : ReadyFor(c) =>
        rcTarget = RcPeerOf[c] /\ \A j \in 1..Len(rcOut) : ~Steers(rcOut[j])

\* One of the tasks reports the end of the socket, if any does.
EndOK ==
    /\ {rcUp, rcConnected, rcNotified, rcIntentional} \subseteq BOOLEAN
    /\ rcConsumer \in {"run", "gone"} /\ rcCloser \in {"idle", "drain", "done"}
    /\ rcEvents \in Seq(RcFrames) /\ Len(rcEvents) <= RcEventCap /\ Len(rcOut) <= RcOutCap
    /\ rcTask \in [RcTasks -> {"run", "mark", "report", "end"}]
    /\ rcHistory \in [spent : Nat, reports : {0, 1}, wrong : {FALSE}]
    /\ ~rcNotified => rcHistory.reports = 0 /\ \A t \in RcTasks : rcTask[t] # "report"
    /\ \A t \in RcTasks : rcTask[t] = "report" =>
          rcHistory.reports = 0 /\ \A u \in RcTasks : rcTask[u] = "report" => u = t

RcInv == CallsOK /\ GateOK /\ PendingOK /\ TrackedOK /\ OutOK /\ InOK /\ TargetOK /\ EndOK

-----------------------------------------------------------------------------
(* Frames: what a change of one call leaves alone                          *)

\* Caller c has become r, the others are as they were.
Becomes(c, r) ==
    /\ rcCall' \in [RcCallers -> RcCalls] /\ rcCall'[c] = r
    /\ \A d \in RcCallers : d # c => rcCall'[d] = rcCall[d]

\* A call that waits for a reply after the step waited for the same reply before it,
\* or has an id nobody has seen.
Mild(c) ==
    Requesting(c)' =>
        \/ /\ Requesting(c) /\ rcCall'[c].id = rcCall[c].id /\ rcCall'[c].op = rcCall[c].op
           /\ rcCall[c].pc = "wait" => rcCall'[c].pc = "wait"
        \/ rcCall'[c].id >= rcNextId

LEMMA NoneIsNoCaller ==
  ASSUME NEW c \in RcCallers PROVE c # RcNone
BY RelayClientAssumption DEF RcNone

LEMMA OutTyped ==
  ASSUME OutOK, NEW j \in 1..Len(rcOut)
  PROVE  rcOut[j] \in RcOutFrames /\ rcOut[j].id \in Nat /\ Len(rcOut) \in Nat /\ j \in Nat
<1>1. rcOut \in Seq(RcOutFrames)
  BY DEF OutOK
<1>2. rcOut[j] \in RcOutFrames /\ Len(rcOut) \in Nat
  BY <1>1, ElementOfSeq, LenProperties
<1> QED
  BY <1>2 DEF RcOutFrames

LEMMA InTyped ==
  ASSUME InOK, NEW j \in 1..Len(rcIn)
  PROVE  rcIn[j] \in RcFrames /\ rcIn[j].id \in Nat /\ rcIn[j].kind \in RcKinds /\ rcIn[j].note \in RcNotes
<1>1. rcIn \in Seq(RcFrames)
  BY DEF InOK
<1>2. rcIn[j] \in RcFrames
  BY <1>1, ElementOfSeq
<1> QED
  BY <1>2 DEF RcFrames

LEMMA CallTyped ==
  ASSUME CallsOK, NEW c \in RcCallers
  PROVE  /\ rcCall[c] \in RcCalls /\ rcCall[c].id \in Nat /\ rcNextId \in Nat /\ rcNextId # 0
         /\ rcCall[c].op \in RcOps \cup {RcNone} /\ rcCall[c].box \in RcFrames
         /\ rcCall[c].attempt \in RcAttemptIds \cup {RcNone} /\ rcCall[c].result \in {RcNone, "ok", "failed"}
         /\ rcCall[c].pc \in {"idle", "lock", "register", "send", "wait", "track", "offer", "answer", "done"}
<1>1. rcCall[c] \in RcCalls /\ rcNextId \in 1..(RcMaxIds + 1)
  BY DEF CallsOK
<1>2. rcNextId \in Nat /\ rcNextId # 0
  BY <1>1, RelayClientAssumption
<1> QED
  BY <1>1, <1>2 DEF RcCalls

LEMMA OutFrame ==
  ASSUME CallsOK, CallsOK', OutOK, UNCHANGED <<rcOut, rcTarget>>, rcNextId' >= rcNextId,
         \A c \in RcCallers : Mild(c)
  PROVE  OutOK'
<1>0. rcNextId \in Nat /\ rcNextId' \in Nat
  BY RelayClientAssumption DEF CallsOK
<1>1. \A j \in 1..Len(rcOut) : rcOut[j].id \in Nat /\ rcOut[j].id < rcNextId
  BY OutTyped DEF OutOK
<1>2. \A j \in 1..Len(rcOut) : rcOut[j].id < rcNextId'
  BY <1>0, <1>1
<1>3. ASSUME NEW j \in 1..Len(rcOut), NEW c \in RcCallers, Requesting(c)', rcOut[j].id = rcCall'[c].id
      PROVE  /\ Requesting(c) /\ rcOut[j].id = rcCall[c].id /\ rcCall'[c].op = rcCall[c].op
             /\ rcCall[c].pc = "wait" => rcCall'[c].pc = "wait"
  <2>1. ~(rcCall'[c].id >= rcNextId)
    BY <1>0, <1>1, <1>3
  <2> QED
    BY <1>3, <2>1 DEF Mild
<1>4. ASSUME NEW j \in 1..Len(rcOut), NEW c \in RcCallers, Requesting(c)', rcOut[j].id = rcCall'[c].id
      PROVE  /\ rcCall'[c].pc = "wait" /\ rcOut[j].kind = Expected(c)' /\ rcOut[j].peer = RcPeerOf[c]
             /\ Coordinates(c)' => \A i \in (j + 1)..Len(rcOut) : ~Steers(rcOut[i])
  <2>1. /\ Requesting(c) /\ rcOut[j].id = rcCall[c].id /\ rcCall'[c].op = rcCall[c].op
        /\ rcCall[c].pc = "wait" => rcCall'[c].pc = "wait"
    BY <1>3, <1>4
  <2>2. /\ rcCall[c].pc = "wait" /\ rcOut[j].kind = Expected(c) /\ rcOut[j].peer = RcPeerOf[c]
        /\ Coordinates(c) => \A i \in (j + 1)..Len(rcOut) : ~Steers(rcOut[i])
    BY <2>1 DEF OutOK
  <2> QED
    BY <2>1, <2>2 DEF Expected, Coordinates
<1>5. \A j \in 1..Len(rcOut) : rcOut[j].kind = "offer" =>
          rcTarget' = rcOut[j].peer /\ \A i \in 1..(j - 1) : ~Steers(rcOut[i])
  BY DEF OutOK
<1>6. rcOut' \in Seq(RcOutFrames)
  BY DEF OutOK
<1> QED
  BY <1>2, <1>4, <1>5, <1>6 DEF OutOK, Steers

LEMMA InFrame ==
  ASSUME CallsOK, CallsOK', InOK, UNCHANGED rcIn, rcNextId' >= rcNextId, \A c \in RcCallers : Mild(c)
  PROVE  InOK'
<1>0. rcNextId \in Nat /\ rcNextId' \in Nat
  BY RelayClientAssumption DEF CallsOK
<1>1. \A j \in 1..Len(rcIn) : rcIn[j].id \in Nat /\ rcIn[j].id < rcNextId
  BY InTyped DEF InOK
<1>2. \A j \in 1..Len(rcIn) : rcIn[j].id < rcNextId'
  BY <1>0, <1>1
<1>3. ASSUME NEW j \in 1..Len(rcIn), NEW c \in RcCallers, Requesting(c)', rcIn[j].id = rcCall'[c].id
      PROVE  rcCall'[c].pc = "wait" /\ rcIn[j].kind \in {Expected(c)', "error"}
  <2>1. ~(rcCall'[c].id >= rcNextId)
    BY <1>0, <1>1, <1>3
  <2>2. /\ Requesting(c) /\ rcIn[j].id = rcCall[c].id /\ rcCall'[c].op = rcCall[c].op
        /\ rcCall[c].pc = "wait" => rcCall'[c].pc = "wait"
    BY <1>3, <2>1 DEF Mild
  <2>3. rcCall[c].pc = "wait" /\ rcIn[j].kind \in {Expected(c), "error"}
    BY <2>2 DEF InOK
  <2> QED
    BY <2>2, <2>3 DEF Expected
<1> QED
  BY <1>2, <1>3 DEF InOK

LEMMA TargetFrame ==
  ASSUME TargetOK, UNCHANGED <<rcOut, rcTarget>>, \A c \in RcCallers : ReadyFor(c)' => ReadyFor(c)
  PROVE  TargetOK'
BY DEF TargetOK, Steers

LEMMA CallsMove ==
  ASSUME CallsOK, NEW c \in RcCallers, NEW r, Becomes(c, r), RecordOK(r),
         \/ r.id \in {0, rcCall[c].id} /\ rcNextId' = rcNextId
         \/ r.id = rcNextId /\ rcNextId' = rcNextId + 1 /\ rcNextId <= RcMaxIds
  PROVE  CallsOK' /\ rcNextId' >= rcNextId
<1>0. rcNextId \in 1..(RcMaxIds + 1) /\ RcMaxIds \in Nat /\ rcNextId \in Nat
  BY RelayClientAssumption DEF CallsOK
<1>1. rcNextId' \in 1..(RcMaxIds + 1) /\ rcNextId' >= rcNextId
  BY <1>0
<1>2. \A d \in RcCallers : rcCall[d].id \in Nat /\ rcCall[d].id < rcNextId /\ RecordOK(rcCall[d])
  BY CallTyped DEF CallsOK
<1>3. rcCall'[c] = r /\ \A d \in RcCallers : d # c => rcCall'[d] = rcCall[d]
  BY DEF Becomes
<1>4. \A d \in RcCallers : rcCall'[d].id < rcNextId'
  BY <1>0, <1>1, <1>2, <1>3
<1>5. \A d \in RcCallers : RecordOK(rcCall'[d])
  BY <1>2, <1>3
<1>6. \A d \in RcCallers : d # c /\ rcCall[d].id # 0 => r.id # rcCall[d].id
  BY <1>0, <1>2 DEF CallsOK
<1>7. \A d, e \in RcCallers : rcCall'[d].id # 0 /\ rcCall'[d].id = rcCall'[e].id => d = e
  BY <1>3, <1>6 DEF CallsOK
<1> QED
  BY <1>1, <1>4, <1>5, <1>7 DEF CallsOK, Becomes

LEMMA MildMove ==
  ASSUME NEW c \in RcCallers, NEW r, Becomes(c, r),
         r.pc \in {"send", "wait"} =>
            \/ /\ Requesting(c) /\ r.id = rcCall[c].id /\ r.op = rcCall[c].op
               /\ rcCall[c].pc = "wait" => r.pc = "wait"
            \/ r.id >= rcNextId
  PROVE  \A d \in RcCallers : Mild(d)
<1>1. rcCall'[c] = r /\ \A d \in RcCallers : d # c => rcCall'[d] = rcCall[d]
  BY DEF Becomes
<1>2. Mild(c)
  BY <1>1 DEF Mild, Requesting
<1>3. ASSUME NEW d \in RcCallers, d # c PROVE Mild(d)
  BY <1>1, <1>3 DEF Mild, Requesting
<1> QED
  BY <1>2, <1>3

LEMMA GateMove ==
  ASSUME GateOK, NEW c \in RcCallers, NEW r, Becomes(c, r),
         rcGate' = rcGate \/ ReleaseGate(c) \/ (rcGate = RcNone /\ rcGate' = c),
         r.op \in {"resolve", "begin"} /\ r.pc \in {"register", "send", "wait", "track", "offer"} => rcGate' = c
  PROVE  GateOK'
<1>1. rcCall'[c] = r /\ \A d \in RcCallers : d # c => rcCall'[d] = rcCall[d]
  BY DEF Becomes
<1>2. rcGate' \in RcCallers \cup {RcNone}
  BY DEF GateOK, ReleaseGate
<1>3. Inside(c)' => rcGate' = c
  BY <1>1 DEF Inside, Coordinates
<1>4. ASSUME NEW d \in RcCallers, d # c, Inside(d)' PROVE rcGate' = d
  <2>1. Inside(d)
    BY <1>1, <1>4 DEF Inside, Coordinates
  <2>2. rcGate = d
    BY <2>1 DEF GateOK
  <2> QED
    BY <1>4, <2>2, NoneIsNoCaller DEF ReleaseGate
<1> QED
  BY <1>2, <1>3, <1>4 DEF GateOK

\* The reply or the box that makes a call ready is not new.
LEMMA ReadyMove ==
  ASSUME NEW c \in RcCallers, NEW r, Becomes(c, r), UNCHANGED rcIn,
         r.pc \in {"track", "offer"} => ReadyFor(c),
         r.pc = "wait" /\ r.op = "begin" =>
            \/ rcCall[c].pc = "wait" /\ rcCall[c].op = "begin" /\ r.id = rcCall[c].id /\ r.box = rcCall[c].box
            \/ r.box.note # "ready" /\ \A j \in 1..Len(rcIn) : rcIn[j].id # r.id
  PROVE  \A d \in RcCallers : ReadyFor(d)' => ReadyFor(d)
<1>1. rcCall'[c] = r /\ \A d \in RcCallers : d # c => rcCall'[d] = rcCall[d]
  BY DEF Becomes
<1>2. ReadyFor(c)' => ReadyFor(c)
  BY <1>1 DEF ReadyFor
<1>3. ASSUME NEW d \in RcCallers, d # c PROVE ReadyFor(d)' => ReadyFor(d)
  BY <1>1, <1>3 DEF ReadyFor
<1> QED
  BY <1>2, <1>3

LEMMA PendingMove ==
  ASSUME CallsOK, PendingOK, NEW c \in RcCallers, NEW r, Becomes(c, r), BoxOK(r),
         rcPending' \in [RcIds -> RcCallers \cup {RcNone}],
         \A i \in RcIds : \/ rcPending'[i] = rcPending[i]
                          \/ i = rcCall[c].id /\ rcPending'[i] = RcNone
                          \/ i = r.id /\ rcPending'[i] = c /\ r.id >= rcNextId,
         \A i \in RcIds : rcPending'[i] = c => (r.id = i /\ r.pc \in {"send", "wait"}) \/ r.pc = "done",
         r.pc \in {"send", "wait"} /\ r.op # "signal" /\ r.box = RcEmpty => rcPending'[r.id] = c
  PROVE  PendingOK'
<1>1. rcCall'[c] = r /\ \A d \in RcCallers : d # c => rcCall'[d] = rcCall[d]
  BY DEF Becomes
<1>2. ASSUME NEW d \in RcCallers, d # c
      PROVE  /\ \A i \in RcIds : rcPending'[i] = d =>
                   (rcCall'[d].id = i /\ Requesting(d)') \/ rcCall'[d].pc = "done"
             /\ Requesting(d)' /\ rcCall'[d].op # "signal" /\ rcCall'[d].box = RcEmpty
                   => rcPending'[rcCall'[d].id] = d
  <2>1. rcCall'[d] = rcCall[d] /\ d # RcNone
    BY <1>1, <1>2, NoneIsNoCaller
  <2>2. \A i \in RcIds : rcPending'[i] = d => rcPending[i] = d
    BY <1>2, <2>1
  <2>3. \A i \in RcIds : rcPending'[i] = d => (rcCall'[d].id = i /\ Requesting(d)') \/ rcCall'[d].pc = "done"
    BY <2>1, <2>2 DEF PendingOK, Requesting
  <2>4. ASSUME Requesting(d)', rcCall'[d].op # "signal", rcCall'[d].box = RcEmpty
        PROVE  rcPending'[rcCall'[d].id] = d
    <3>1. Requesting(d) /\ rcPending[rcCall[d].id] = d
      BY <2>1, <2>4 DEF PendingOK, Requesting
    <3>2. rcCall[d].id # 0 /\ rcCall[d].id < rcNextId /\ rcCall[d].id \in Nat /\ rcNextId \in Nat
      BY <3>1, CallTyped DEF CallsOK, RecordOK, Requesting
    <3>3. rcCall[d].id # rcCall[c].id
      BY <1>2, <3>2 DEF CallsOK
    <3>4. rcCall[d].id \in RcIds
      BY <3>2, RelayClientAssumption DEF CallsOK, RcIds
    <3>5. ~(rcCall[d].id = r.id /\ r.id >= rcNextId)
      BY <3>2
    <3> QED
      BY <2>1, <3>1, <3>3, <3>4, <3>5
  <2> QED
    BY <2>3, <2>4
<1>3. /\ \A i \in RcIds : rcPending'[i] = c => (rcCall'[c].id = i /\ Requesting(c)') \/ rcCall'[c].pc = "done"
      /\ Requesting(c)' /\ rcCall'[c].op # "signal" /\ rcCall'[c].box = RcEmpty => rcPending'[rcCall'[c].id] = c
  BY <1>1 DEF Requesting
<1>4. \A d \in RcCallers : BoxOK(rcCall'[d])
  BY <1>1 DEF PendingOK
<1> QED
  BY <1>2, <1>3, <1>4 DEF PendingOK

LEMMA TrackedMove ==
  ASSUME GateOK, TrackedOK, NEW c \in RcCallers, NEW r, Becomes(c, r),
         rcTracked' \in [RcAttemptIds -> RcCallers \cup {RcNone}], CallsOK,
         \A a \in RcAttemptIds :
            \/ rcTracked'[a] = rcTracked[a]
            \/ rcTracked[a] = c /\ rcTracked'[a] = RcNone
            \/ rcTracked[a] = RcNone /\ rcTracked'[a] = c /\ Inside(c),
         \A a \in RcAttemptIds : rcTracked'[a] = c => r.attempt = a /\ r.pc \in {"offer", "answer"},
         r.pc \in {"offer", "answer"} /\ r.box = RcEmpty => rcTracked'[r.attempt] = c,
         r.op = "begin" /\ r.pc \in {"register", "send", "wait", "track"} => rcTracked'[r.attempt] = RcNone
  PROVE  TrackedOK'
<1>1. rcCall'[c] = r /\ \A d \in RcCallers : d # c => rcCall'[d] = rcCall[d]
  BY DEF Becomes
<1>2. ASSUME NEW d \in RcCallers, d # c
      PROVE  /\ \A a \in RcAttemptIds : rcTracked'[a] = d =>
                   rcCall'[d].attempt = a /\ rcCall'[d].pc \in {"offer", "answer"}
             /\ rcCall'[d].pc \in {"offer", "answer"} /\ rcCall'[d].box = RcEmpty
                   => rcTracked'[rcCall'[d].attempt] = d
             /\ rcCall'[d].op = "begin" /\ rcCall'[d].pc \in {"register", "send", "wait", "track"}
                   => rcTracked'[rcCall'[d].attempt] = RcNone
  <2>1. rcCall'[d] = rcCall[d] /\ d # RcNone /\ c # RcNone
    BY <1>1, <1>2, NoneIsNoCaller
  <2>2. \A a \in RcAttemptIds : rcTracked'[a] = d => rcTracked[a] = d
    BY <1>2, <2>1
  <2>3. rcCall[d].pc \notin {"idle", "done"} => rcCall[d].attempt \in RcAttemptIds
    BY DEF CallsOK, RecordOK
  <2>4. rcCall[d].pc \in {"offer", "answer"} /\ rcCall[d].box = RcEmpty => rcTracked'[rcCall[d].attempt] = d
    BY <1>2, <2>1, <2>3 DEF TrackedOK
  <2>5. ASSUME rcCall[d].op = "begin", rcCall[d].pc \in {"register", "send", "wait", "track"}
        PROVE  rcTracked'[rcCall[d].attempt] = RcNone
    <3>1. Inside(d)
      BY <2>5 DEF Inside, Coordinates
    <3>2. ~Inside(c)
      BY <1>2, <3>1 DEF GateOK
    <3>3. rcTracked[rcCall[d].attempt] = RcNone
      BY <2>5 DEF TrackedOK
    <3> QED
      BY <2>1, <2>3, <2>5, <3>2, <3>3
  <2> QED
    BY <2>1, <2>2, <2>4, <2>5 DEF TrackedOK
<1>3. /\ \A a \in RcAttemptIds : rcTracked'[a] = c =>
            rcCall'[c].attempt = a /\ rcCall'[c].pc \in {"offer", "answer"}
      /\ rcCall'[c].pc \in {"offer", "answer"} /\ rcCall'[c].box = RcEmpty => rcTracked'[rcCall'[c].attempt] = c
      /\ rcCall'[c].op = "begin" /\ rcCall'[c].pc \in {"register", "send", "wait", "track"}
            => rcTracked'[rcCall'[c].attempt] = RcNone
  BY <1>1
<1> QED
  BY <1>2, <1>3 DEF TrackedOK

LEMMA EndFrame ==
  ASSUME EndOK, Len(rcOut') <= RcOutCap,
         UNCHANGED <<rcUp, rcConnected, rcNotified, rcIntentional, rcConsumer, rcCloser, rcEvents, rcTask,
                     rcOffered, rcHistory>>
  PROVE  EndOK'
BY DEF EndOK

-----------------------------------------------------------------------------
(* Calls that end                                                          *)

LEMMA FrameFacts ==
  /\ RcEmpty \in RcFrames /\ RcDropped \in RcFrames /\ RcDisconnected \in RcFrames
  /\ RcEmpty.note # "ready" /\ RcDisconnected.note # "ready" /\ RcDropped.note # "ready"
  /\ RcDisconnected.kind = "disconnected" /\ RcEmpty # RcDisconnected /\ RcDropped # RcEmpty
<1>1. RcNone \in RcNotes /\ RcNone # "ready"
  BY DEF RcNotes, RcNone
<1>2. RcEmpty.kind = "empty" /\ RcDisconnected.kind = "disconnected" /\ RcDropped.kind = "dropped"
  BY DEF RcEmpty, RcDropped, RcDisconnected, RcFrame
<1>3. RcEmpty.note = RcNone /\ RcDisconnected.note = RcNone /\ RcDropped.note = RcNone
  BY DEF RcEmpty, RcDropped, RcDisconnected, RcFrame
<1>4. RcEmpty \in RcFrames /\ RcDropped \in RcFrames /\ RcDisconnected \in RcFrames
  BY <1>1 DEF RcEmpty, RcDropped, RcDisconnected, RcFrame, RcFrames, RcKinds
<1> QED
  BY <1>1, <1>2, <1>3, <1>4

\* The record of a call that has returned.
Returned(result) == [pc |-> "done", op |-> RcNone, attempt |-> RcNone, id |-> 0, box |-> RcEmpty,
                     result |-> result]

LEMMA FinishBecomes ==
  ASSUME CallsOK, NEW c \in RcCallers, NEW result \in {"ok", "failed"}, Finish(c, result)
  PROVE  Becomes(c, Returned(result)) /\ ReleaseGate(c)
<1>1. [RcIdle EXCEPT !.pc = "done", !.result = result] = Returned(result)
  <2> DEFINE ended == [RcIdle EXCEPT !.pc = "done"]
  <2>1. ended = [pc |-> "done", op |-> RcNone, attempt |-> RcNone, id |-> 0, box |-> RcEmpty, result |-> RcNone]
    BY DEF RcIdle
  <2> HIDE DEF ended
  <2>2. [ended EXCEPT !.result = result] = Returned(result)
    BY <2>1 DEF Returned
  <2> QED
    BY <2>2 DEF ended
<1>2. Returned(result) \in RcCalls
  BY FrameFacts DEF Returned, RcCalls
<1>3. rcCall' = [rcCall EXCEPT ![c] = Returned(result)] /\ ReleaseGate(c)
  BY <1>1 DEF Finish
<1>4. rcCall \in [RcCallers -> RcCalls]
  BY DEF CallsOK
<1> QED
  BY <1>2, <1>3, <1>4 DEF Becomes

\* The registrations of a call that returns: its request may be forgotten, its tracker is.
LEMMA FinishCalls ==
  ASSUME RcInv, NEW c \in RcCallers, NEW result \in {"ok", "failed"}, Finish(c, result),
         ForgetRequest(c) \/ UNCHANGED rcPending,
         RemoveIfOwner(c) \/ (UNCHANGED rcTracked /\ rcCall[c].pc \notin {"offer", "answer"}),
         UNCHANGED <<rcNextId, rcIn>>
  PROVE  /\ CallsOK' /\ GateOK' /\ PendingOK' /\ TrackedOK' /\ InOK'
         /\ \A d \in RcCallers : Mild(d) /\ (ReadyFor(d)' => ReadyFor(d))
<1> DEFINE r == Returned(result)
<1>0. CallsOK /\ GateOK /\ PendingOK /\ TrackedOK /\ InOK
  BY DEF RcInv
<1>1. Becomes(c, r) /\ ReleaseGate(c)
  BY <1>0, FinishBecomes
<1>2. r.pc = "done" /\ r.op = RcNone /\ r.id = 0 /\ r.box = RcEmpty
  BY DEF Returned
<1> HIDE DEF r
<1>3. RecordOK(r) /\ BoxOK(r)
  BY <1>2 DEF RecordOK, BoxOK
<1>4. CallsOK' /\ rcNextId' >= rcNextId
  BY <1>0, <1>1, <1>2, <1>3, CallsMove
<1>5. GateOK'
  BY <1>0, <1>1, <1>2, GateMove
<1>6. PendingOK'
  <2>1. /\ rcPending' \in [RcIds -> RcCallers \cup {RcNone}]
        /\ \A i \in RcIds : rcPending'[i] = rcPending[i] \/ (i = rcCall[c].id /\ rcPending'[i] = RcNone)
    BY <1>0 DEF ForgetRequest, PendingOK
  <2> QED
    BY <1>0, <1>1, <1>2, <1>3, <2>1, PendingMove
<1>7. TrackedOK'
  <2>1. /\ rcTracked' \in [RcAttemptIds -> RcCallers \cup {RcNone}]
        /\ \A a \in RcAttemptIds : rcTracked'[a] = IF rcTracked[a] = c THEN RcNone ELSE rcTracked[a]
    <3>1. CASE RemoveIfOwner(c)
      BY <1>0, <3>1 DEF RemoveIfOwner, TrackedOK
    <3>2. CASE UNCHANGED rcTracked /\ rcCall[c].pc \notin {"offer", "answer"}
      <4>1. \A a \in RcAttemptIds : rcTracked[a] # c
        BY <1>0, <3>2 DEF TrackedOK
      <4> QED
        BY <1>0, <3>2, <4>1 DEF TrackedOK
    <3> QED
      BY <3>1, <3>2
  <2>2. \A a \in RcAttemptIds : rcTracked'[a] # c
    BY <2>1, NoneIsNoCaller
  <2>3. \A a \in RcAttemptIds :
            \/ rcTracked'[a] = rcTracked[a]
            \/ rcTracked[a] = c /\ rcTracked'[a] = RcNone
    BY <2>1
  <2> QED
    BY <1>0, <1>1, <1>2, <2>1, <2>2, <2>3, TrackedMove
<1>8. \A d \in RcCallers : Mild(d)
  BY <1>1, <1>2, MildMove
<1>9. \A d \in RcCallers : ReadyFor(d)' => ReadyFor(d)
  BY <1>1, <1>2, ReadyMove
<1>10. InOK'
  BY <1>0, <1>4, <1>8, InFrame
<1> QED
  BY <1>4, <1>5, <1>6, <1>7, <1>8, <1>9, <1>10

\* A call that returns and leaves the queues alone.
LEMMA FinishKeeps ==
  ASSUME RcInv, NEW c \in RcCallers, NEW result \in {"ok", "failed"}, Finish(c, result),
         ForgetRequest(c) \/ UNCHANGED rcPending,
         RemoveIfOwner(c) \/ (UNCHANGED rcTracked /\ rcCall[c].pc \notin {"offer", "answer"}),
         UNCHANGED <<rcNextId, rcIn, rcOut, rcTarget>>, EndOK'
  PROVE  RcInv'
<1>0. CallsOK /\ OutOK /\ TargetOK
  BY DEF RcInv
<1>1. /\ CallsOK' /\ GateOK' /\ PendingOK' /\ TrackedOK' /\ InOK'
      /\ \A d \in RcCallers : Mild(d) /\ (ReadyFor(d)' => ReadyFor(d))
  BY FinishCalls
<1>2. rcNextId' >= rcNextId
  BY <1>0, RelayClientAssumption DEF CallsOK
<1>3. OutOK' /\ TargetOK'
  BY <1>0, <1>1, <1>2, OutFrame, TargetFrame
<1> QED
  BY <1>1, <1>3 DEF RcInv

LEMMA EndSame ==
  ASSUME RcInv, UNCHANGED <<rcConnected, rcOut, rcEvents, rcConsumer, rcNet, rcEnd>>
  PROVE  EndOK' /\ UNCHANGED <<rcIn, rcOut, rcTarget>>
<1>1. EndOK
  BY DEF RcInv
<1>2. Len(rcOut) <= RcOutCap
  BY <1>1 DEF EndOK
<1> QED
  BY <1>1, <1>2, EndFrame DEF rcNet, rcEnd

\* A reply of the kind the caller expects, or an error: never one of another kind.
LEMMA OutcomeIsExpected ==
  ASSUME RcInv, NEW c \in RcCallers, rcCall[c].pc = "wait", rcCall[c].box # RcEmpty
  PROVE  Outcome(c) \in {"ok", "failed"}
<1>1. rcCall[c].box.kind \in {IF rcCall[c].op = "begin" THEN "resolve" ELSE rcCall[c].op, "error", "disconnected"}
  BY DEF RcInv, PendingOK, BoxOK
<1>2. CASE rcCall[c].box.kind = IF rcCall[c].op = "begin" THEN "resolve" ELSE rcCall[c].op
  <2>1. rcCall[c].op \in RcOps \cup {RcNone}
    BY CallTyped DEF RcInv
  <2>2. rcCall[c].box.kind \notin {"disconnected", "dropped", "error"}
    BY <1>2, <2>1 DEF RcOps, RcNone
  <2> QED
    BY <1>2, <2>2 DEF Outcome
<1>3. CASE rcCall[c].box.kind # IF rcCall[c].op = "begin" THEN "resolve" ELSE rcCall[c].op
  <2>1. rcCall[c].box.kind \in {"disconnected", "error"}
    BY <1>1, <1>3
  <2> QED
    BY <1>3, <2>1 DEF Outcome
<1> QED
  BY <1>2, <1>3

LEMMA CallEndsKeep ==
  ASSUME RcInv, NEW c \in RcCallers,
         CallSendFails(c) \/ CallTimeout(c) \/ CallOfferFails(c) \/ CallAnswer(c) \/ CallAnswerTimeout(c)
  PROVE  RcInv'
<1>1. CASE CallSendFails(c)
  <2>1. EndOK' /\ UNCHANGED <<rcIn, rcOut, rcTarget>>
    BY <1>1, EndSame DEF CallSendFails
  <2> QED
    BY <1>1, <2>1, FinishKeeps DEF CallSendFails
<1>2. CASE CallTimeout(c)
  <2>1. EndOK' /\ UNCHANGED <<rcIn, rcOut, rcTarget>>
    BY <1>2, EndSame DEF CallTimeout
  <2> QED
    BY <1>2, <2>1, FinishKeeps DEF CallTimeout
<1>3. CASE CallOfferFails(c)
  <2>1. EndOK' /\ UNCHANGED <<rcIn, rcOut, rcTarget>>
    BY <1>3, EndSame DEF CallOfferFails
  <2> QED
    BY <1>3, <2>1, FinishKeeps DEF CallOfferFails
<1>4. CASE CallAnswer(c)
  <2> DEFINE result == IF rcCall[c].box.kind = "answer" THEN "ok" ELSE "failed"
  <2>1. EndOK' /\ UNCHANGED <<rcIn, rcOut, rcTarget>>
    BY <1>4, EndSame DEF CallAnswer
  <2>2. result \in {"ok", "failed"} /\ Finish(c, result)
    BY <1>4 DEF CallAnswer
  <2> HIDE DEF result
  <2> QED
    BY <1>4, <2>1, <2>2, FinishKeeps DEF CallAnswer
<1>5. CASE CallAnswerTimeout(c)
  <2>1. EndOK' /\ UNCHANGED <<rcIn, rcOut, rcTarget>>
    BY <1>5, EndSame DEF CallAnswerTimeout
  <2> QED
    BY <1>5, <2>1, FinishKeeps DEF CallAnswerTimeout
<1> QED
  BY <1>1, <1>2, <1>3, <1>4, <1>5

\* What Disturb does to the history is not what the invariant is about.
LEMMA DisturbKeeps ==
  ASSUME EndOK, Disturb
  PROVE  /\ rcHistory' \in [spent : Nat, reports : {0, 1}, wrong : {FALSE}]
         /\ rcHistory'.reports = rcHistory.reports
<1>1. rcHistory \in [spent : Nat, reports : {0, 1}, wrong : {FALSE}] /\ RcBudget \in Nat
  BY RelayClientAssumption DEF EndOK
<1>2. rcHistory' = [rcHistory EXCEPT !.spent = @ + 1]
  BY DEF Disturb
<1>3. rcHistory.spent \in Nat /\ rcHistory.reports \in {0, 1} /\ rcHistory.wrong \in {FALSE}
  BY <1>1
<1>4. rcHistory' = [spent |-> rcHistory.spent + 1, reports |-> rcHistory.reports, wrong |-> rcHistory.wrong]
  BY <1>1, <1>2
<1>5. rcHistory.spent + 1 \in Nat
  BY <1>3
<1>6. rcHistory' \in [spent : Nat, reports : {0, 1}, wrong : {FALSE}]
  BY <1>3, <1>4, <1>5, Zenon
<1>7. rcHistory'.reports = rcHistory.reports
  BY <1>4, Zenon
<1> QED
  BY <1>6, <1>7

LEMMA CallDroppedKeeps ==
  ASSUME RcInv, NEW c \in RcCallers, CallDropped(c)
  PROVE  RcInv'
<1>1. EndOK
  BY DEF RcInv
<1>2. /\ rcHistory' \in [spent : Nat, reports : {0, 1}, wrong : {FALSE}]
      /\ rcHistory'.reports = rcHistory.reports
  BY <1>1, DisturbKeeps DEF CallDropped
<1>3. EndOK'
  BY <1>1, <1>2 DEF CallDropped, EndOK, rcEnd
<1> QED
  BY <1>3, FinishKeeps DEF CallDropped

-----------------------------------------------------------------------------
(* Calls that go on                                                        *)

\* The record of call c at another stage, with another id or another oneshot.
Goes(c, pc, id, box) ==
    [pc |-> pc, op |-> rcCall[c].op, attempt |-> rcCall[c].attempt, id |-> id, box |-> box,
     result |-> rcCall[c].result]
RcStages == {"register", "send", "wait", "track", "offer", "answer"}

LEMMA GoesTyped ==
  ASSUME CallsOK, NEW c \in RcCallers, NEW pc \in RcStages, NEW id \in Nat, NEW box \in RcFrames
  PROVE  Goes(c, pc, id, box) \in RcCalls
<1>1. /\ rcCall[c].op \in RcOps \cup {RcNone} /\ rcCall[c].attempt \in RcAttemptIds \cup {RcNone}
      /\ rcCall[c].result \in {RcNone, "ok", "failed"}
  BY CallTyped
<1> QED
  BY <1>1 DEF Goes, RcCalls, RcStages

LEMMA StageBecomes ==
  ASSUME CallsOK, NEW c \in RcCallers, NEW pc \in RcStages, rcCall' = [rcCall EXCEPT ![c].pc = pc]
  PROVE  Becomes(c, Goes(c, pc, rcCall[c].id, rcCall[c].box))
<1>1. rcCall[c] \in RcCalls /\ rcCall \in [RcCallers -> RcCalls] /\ rcCall[c].id \in Nat /\ rcCall[c].box \in RcFrames
  BY CallTyped DEF CallsOK
<1>2. Goes(c, pc, rcCall[c].id, rcCall[c].box) \in RcCalls
  BY <1>1, GoesTyped
<1>3. [rcCall[c] EXCEPT !.pc = pc] = Goes(c, pc, rcCall[c].id, rcCall[c].box)
  BY <1>1 DEF RcCalls, Goes
<1>4. rcCall' = [rcCall EXCEPT ![c] = Goes(c, pc, rcCall[c].id, rcCall[c].box)]
  BY <1>1, <1>3
<1> QED
  BY <1>1, <1>2, <1>4 DEF Becomes

LEMMA IdBecomes ==
  ASSUME CallsOK, NEW c \in RcCallers, NEW pc \in RcStages, NEW id \in Nat,
         rcCall' = [rcCall EXCEPT ![c].pc = pc, ![c].id = id]
  PROVE  Becomes(c, Goes(c, pc, id, rcCall[c].box))
<1> DEFINE staged == [rcCall EXCEPT ![c].pc = pc]
<1>1. rcCall[c] \in RcCalls /\ rcCall \in [RcCallers -> RcCalls] /\ rcCall[c].id \in Nat /\ rcCall[c].box \in RcFrames
  BY CallTyped DEF CallsOK
<1>2. Goes(c, pc, id, rcCall[c].box) \in RcCalls
  BY <1>1, GoesTyped
<1>3. rcCall' = [staged EXCEPT ![c].id = id]
  OBVIOUS
<1>4. /\ staged = [d \in RcCallers |-> staged[d]] /\ staged[c] = [rcCall[c] EXCEPT !.pc = pc]
      /\ \A d \in RcCallers : d # c => staged[d] = rcCall[d]
  BY <1>1
<1>5. staged[c] = Goes(c, pc, rcCall[c].id, rcCall[c].box)
  BY <1>1, <1>4 DEF RcCalls, Goes
<1> HIDE DEF staged
<1>6. [staged[c] EXCEPT !.id = id] = Goes(c, pc, id, rcCall[c].box)
  BY <1>5 DEF Goes
<1>7. rcCall' = [d \in RcCallers |-> IF d = c THEN Goes(c, pc, id, rcCall[c].box) ELSE rcCall[d]]
  BY <1>3, <1>4, <1>6
<1> QED
  BY <1>1, <1>2, <1>7 DEF Becomes

LEMMA BoxBecomes ==
  ASSUME CallsOK, NEW c \in RcCallers, NEW pc \in RcStages, NEW box \in RcFrames,
         rcCall' = [rcCall EXCEPT ![c].pc = pc, ![c].box = box]
  PROVE  Becomes(c, Goes(c, pc, rcCall[c].id, box))
<1> DEFINE staged == [rcCall EXCEPT ![c].pc = pc]
<1>1. rcCall[c] \in RcCalls /\ rcCall \in [RcCallers -> RcCalls] /\ rcCall[c].id \in Nat /\ rcCall[c].box \in RcFrames
  BY CallTyped DEF CallsOK
<1>2. Goes(c, pc, rcCall[c].id, box) \in RcCalls
  BY <1>1, GoesTyped
<1>3. rcCall' = [staged EXCEPT ![c].box = box]
  OBVIOUS
<1>4. /\ staged = [d \in RcCallers |-> staged[d]] /\ staged[c] = [rcCall[c] EXCEPT !.pc = pc]
      /\ \A d \in RcCallers : d # c => staged[d] = rcCall[d]
  BY <1>1
<1>5. staged[c] = Goes(c, pc, rcCall[c].id, rcCall[c].box)
  BY <1>1, <1>4 DEF RcCalls, Goes
<1> HIDE DEF staged
<1>6. [staged[c] EXCEPT !.box = box] = Goes(c, pc, rcCall[c].id, box)
  BY <1>5 DEF Goes
<1>7. rcCall' = [d \in RcCallers |-> IF d = c THEN Goes(c, pc, rcCall[c].id, box) ELSE rcCall[d]]
  BY <1>3, <1>4, <1>6
<1> QED
  BY <1>1, <1>2, <1>7 DEF Becomes

\* A call that goes on and leaves the queues alone: what has to be said of its record.
LEMMA GoesKeeps ==
  ASSUME RcInv, NEW c \in RcCallers, NEW r, Becomes(c, r), RecordOK(r), BoxOK(r),
         \/ r.id \in {0, rcCall[c].id} /\ rcNextId' = rcNextId
         \/ r.id = rcNextId /\ rcNextId' = rcNextId + 1 /\ rcNextId <= RcMaxIds,
         r.pc \in {"send", "wait"} =>
            \/ /\ Requesting(c) /\ r.id = rcCall[c].id /\ r.op = rcCall[c].op
               /\ rcCall[c].pc = "wait" => r.pc = "wait"
            \/ r.id >= rcNextId,
         GateOK', PendingOK', TrackedOK', EndOK', UNCHANGED <<rcIn, rcOut, rcTarget>>,
         r.pc \in {"track", "offer"} => ReadyFor(c), r.pc # "wait"
  PROVE  RcInv'
<1>0. CallsOK /\ OutOK /\ InOK /\ TargetOK
  BY DEF RcInv
<1>1. CallsOK' /\ rcNextId' >= rcNextId
  BY <1>0, CallsMove
<1>2. \A d \in RcCallers : Mild(d)
  BY MildMove
<1>3. \A d \in RcCallers : ReadyFor(d)' => ReadyFor(d)
  BY ReadyMove
<1>4. OutOK' /\ InOK' /\ TargetOK'
  BY <1>0, <1>1, <1>2, <1>3, OutFrame, InFrame, TargetFrame
<1> QED
  BY <1>1, <1>4 DEF RcInv

LEMMA CallLockKeeps ==
  ASSUME RcInv, NEW c \in RcCallers, CallLock(c)
  PROVE  RcInv'
<1>0. CallsOK /\ GateOK /\ PendingOK /\ TrackedOK
  BY DEF RcInv
<1>1. /\ rcCall[c].pc = "lock" /\ rcGate = RcNone
      /\ UNCHANGED <<rcConnected, rcOut, rcEvents, rcConsumer, rcPending, rcTracked, rcNextId, rcNet, rcEnd>>
  BY DEF CallLock, GateFree
<1>2. EndOK' /\ UNCHANGED <<rcIn, rcOut, rcTarget>>
  BY <1>1, EndSame
<1>3. CASE Finish(c, "failed")
  BY <1>1, <1>2, <1>3, FinishKeeps
<1>4. CASE /\ ~(rcCall[c].op = "begin" /\ rcTracked[rcCall[c].attempt] # RcNone)
           /\ rcGate' = c /\ rcCall' = [rcCall EXCEPT ![c].pc = "register"]
  <2>1. PICK r : r = Goes(c, "register", rcCall[c].id, rcCall[c].box)
    OBVIOUS
  <2>2. Becomes(c, r)
    BY <1>0, <1>4, <2>1, StageBecomes DEF RcStages
  <2>3. /\ r.pc = "register" /\ r.op = rcCall[c].op /\ r.attempt = rcCall[c].attempt
        /\ r.id = rcCall[c].id /\ r.box = rcCall[c].box
    BY <2>1 DEF Goes
  <2>4. RecordOK(rcCall[c])
    BY <1>0 DEF CallsOK
  <2>5. RecordOK(r) /\ BoxOK(r) /\ r.id = 0
    BY <1>1, <2>3, <2>4 DEF RecordOK, BoxOK
  <2>6. GateOK'
    BY <1>0, <1>1, <1>4, <2>2, GateMove
  <2>7. PendingOK'
    <3>1. \A i \in RcIds : rcPending'[i] # c
      BY <1>0, <1>1 DEF PendingOK, Requesting
    <3> QED
      BY <1>0, <1>1, <2>2, <2>3, <2>5, <3>1, PendingMove DEF PendingOK
  <2>8. TrackedOK'
    <3>1. \A a \in RcAttemptIds : rcTracked'[a] # c
      BY <1>0, <1>1 DEF TrackedOK
    <3> QED
      BY <1>0, <1>1, <1>4, <2>2, <2>3, <3>1, TrackedMove DEF TrackedOK
  <2> QED
    BY <1>1, <1>2, <2>2, <2>3, <2>5, <2>6, <2>7, <2>8, GoesKeeps
<1> QED
  BY <1>3, <1>4 DEF CallLock

LEMMA CallRegisterKeeps ==
  ASSUME RcInv, NEW c \in RcCallers, CallRegister(c)
  PROVE  RcInv'
<1>0. CallsOK /\ GateOK /\ PendingOK /\ TrackedOK /\ rcNextId \in Nat /\ RecordOK(rcCall[c]) /\ rcNextId # 0
  BY CallTyped DEF RcInv, CallsOK
<1>1. /\ rcCall[c].pc = "register" /\ rcNextId <= RcMaxIds /\ rcNextId' = rcNextId + 1
      /\ rcPending' = [rcPending EXCEPT ![rcNextId] = c]
      /\ rcCall' = [rcCall EXCEPT ![c].pc = "send", ![c].id = rcNextId]
      /\ UNCHANGED <<rcConnected, rcOut, rcEvents, rcConsumer, rcTracked, rcGate, rcNet, rcEnd>>
  BY DEF CallRegister
<1>2. EndOK' /\ UNCHANGED <<rcIn, rcOut, rcTarget>>
  BY <1>1, EndSame
<1>3. PICK r : r = Goes(c, "send", rcNextId, rcCall[c].box)
  OBVIOUS
<1>4. Becomes(c, r)
  BY <1>0, <1>1, <1>3, IdBecomes DEF RcStages
<1>5. /\ r.pc = "send" /\ r.op = rcCall[c].op /\ r.attempt = rcCall[c].attempt
      /\ r.id = rcNextId /\ r.box = rcCall[c].box
  BY <1>3 DEF Goes
<1>6. RecordOK(r) /\ BoxOK(r)
  BY <1>0, <1>1, <1>5 DEF RecordOK, BoxOK
<1>7. GateOK'
  <2>1. r.op \in {"resolve", "begin"} => rcGate' = c
    BY <1>0, <1>1, <1>5 DEF GateOK, Inside, Coordinates
  <2> QED
    BY <1>0, <1>1, <1>4, <2>1, GateMove
<1>8. PendingOK'
  <2>1. rcNextId \in RcIds
    BY <1>0, <1>1, RelayClientAssumption DEF RcIds
  <2>2. /\ rcPending' \in [RcIds -> RcCallers \cup {RcNone}] /\ rcPending'[rcNextId] = c
        /\ \A i \in RcIds : i # rcNextId => rcPending'[i] = rcPending[i]
    BY <1>0, <1>1, <2>1 DEF PendingOK
  <2>3. \A i \in RcIds : rcPending[i] # c
    BY <1>0, <1>1 DEF PendingOK, Requesting
  <2>4. r.id >= rcNextId
    BY <1>0, <1>5
  <2> QED
    BY <1>0, <1>4, <1>5, <1>6, <2>2, <2>3, <2>4, PendingMove
<1>9. TrackedOK'
  <2>1. /\ \A a \in RcAttemptIds : rcTracked'[a] # c /\ rcTracked'[a] = rcTracked[a]
        /\ rcTracked' \in [RcAttemptIds -> RcCallers \cup {RcNone}]
    BY <1>0, <1>1 DEF TrackedOK
  <2>2. r.op = "begin" => rcTracked'[r.attempt] = RcNone
    BY <1>0, <1>1, <1>5 DEF TrackedOK
  <2> QED
    BY <1>0, <1>4, <1>5, <2>1, <2>2, TrackedMove
<1>10. r.id >= rcNextId
  BY <1>0, <1>5
<1> QED
  BY <1>1, <1>2, <1>4, <1>5, <1>6, <1>7, <1>8, <1>9, <1>10, GoesKeeps

LEMMA CallTrackKeeps ==
  ASSUME RcInv, NEW c \in RcCallers, CallTrack(c)
  PROVE  RcInv'
<1>0. CallsOK /\ GateOK /\ PendingOK /\ TrackedOK /\ rcNextId \in Nat /\ RecordOK(rcCall[c]) /\ rcNextId # 0
  BY CallTyped DEF RcInv, CallsOK
<1>1. /\ rcCall[c].pc = "track" /\ rcNextId <= RcMaxIds /\ rcNextId' = rcNextId + 1
      /\ rcTracked' = [rcTracked EXCEPT ![rcCall[c].attempt] = c]
      /\ rcCall' = [rcCall EXCEPT ![c].pc = "offer", ![c].id = rcNextId]
      /\ UNCHANGED <<rcConnected, rcOut, rcEvents, rcConsumer, rcPending, rcGate, rcNet, rcEnd>>
  BY DEF CallTrack
<1>2. EndOK' /\ UNCHANGED <<rcIn, rcOut, rcTarget>>
  BY <1>1, EndSame
<1>3. PICK r : r = Goes(c, "offer", rcNextId, rcCall[c].box)
  OBVIOUS
<1>4. Becomes(c, r)
  BY <1>0, <1>1, <1>3, IdBecomes DEF RcStages
<1>5. /\ r.pc = "offer" /\ r.op = rcCall[c].op /\ r.attempt = rcCall[c].attempt
      /\ r.id = rcNextId /\ r.box = rcCall[c].box
  BY <1>3 DEF Goes
<1>6. RecordOK(r) /\ BoxOK(r)
  BY <1>0, <1>1, <1>5 DEF RecordOK, BoxOK
<1>7. rcCall[c].op = "begin" /\ rcCall[c].attempt \in RcAttemptIds /\ Inside(c) /\ rcGate = c
  BY <1>0, <1>1 DEF RecordOK, Inside, Coordinates, GateOK
<1>8. GateOK'
  BY <1>0, <1>1, <1>4, <1>7, GateMove
<1>9. PendingOK'
  <2>1. /\ \A i \in RcIds : rcPending'[i] # c /\ rcPending'[i] = rcPending[i]
        /\ rcPending' \in [RcIds -> RcCallers \cup {RcNone}]
    BY <1>0, <1>1 DEF PendingOK, Requesting
  <2> QED
    BY <1>0, <1>4, <1>5, <1>6, <2>1, PendingMove
<1>10. TrackedOK'
  <2>1. rcTracked[rcCall[c].attempt] = RcNone /\ \A a \in RcAttemptIds : rcTracked[a] # c
    BY <1>0, <1>1, <1>7 DEF TrackedOK
  <2>2. /\ rcTracked' \in [RcAttemptIds -> RcCallers \cup {RcNone}] /\ rcTracked'[rcCall[c].attempt] = c
        /\ \A a \in RcAttemptIds : a # rcCall[c].attempt => rcTracked'[a] = rcTracked[a]
    BY <1>0, <1>1, <1>7 DEF TrackedOK
  <2> QED
    BY <1>0, <1>4, <1>5, <1>7, <2>1, <2>2, TrackedMove
<1>11. ReadyFor(c)
  BY <1>1 DEF ReadyFor
<1> QED
  BY <1>1, <1>2, <1>4, <1>5, <1>6, <1>8, <1>9, <1>10, <1>11, GoesKeeps

LEMMA CallReplyKeeps ==
  ASSUME RcInv, NEW c \in RcCallers, CallReply(c)
  PROVE  RcInv'
<1>0. CallsOK /\ GateOK /\ PendingOK /\ TrackedOK /\ RecordOK(rcCall[c])
  BY DEF RcInv, CallsOK
<1>1. /\ rcCall[c].pc = "wait" /\ rcCall[c].box # RcEmpty /\ ForgetRequest(c)
      /\ UNCHANGED <<rcConnected, rcOut, rcEvents, rcConsumer, rcTracked, rcNextId, rcNet, rcEnd>>
  BY DEF CallReply
<1>2. EndOK' /\ UNCHANGED <<rcIn, rcOut, rcTarget>>
  BY <1>1, EndSame
<1>3. CASE Finish(c, Outcome(c))
  <2>1. Outcome(c) \in {"ok", "failed"}
    BY <1>1, OutcomeIsExpected
  <2> QED
    BY <1>1, <1>2, <1>3, <2>1, FinishKeeps
<1>4. CASE /\ rcCall[c].op = "begin" /\ rcCall[c].box.note = "ready"
           /\ rcCall' = [rcCall EXCEPT ![c].pc = "track", ![c].box = RcEmpty] /\ UNCHANGED rcGate
  <2>1. PICK r : r = Goes(c, "track", rcCall[c].id, RcEmpty)
    OBVIOUS
  <2>2. Becomes(c, r)
    BY <1>0, <1>4, <2>1, BoxBecomes, FrameFacts DEF RcStages
  <2>3. /\ r.pc = "track" /\ r.op = rcCall[c].op /\ r.attempt = rcCall[c].attempt
        /\ r.id = rcCall[c].id /\ r.box = RcEmpty
    BY <2>1 DEF Goes
  <2>4. RecordOK(r) /\ BoxOK(r)
    BY <1>0, <1>1, <1>4, <2>3 DEF RecordOK, BoxOK
  <2>5. GateOK'
    <3>1. rcGate = c
      BY <1>0, <1>1, <1>4 DEF GateOK, Inside, Coordinates
    <3> QED
      BY <1>0, <1>4, <2>2, <3>1, GateMove
  <2>6. PendingOK'
    <3>1. /\ rcPending' \in [RcIds -> RcCallers \cup {RcNone}]
          /\ \A i \in RcIds : rcPending'[i] = IF i = rcCall[c].id THEN RcNone ELSE rcPending[i]
      BY <1>0, <1>1 DEF ForgetRequest, PendingOK
    <3>2. \A i \in RcIds : rcPending'[i] # c
      BY <1>0, <1>1, <3>1, NoneIsNoCaller DEF PendingOK
    <3> QED
      BY <1>0, <2>2, <2>3, <2>4, <3>1, <3>2, PendingMove
  <2>7. TrackedOK'
    <3>1. (\A a \in RcAttemptIds : rcTracked'[a] # c) /\ rcTracked'[r.attempt] = RcNone
      BY <1>0, <1>1, <1>4, <2>3 DEF TrackedOK
    <3> QED
      BY <1>0, <1>1, <2>2, <2>3, <3>1, TrackedMove DEF TrackedOK
  <2>8. ReadyFor(c)
    BY <1>1, <1>4 DEF ReadyFor
  <2> QED
    BY <1>1, <1>2, <2>2, <2>3, <2>4, <2>5, <2>6, <2>7, <2>8, GoesKeeps
<1> QED
  BY <1>3, <1>4 DEF CallReply

LEMMA CallStartKeeps ==
  ASSUME RcInv, NEW c \in RcCallers, NEW a \in RcAttemptIds, NEW op \in RcPlan[c], CallStart(c, op, a)
  PROVE  RcInv'
<1> DEFINE pc == CASE op \in {"resolve", "begin"} -> "lock" [] op = "signal" -> "send" [] OTHER -> "register"
           id == IF op = "signal" THEN rcNextId ELSE 0
<1>0. /\ CallsOK /\ GateOK /\ PendingOK /\ TrackedOK /\ rcNextId \in Nat /\ RecordOK(rcCall[c]) /\ rcNextId # 0
      /\ rcCall \in [RcCallers -> RcCalls]
  BY CallTyped DEF RcInv, CallsOK
<1>1. /\ rcCall[c].pc = "idle" /\ (op \in {"resolve", "begin"} \/ rcNextId <= RcMaxIds)
      /\ rcCall' = [rcCall EXCEPT ![c] = [RcIdle EXCEPT !.op = op, !.attempt = a, !.pc = pc, !.id = id]]
      /\ rcNextId' = IF op = "signal" THEN rcNextId + 1 ELSE rcNextId
      /\ UNCHANGED <<rcConnected, rcOut, rcEvents, rcConsumer, rcPending, rcTracked, rcGate, rcNet, rcEnd>>
  BY DEF CallStart
<1>2. op \in RcOps
  BY RelayClientAssumption DEF RcOps
<1>3. EndOK' /\ UNCHANGED <<rcIn, rcOut, rcTarget>>
  BY <1>1, EndSame
<1>4. /\ op \in {"resolve", "begin"} => pc = "lock"
      /\ op = "signal" => pc = "send"
      /\ op \notin {"resolve", "begin", "signal"} => pc = "register"
      /\ id = IF op = "signal" THEN rcNextId ELSE 0
  OBVIOUS
<1> HIDE DEF pc, id
<1>5. PICK r : r = [pc |-> pc, op |-> op, attempt |-> a, id |-> id, box |-> RcEmpty, result |-> RcNone]
  OBVIOUS
<1>6. [RcIdle EXCEPT !.op = op, !.attempt = a, !.pc = pc, !.id = id] = r
  <2> DEFINE named == [RcIdle EXCEPT !.op = op]
             tried == [named EXCEPT !.attempt = a]
             staged == [tried EXCEPT !.pc = pc]
  <2>1. named = [pc |-> "idle", op |-> op, attempt |-> RcNone, id |-> 0, box |-> RcEmpty, result |-> RcNone]
    BY DEF RcIdle
  <2>2. [RcIdle EXCEPT !.op = op, !.attempt = a, !.pc = pc, !.id = id] = [staged EXCEPT !.id = id]
    OBVIOUS
  <2> HIDE DEF named
  <2>3. tried = [pc |-> "idle", op |-> op, attempt |-> a, id |-> 0, box |-> RcEmpty, result |-> RcNone]
    BY <2>1
  <2> HIDE DEF tried
  <2>4. staged = [pc |-> pc, op |-> op, attempt |-> a, id |-> 0, box |-> RcEmpty, result |-> RcNone]
    BY <2>3
  <2> HIDE DEF staged
  <2>5. [staged EXCEPT !.id = id] = r
    BY <1>5, <2>4
  <2> QED
    BY <2>2, <2>5
<1>7. r.pc = pc /\ r.op = op /\ r.attempt = a /\ r.id = id /\ r.box = RcEmpty
  BY <1>5
<1>8. Becomes(c, r)
  <2>1. id \in Nat /\ pc \in {"lock", "send", "register"}
    BY <1>0, <1>4
  <2>2. r \in RcCalls
    BY <1>2, <1>5, <2>1, FrameFacts DEF RcCalls
  <2> QED
    BY <1>0, <1>1, <1>6, <2>2 DEF Becomes
<1>9. RecordOK(r) /\ BoxOK(r)
  <2>1. op # RcNone
    BY <1>2 DEF RcOps, RcNone
  <2> QED
    BY <1>0, <1>4, <1>7, <2>1 DEF RecordOK, BoxOK
<1>10. GateOK'
  <2>1. ~(r.op \in {"resolve", "begin"} /\ r.pc \in {"register", "send", "wait", "track", "offer"})
    BY <1>4, <1>7
  <2> QED
    BY <1>0, <1>1, <1>8, <2>1, GateMove
<1>11. PendingOK'
  <2>1. /\ \A i \in RcIds : rcPending'[i] # c /\ rcPending'[i] = rcPending[i]
        /\ rcPending' \in [RcIds -> RcCallers \cup {RcNone}]
    BY <1>0, <1>1 DEF PendingOK, Requesting
  <2>2. ~(r.pc \in {"send", "wait"} /\ r.op # "signal")
    BY <1>2, <1>4, <1>7 DEF RcOps
  <2> QED
    BY <1>0, <1>8, <1>9, <2>1, <2>2, PendingMove
<1>12. TrackedOK'
  <2>1. /\ \A b \in RcAttemptIds : rcTracked'[b] # c /\ rcTracked'[b] = rcTracked[b]
        /\ rcTracked' \in [RcAttemptIds -> RcCallers \cup {RcNone}]
    BY <1>0, <1>1 DEF TrackedOK
  <2>2. r.pc \in {"lock", "send", "register"} /\ (r.op = "begin" => r.pc = "lock")
    BY <1>2, <1>4, <1>7 DEF RcOps
  <2> QED
    BY <1>0, <1>8, <2>1, <2>2, TrackedMove
<1>13. r.pc \in {"lock", "send", "register"} /\ (r.pc = "send" => op = "signal")
  BY <1>2, <1>4, <1>7 DEF RcOps
<1>14. CASE op = "signal"
  <2>1. r.id = rcNextId /\ r.id >= rcNextId /\ rcNextId' = rcNextId + 1 /\ rcNextId <= RcMaxIds
    BY <1>0, <1>1, <1>4, <1>7, <1>14
  <2> QED
    BY <1>3, <1>8, <1>9, <1>10, <1>11, <1>12, <1>13, <2>1, GoesKeeps
<1>15. CASE op # "signal"
  <2>1. r.id = 0 /\ rcNextId' = rcNextId /\ r.pc # "send"
    BY <1>1, <1>4, <1>7, <1>13, <1>15
  <2> QED
    BY <1>3, <1>8, <1>9, <1>10, <1>11, <1>12, <1>13, <2>1, GoesKeeps
<1> QED
  BY <1>14, <1>15

-----------------------------------------------------------------------------
(* Frames are appended to the outbound queue                               *)

LEMMA OutAppend ==
  ASSUME CallsOK, CallsOK', OutOK, NEW f \in RcOutFrames, rcOut' = Append(rcOut, f),
         UNCHANGED <<rcTarget, rcNextId>>, f.id < rcNextId, \A d \in RcCallers : Mild(d),
         \A d \in RcCallers : Requesting(d)' /\ f.id = rcCall'[d].id =>
            rcCall'[d].pc = "wait" /\ f.kind = Expected(d)' /\ f.peer = RcPeerOf[d],
         Steers(f) => \A d \in RcCallers : Requesting(d)' /\ Coordinates(d)' =>
                         \A j \in 1..Len(rcOut) : rcOut[j].id # rcCall'[d].id,
         f.kind = "offer" => rcTarget = f.peer /\ \A j \in 1..Len(rcOut) : ~Steers(rcOut[j])
  PROVE  OutOK'
<1>0. rcNextId \in Nat /\ rcOut \in Seq(RcOutFrames)
  BY RelayClientAssumption DEF CallsOK, OutOK
<1>1. /\ rcOut' \in Seq(RcOutFrames) /\ Len(rcOut') = Len(rcOut) + 1 /\ Len(rcOut) \in Nat
      /\ rcOut'[Len(rcOut) + 1] = f /\ \A j \in 1..Len(rcOut) : rcOut'[j] = rcOut[j]
  BY <1>0, AppendProperties, LenProperties
<1>2. PICK n \in Nat : n = Len(rcOut)
  BY <1>1
<1>3. /\ Len(rcOut') = n + 1 /\ rcOut'[n + 1] = f /\ (\A j \in 1..n : rcOut'[j] = rcOut[j])
      /\ \A j \in 1..(n + 1) : j \in 1..n \/ j = n + 1
  BY <1>1, <1>2
<1>4. \A j \in 1..(n + 1) : rcOut'[j].id < rcNextId'
  BY <1>2, <1>3 DEF OutOK
<1>5. ASSUME NEW j \in 1..(n + 1), NEW d \in RcCallers, Requesting(d)', rcOut'[j].id = rcCall'[d].id
      PROVE  /\ rcCall'[d].pc = "wait" /\ rcOut'[j].kind = Expected(d)' /\ rcOut'[j].peer = RcPeerOf[d]
             /\ Coordinates(d)' => \A i \in (j + 1)..(n + 1) : ~Steers(rcOut'[i])
  <2>1. CASE j = n + 1
    <3>1. (j + 1)..(n + 1) = {}
      BY <2>1
    <3> QED
      BY <1>3, <1>5, <2>1, <3>1
  <2>2. CASE j \in 1..n
    <3>1. rcOut'[j] = rcOut[j] /\ rcOut[j].id \in Nat /\ rcOut[j].id < rcNextId
      BY <1>2, <1>3, <2>2, OutTyped DEF OutOK
    <3>2. ~(rcCall'[d].id >= rcNextId)
      BY <1>0, <1>5, <3>1
    <3>3. /\ Requesting(d) /\ rcOut[j].id = rcCall[d].id /\ rcCall'[d].op = rcCall[d].op
          /\ rcCall[d].pc = "wait" => rcCall'[d].pc = "wait"
      BY <1>5, <3>1, <3>2 DEF Mild
    <3>4. /\ rcCall[d].pc = "wait" /\ rcOut[j].kind = Expected(d) /\ rcOut[j].peer = RcPeerOf[d]
          /\ Coordinates(d) => \A i \in (j + 1)..n : ~Steers(rcOut[i])
      BY <1>2, <2>2, <3>3 DEF OutOK
    <3>5. rcCall'[d].pc = "wait" /\ rcOut'[j].kind = Expected(d)' /\ rcOut'[j].peer = RcPeerOf[d]
      BY <3>1, <3>3, <3>4 DEF Expected
    <3>6. ASSUME Coordinates(d)', NEW i \in (j + 1)..(n + 1) PROVE ~Steers(rcOut'[i])
      <4>1. ~Steers(f)
        BY <1>2, <1>5, <2>2, <3>1, <3>6
      <4>2. Coordinates(d)
        BY <3>3, <3>6 DEF Coordinates
      <4>3. i = n + 1 \/ (i \in (j + 1)..n /\ i \in 1..n)
        BY <2>2
      <4> QED
        BY <1>3, <3>4, <4>1, <4>2, <4>3
    <3> QED
      BY <3>5, <3>6
  <2> QED
    BY <1>3, <2>1, <2>2
<1>6. ASSUME NEW j \in 1..(n + 1), rcOut'[j].kind = "offer"
      PROVE  rcTarget' = rcOut'[j].peer /\ \A i \in 1..(j - 1) : ~Steers(rcOut'[i])
  <2>1. \A i \in 1..(j - 1) : i \in 1..n
    BY <1>6
  <2>2. CASE j = n + 1
    <3>1. rcTarget = f.peer /\ \A i \in 1..n : ~Steers(rcOut[i])
      BY <1>2, <1>3, <1>6, <2>2
    <3> QED
      BY <1>3, <2>1, <2>2, <3>1
  <2>3. CASE j \in 1..n
    <3>1. rcTarget = rcOut[j].peer /\ \A i \in 1..(j - 1) : ~Steers(rcOut[i])
      BY <1>2, <1>3, <1>6, <2>3 DEF OutOK
    <3> QED
      BY <1>3, <2>1, <2>3, <3>1
  <2> QED
    BY <1>3, <2>2, <2>3
<1> QED
  BY <1>1, <1>3, <1>4, <1>5, <1>6 DEF OutOK, Steers

LEMMA TargetAppend ==
  ASSUME TargetOK, NEW f, rcOut \in Seq(RcOutFrames), f \in RcOutFrames, rcOut' = Append(rcOut, f), UNCHANGED rcTarget,
         \A d \in RcCallers : ReadyFor(d)' => ReadyFor(d), Steers(f) => \A d \in RcCallers : ~ReadyFor(d)'
  PROVE  TargetOK'
<1>1. /\ Len(rcOut') = Len(rcOut) + 1 /\ Len(rcOut) \in Nat
      /\ rcOut'[Len(rcOut) + 1] = f /\ \A j \in 1..Len(rcOut) : rcOut'[j] = rcOut[j]
  BY AppendProperties, LenProperties
<1>2. ASSUME NEW d \in RcCallers, ReadyFor(d)'
      PROVE  rcTarget' = RcPeerOf[d] /\ \A j \in 1..Len(rcOut') : ~Steers(rcOut'[j])
  <2>1. ~Steers(f) /\ rcTarget = RcPeerOf[d] /\ \A j \in 1..Len(rcOut) : ~Steers(rcOut[j])
    BY <1>2 DEF TargetOK
  <2>2. ASSUME NEW j \in 1..Len(rcOut') PROVE ~Steers(rcOut'[j])
    <3>1. j = Len(rcOut) + 1 \/ j \in 1..Len(rcOut)
      BY <1>1
    <3> QED
      BY <1>1, <2>1, <3>1
  <2> QED
    BY <2>1, <2>2
<1> QED
  BY <1>2 DEF TargetOK, Steers

LEMMA CallFrameTyped ==
  ASSUME CallsOK, NEW c \in RcCallers, NEW kind \in RcOps \cup {"offer"}
  PROVE  /\ CallFrame(c, kind) \in RcOutFrames /\ CallFrame(c, kind).kind = kind
         /\ CallFrame(c, kind).id = rcCall[c].id /\ CallFrame(c, kind).peer = RcPeerOf[c]
<1>1. rcCall[c].id \in Nat /\ rcCall[c].attempt \in RcAttemptIds \cup {RcNone}
  BY CallTyped
<1>2. RcPeerOf[c] \in RcPeers
  BY DEF RcPeers
<1> QED
  BY <1>1, <1>2 DEF CallFrame, RcOutFrames

\* Only the holder of the gate is between its Resolve and its Offer.
LEMMA ReadyIsInside ==
  ASSUME CallsOK, GateOK, NEW c \in RcCallers, ReadyFor(c)
  PROVE  Inside(c) /\ rcGate = c
<1>1. RecordOK(rcCall[c])
  BY DEF CallsOK
<1>2. Inside(c)
  BY <1>1 DEF ReadyFor, RecordOK, Inside, Coordinates
<1> QED
  BY <1>2 DEF GateOK

LEMMA CallSendKeeps ==
  ASSUME RcInv, NEW c \in RcCallers, CallSend(c)
  PROVE  RcInv'
<1>0. /\ CallsOK /\ GateOK /\ PendingOK /\ TrackedOK /\ OutOK /\ InOK /\ TargetOK /\ EndOK
      /\ RecordOK(rcCall[c]) /\ rcCall[c].id < rcNextId /\ rcNextId \in Nat /\ rcOut \in Seq(RcOutFrames)
  BY CallTyped DEF RcInv, CallsOK, OutOK
<1>1. PICK kind : kind = IF rcCall[c].op = "begin" THEN "resolve" ELSE rcCall[c].op
  OBVIOUS
<1>2. /\ rcCall[c].pc = "send" /\ Len(rcOut) < RcOutCap /\ rcOut' = Append(rcOut, CallFrame(c, kind))
      /\ IF kind = "signal"
         THEN Finish(c, "ok")
         ELSE rcCall' = [rcCall EXCEPT ![c].pc = "wait"] /\ UNCHANGED rcGate
      /\ UNCHANGED <<rcConnected, rcEvents, rcConsumer, rcPending, rcTracked, rcNextId, rcNet, rcEnd>>
  BY <1>1 DEF CallSend, OutboundRoom
<1>3. UNCHANGED <<rcIn, rcTarget>>
  BY <1>2 DEF rcNet
<1>4. rcCall[c].op \in RcOps /\ kind \in RcOps
  <2>1. rcCall[c].op \in RcOps \cup {RcNone} /\ rcCall[c].op # RcNone
    BY <1>0, <1>2, CallTyped DEF RecordOK
  <2> QED
    BY <1>1, <2>1 DEF RcOps
<1>5. PICK f : f = CallFrame(c, kind)
  OBVIOUS
<1>6. f \in RcOutFrames /\ f.kind = kind /\ f.id = rcCall[c].id /\ f.peer = RcPeerOf[c] /\ f.id # 0
  <2>1. rcCall[c].id # 0
    BY <1>0, <1>2 DEF RecordOK
  <2> QED
    BY <1>0, <1>4, <1>5, <2>1, CallFrameTyped
<1>7. rcOut' = Append(rcOut, f) /\ f.kind # "offer" /\ rcNextId' >= rcNextId
  BY <1>0, <1>2, <1>4, <1>5, <1>6 DEF RcOps
<1>8. EndOK'
  <2>1. Len(rcOut') = Len(rcOut) + 1 /\ Len(rcOut) \in Nat
    BY <1>0, <1>6, <1>7, AppendProperties, LenProperties
  <2>2. Len(rcOut') <= RcOutCap
    BY <1>2, <2>1, RelayClientAssumption
  <2> QED
    BY <1>0, <1>2, <2>2, EndFrame DEF rcNet, rcEnd
<1>9. CASE kind = "signal"
  <2>1. /\ CallsOK' /\ GateOK' /\ PendingOK' /\ TrackedOK' /\ InOK'
        /\ \A d \in RcCallers : Mild(d) /\ (ReadyFor(d)' => ReadyFor(d))
    BY <1>2, <1>3, <1>9, FinishCalls
  <2>2. Becomes(c, Returned("ok"))
    BY <1>0, <1>2, <1>9, FinishBecomes
  <2>3. \A d \in RcCallers : Requesting(d)' => f.id # rcCall'[d].id
    <3>1. ~Requesting(c)'
      BY <2>2 DEF Becomes, Returned, Requesting
    <3>2. \A d \in RcCallers : d # c => rcCall'[d].id # rcCall[c].id
      BY <1>0, <1>6, <2>2 DEF Becomes, CallsOK
    <3> QED
      BY <1>6, <3>1, <3>2
  <2>4. ~Steers(f)
    BY <1>6, <1>9 DEF Steers
  <2>5. OutOK'
    BY <1>0, <1>2, <1>3, <1>6, <1>7, <2>1, <2>3, <2>4, OutAppend
  <2>6. TargetOK'
    BY <1>0, <1>3, <1>6, <1>7, <2>1, <2>4, TargetAppend
  <2> QED
    BY <1>8, <2>1, <2>5, <2>6 DEF RcInv
<1>10. CASE kind # "signal"
  <2>1. PICK r : r = Goes(c, "wait", rcCall[c].id, rcCall[c].box)
    OBVIOUS
  <2>2. Becomes(c, r)
    BY <1>0, <1>2, <1>10, <2>1, StageBecomes DEF RcStages
  <2>3. /\ r.pc = "wait" /\ r.op = rcCall[c].op /\ r.attempt = rcCall[c].attempt
        /\ r.id = rcCall[c].id /\ r.box = rcCall[c].box
    BY <2>1 DEF Goes
  <2>4. rcCall[c].box \in {RcEmpty, RcDisconnected} /\ rcCall[c].op # "signal"
    BY <1>0, <1>1, <1>2, <1>10 DEF PendingOK, BoxOK
  <2>5. RecordOK(r) /\ BoxOK(r)
    BY <1>0, <1>2, <2>3, <2>4, FrameFacts DEF RecordOK, BoxOK
  <2>6. CallsOK'
    BY <1>0, <1>2, <2>2, <2>3, <2>5, CallsMove
  <2>7. GateOK' /\ (Coordinates(c) => rcGate' = c)
    <3>1. Coordinates(c) => rcGate = c
      BY <1>0, <1>2 DEF GateOK, Inside
    <3> QED
      BY <1>0, <1>2, <1>10, <2>2, <2>3, <3>1, GateMove DEF Coordinates
  <2>8. PendingOK'
    <3>1. /\ \A i \in RcIds : rcPending'[i] = rcPending[i]
          /\ rcPending' \in [RcIds -> RcCallers \cup {RcNone}]
      BY <1>0, <1>2 DEF PendingOK
    <3>2. \A i \in RcIds : rcPending'[i] = c => r.id = i
      BY <1>0, <1>2, <2>3, <3>1 DEF PendingOK
    <3>3. r.box = RcEmpty => rcPending'[r.id] = c
      BY <1>0, <1>2, <2>3, <2>4 DEF PendingOK, Requesting
    <3> QED
      BY <1>0, <2>2, <2>3, <2>5, <3>1, <3>2, <3>3, PendingMove
  <2>9. TrackedOK'
    <3>1. /\ \A a \in RcAttemptIds : rcTracked'[a] # c /\ rcTracked'[a] = rcTracked[a]
          /\ rcTracked' \in [RcAttemptIds -> RcCallers \cup {RcNone}]
      BY <1>0, <1>2 DEF TrackedOK
    <3>2. r.op = "begin" => rcTracked'[r.attempt] = RcNone
      BY <1>0, <1>2, <2>3 DEF TrackedOK
    <3> QED
      BY <1>0, <2>2, <2>3, <3>1, <3>2, TrackedMove
  <2>10. \A d \in RcCallers : Mild(d)
    BY <1>2, <2>2, <2>3, MildMove DEF Requesting
  <2>11. InOK'
    BY <1>0, <1>3, <1>7, <2>6, <2>10, InFrame
  <2>12. \A d \in RcCallers : ReadyFor(d)' => ReadyFor(d)
    <3>1. \A j \in 1..Len(rcIn) : rcIn[j].id # r.id
      BY <1>0, <1>2, <2>3 DEF InOK, Requesting
    <3>2. r.box.note # "ready"
      BY <2>3, <2>4, FrameFacts
    <3> QED
      BY <1>3, <2>2, <2>3, <3>1, <3>2, ReadyMove
  <2>13. \A d \in RcCallers : d # c => rcCall'[d] = rcCall[d] /\ rcCall[d].id # rcCall[c].id
    BY <1>0, <1>6, <2>2 DEF Becomes, CallsOK
  <2>14. rcCall'[c] = r
    BY <2>2 DEF Becomes
  <2>15. \A d \in RcCallers : f.id = rcCall'[d].id => d = c
    BY <1>6, <2>13
  <2>16. rcCall'[c].pc = "wait" /\ f.kind = Expected(c)' /\ f.peer = RcPeerOf[c]
    BY <1>1, <1>6, <2>3, <2>14 DEF Expected
  <2>17. Steers(f) => Coordinates(c)
    BY <1>1, <1>6, <1>7 DEF Steers, Coordinates
  <2>18. ASSUME Steers(f), NEW d \in RcCallers, Requesting(d)', Coordinates(d)', NEW j \in 1..Len(rcOut)
         PROVE  rcOut[j].id # rcCall'[d].id
    <3>1. Inside(d)'
      BY <2>18 DEF Inside, Requesting
    <3>2. d = c
      BY <2>7, <2>17, <2>18, <3>1 DEF GateOK
    <3>3. rcOut[j].id # rcCall[c].id
      BY <1>0, <1>2 DEF OutOK, Requesting
    <3> QED
      BY <2>3, <2>14, <3>2, <3>3
  <2>19. OutOK'
    BY <1>0, <1>2, <1>3, <1>6, <1>7, <2>6, <2>10, <2>15, <2>16, <2>18, OutAppend
  <2>20. Steers(f) => \A d \in RcCallers : ~ReadyFor(d)'
    <3> SUFFICES ASSUME Steers(f), NEW d \in RcCallers, ReadyFor(d) PROVE FALSE
      BY <2>12
    <3>1. rcGate = d /\ Inside(c)
      BY <1>0, <1>2, <2>17, ReadyIsInside DEF Inside
    <3>2. d = c
      BY <1>0, <3>1 DEF GateOK
    <3> QED
      BY <1>2, <3>2 DEF ReadyFor
  <2>21. TargetOK'
    BY <1>0, <1>3, <1>6, <1>7, <2>12, <2>20, TargetAppend
  <2> QED
    BY <1>8, <2>6, <2>7, <2>8, <2>9, <2>11, <2>19, <2>21 DEF RcInv
<1> QED
  BY <1>9, <1>10

LEMMA CallOfferKeeps ==
  ASSUME RcInv, NEW c \in RcCallers, CallOffer(c)
  PROVE  RcInv'
<1>0. /\ CallsOK /\ GateOK /\ PendingOK /\ TrackedOK /\ OutOK /\ InOK /\ TargetOK /\ EndOK
      /\ RecordOK(rcCall[c]) /\ rcCall[c].id < rcNextId /\ rcNextId \in Nat /\ rcOut \in Seq(RcOutFrames)
  BY CallTyped DEF RcInv, CallsOK, OutOK
<1>1. /\ rcCall[c].pc = "offer" /\ Len(rcOut) < RcOutCap /\ rcOut' = Append(rcOut, CallFrame(c, "offer"))
      /\ rcCall' = [rcCall EXCEPT ![c].pc = "answer"] /\ ReleaseGate(c)
      /\ UNCHANGED <<rcConnected, rcEvents, rcConsumer, rcPending, rcTracked, rcNextId, rcNet, rcEnd>>
  BY DEF CallOffer, OutboundRoom
<1>2. UNCHANGED <<rcIn, rcTarget>>
  BY <1>1 DEF rcNet
<1>3. PICK f : f = CallFrame(c, "offer")
  OBVIOUS
<1>4. f \in RcOutFrames /\ f.kind = "offer" /\ f.id = rcCall[c].id /\ f.peer = RcPeerOf[c]
  BY <1>0, <1>3, CallFrameTyped
<1>5. rcOut' = Append(rcOut, f) /\ rcNextId' >= rcNextId
  BY <1>0, <1>1, <1>3
<1>6. EndOK'
  <2>1. Len(rcOut') = Len(rcOut) + 1 /\ Len(rcOut) \in Nat
    BY <1>0, <1>4, <1>5, AppendProperties, LenProperties
  <2>2. Len(rcOut') <= RcOutCap
    BY <1>1, <2>1, RelayClientAssumption
  <2> QED
    BY <1>0, <1>1, <2>2, EndFrame DEF rcNet, rcEnd
<1>7. PICK r : r = Goes(c, "answer", rcCall[c].id, rcCall[c].box)
  OBVIOUS
<1>8. Becomes(c, r)
  BY <1>0, <1>1, <1>7, StageBecomes DEF RcStages
<1>9. /\ r.pc = "answer" /\ r.op = rcCall[c].op /\ r.attempt = rcCall[c].attempt
      /\ r.id = rcCall[c].id /\ r.box = rcCall[c].box
  BY <1>7 DEF Goes
<1>10. RecordOK(r) /\ BoxOK(r) /\ rcCall[c].attempt \in RcAttemptIds
  BY <1>0, <1>1, <1>9 DEF RecordOK, BoxOK
<1>11. CallsOK'
  BY <1>0, <1>1, <1>8, <1>9, <1>10, CallsMove
<1>12. GateOK'
  BY <1>0, <1>1, <1>8, <1>9, GateMove
<1>13. PendingOK'
  <2>1. /\ \A i \in RcIds : rcPending'[i] # c /\ rcPending'[i] = rcPending[i]
        /\ rcPending' \in [RcIds -> RcCallers \cup {RcNone}]
    BY <1>0, <1>1 DEF PendingOK, Requesting
  <2> QED
    BY <1>0, <1>8, <1>9, <1>10, <2>1, PendingMove
<1>14. TrackedOK'
  <2>1. /\ \A a \in RcAttemptIds : rcTracked'[a] = rcTracked[a]
        /\ \A a \in RcAttemptIds : rcTracked'[a] = c => r.attempt = a
        /\ rcTracked' \in [RcAttemptIds -> RcCallers \cup {RcNone}]
    BY <1>0, <1>1, <1>9 DEF TrackedOK
  <2>2. r.box = RcEmpty => rcTracked'[r.attempt] = c
    BY <1>0, <1>1, <1>9 DEF TrackedOK
  <2> QED
    BY <1>0, <1>8, <1>9, <2>1, <2>2, TrackedMove
<1>15. \A d \in RcCallers : Mild(d)
  BY <1>8, <1>9, MildMove
<1>16. InOK'
  BY <1>0, <1>2, <1>5, <1>11, <1>15, InFrame
<1>17. \A d \in RcCallers : ReadyFor(d)' => ReadyFor(d)
  BY <1>2, <1>8, <1>9, ReadyMove
<1>18. ReadyFor(c) /\ rcGate = c
  <2>1. ReadyFor(c)
    BY <1>1 DEF ReadyFor
  <2> QED
    BY <1>0, <2>1, ReadyIsInside
<1>19. rcCall'[c] = r /\ \A d \in RcCallers : d # c => rcCall'[d] = rcCall[d]
  BY <1>8 DEF Becomes
<1>20. \A d \in RcCallers : Requesting(d)' => f.id # rcCall'[d].id
  <2> SUFFICES ASSUME NEW d \in RcCallers, Requesting(d)', f.id = rcCall'[d].id PROVE FALSE
    OBVIOUS
  <2>1. d # c
    BY <1>9, <1>19 DEF Requesting
  <2>2. Requesting(d) /\ rcCall[d].id = rcCall[c].id /\ rcCall[d].id # 0
    BY <1>0, <1>4, <1>19, <2>1 DEF Requesting, CallsOK, RecordOK
  <2> QED
    BY <1>0, <2>1, <2>2 DEF CallsOK
<1>21. \A d \in RcCallers : ~(Requesting(d)' /\ Coordinates(d)')
  <2> SUFFICES ASSUME NEW d \in RcCallers, Requesting(d)', Coordinates(d)' PROVE FALSE
    OBVIOUS
  <2>1. d # c
    BY <1>9, <1>19 DEF Requesting
  <2>2. Inside(d)
    BY <1>19, <2>1 DEF Requesting, Coordinates, Inside
  <2> QED
    BY <1>0, <1>18, <2>1, <2>2 DEF GateOK
<1>22. rcTarget = f.peer /\ \A j \in 1..Len(rcOut) : ~Steers(rcOut[j])
  BY <1>0, <1>4, <1>18 DEF TargetOK
<1>23. OutOK'
  BY <1>0, <1>1, <1>2, <1>4, <1>5, <1>11, <1>15, <1>20, <1>21, <1>22, OutAppend
<1>24. \A d \in RcCallers : ~ReadyFor(d)'
  <2> SUFFICES ASSUME NEW d \in RcCallers, ReadyFor(d)' PROVE FALSE
    OBVIOUS
  <2>1. d = c
    BY <1>0, <1>17, <1>18, ReadyIsInside
  <2> QED
    BY <1>9, <1>19, <2>1 DEF ReadyFor
<1>25. TargetOK'
  BY <1>0, <1>2, <1>4, <1>5, <1>17, <1>24, TargetAppend
<1> QED
  BY <1>6, <1>11, <1>12, <1>13, <1>14, <1>16, <1>23, <1>25 DEF RcInv

-----------------------------------------------------------------------------
(* The relay and the writer                                                *)

rcSide == <<rcCall, rcPending, rcTracked, rcGate>>

\* A step that touches no caller and no registration, and may use up an id.
LEMMA CallsSame ==
  ASSUME RcInv, UNCHANGED rcSide,
         rcNextId' = rcNextId \/ (rcNextId <= RcMaxIds /\ rcNextId' = rcNextId + 1)
  PROVE  /\ CallsOK' /\ GateOK' /\ PendingOK' /\ TrackedOK' /\ rcNextId' >= rcNextId
         /\ \A c \in RcCallers : Mild(c)
<1>0. CallsOK /\ GateOK /\ PendingOK /\ TrackedOK /\ UNCHANGED <<rcCall, rcPending, rcTracked, rcGate>>
  BY DEF RcInv, rcSide
<1>1. rcNextId \in 1..(RcMaxIds + 1) /\ RcMaxIds \in Nat /\ rcNextId \in Nat
  BY <1>0, RelayClientAssumption DEF CallsOK
<1>2. rcNextId' \in 1..(RcMaxIds + 1) /\ rcNextId' >= rcNextId /\ rcNextId' \in Nat
  BY <1>1
<1>3. \A c \in RcCallers : rcCall[c].id \in Nat /\ rcCall[c].id < rcNextId
  BY <1>0, CallTyped DEF CallsOK
<1>4. \A c \in RcCallers : rcCall[c].id < rcNextId'
  BY <1>1, <1>2, <1>3
<1>5. CallsOK'
  BY <1>0, <1>2, <1>4 DEF CallsOK
<1>6. GateOK'
  BY <1>0 DEF GateOK, Inside, Coordinates
<1>7. PendingOK'
  BY <1>0 DEF PendingOK, Requesting
<1>8. TrackedOK'
  BY <1>0 DEF TrackedOK
<1>9. \A c \in RcCallers : Mild(c)
  BY <1>0 DEF Mild, Requesting
<1> QED
  BY <1>2, <1>5, <1>6, <1>7, <1>8, <1>9

LEMMA InAppend ==
  ASSUME InOK, CallsOK, UNCHANGED rcCall, NEW r \in RcFrames, rcIn' = Append(rcIn, r),
         rcNextId' >= rcNextId, rcNextId' \in Nat, r.kind # "empty", r.id < rcNextId',
         r.note \in RcAttemptIds => r.id = 0,
         \A c \in RcCallers : Requesting(c) /\ r.id = rcCall[c].id =>
             rcCall[c].pc = "wait" /\ r.kind \in {Expected(c), "error"}
  PROVE  /\ InOK'
         /\ \A c \in RcCallers : ReadyFor(c)' =>
              \/ ReadyFor(c)
              \/ rcCall[c].pc = "wait" /\ rcCall[c].op = "begin" /\ r.id = rcCall[c].id /\ r.note = "ready"
<1>0. rcNextId \in Nat /\ rcIn \in Seq(RcFrames)
  BY RelayClientAssumption DEF CallsOK, InOK
<1>1. /\ rcIn' \in Seq(RcFrames) /\ Len(rcIn') = Len(rcIn) + 1 /\ Len(rcIn) \in Nat
      /\ rcIn'[Len(rcIn) + 1] = r /\ \A j \in 1..Len(rcIn) : rcIn'[j] = rcIn[j]
  BY <1>0, AppendProperties, LenProperties
<1>2. PICK n \in Nat : n = Len(rcIn)
  BY <1>1
<1>3. /\ Len(rcIn') = n + 1 /\ rcIn'[n + 1] = r /\ (\A j \in 1..n : rcIn'[j] = rcIn[j])
      /\ \A j \in 1..(n + 1) : j \in 1..n \/ j = n + 1
  BY <1>1, <1>2
<1>4. \A j \in 1..n : rcIn[j].id \in Nat /\ rcIn[j].id < rcNextId
  BY <1>2, InTyped DEF InOK
<1>5. \A j \in 1..n : rcIn[j].id < rcNextId'
  BY <1>0, <1>4
<1>6. \A j \in 1..(n + 1) : /\ rcIn'[j].kind # "empty" /\ rcIn'[j].id < rcNextId'
                            /\ rcIn'[j].note \in RcAttemptIds => rcIn'[j].id = 0
  BY <1>2, <1>3, <1>5 DEF InOK
<1>7. \A j \in 1..(n + 1), c \in RcCallers : Requesting(c) /\ rcIn'[j].id = rcCall[c].id =>
             rcCall[c].pc = "wait" /\ rcIn'[j].kind \in {Expected(c), "error"}
  BY <1>2, <1>3 DEF InOK
<1>8. InOK'
  BY <1>1, <1>3, <1>6, <1>7 DEF InOK, Requesting, Expected
<1>9. ASSUME NEW c \in RcCallers, ReadyFor(c)'
      PROVE  \/ ReadyFor(c)
             \/ rcCall[c].pc = "wait" /\ rcCall[c].op = "begin" /\ r.id = rcCall[c].id /\ r.note = "ready"
  <2>1. CASE rcCall[c].pc \in {"track", "offer"}
    BY <2>1 DEF ReadyFor
  <2>2. CASE rcCall[c].pc = "wait" /\ rcCall[c].op = "begin" /\ rcCall[c].box.note = "ready"
    BY <2>2 DEF ReadyFor
  <2>3. CASE /\ rcCall[c].pc = "wait" /\ rcCall[c].op = "begin"
             /\ \E j \in 1..(n + 1) : rcIn'[j].id = rcCall[c].id /\ rcIn'[j].note = "ready"
    <3>1. PICK j \in 1..(n + 1) : rcIn'[j].id = rcCall[c].id /\ rcIn'[j].note = "ready"
      BY <2>3
    <3>2. CASE j = n + 1
      BY <1>3, <2>3, <3>1, <3>2
    <3>3. CASE j \in 1..n
      BY <1>2, <1>3, <2>3, <3>1, <3>3 DEF ReadyFor
    <3> QED
      BY <1>3, <3>2, <3>3
  <2> QED
    BY <1>3, <1>9, <2>1, <2>2, <2>3 DEF ReadyFor
<1> QED
  BY <1>8, <1>9

\* A frame of the relay that is no reply to a request.
LEMMA PushKeeps ==
  ASSUME RcInv, NEW kind \in {"answer", "error", "hint", "bad"}, NEW note \in RcAttemptIds \cup {RcNone},
         rcIn' = Append(rcIn, RcFrame(kind, 0, note)), UNCHANGED <<rcSide, rcNextId, rcOut, rcTarget>>, EndOK'
  PROVE  RcInv'
<1>0. CallsOK /\ InOK /\ OutOK /\ TargetOK /\ UNCHANGED rcCall
  BY DEF RcInv, rcSide
<1>1. /\ CallsOK' /\ GateOK' /\ PendingOK' /\ TrackedOK' /\ rcNextId' >= rcNextId
      /\ \A c \in RcCallers : Mild(c)
  BY CallsSame
<1>2. PICK r : r = RcFrame(kind, 0, note)
  OBVIOUS
<1>3. r \in RcFrames /\ r.kind # "empty" /\ r.id = 0 /\ r.note # "ready"
  <2>1. note # "ready" /\ note \in RcNotes
    BY RelayClientAssumption DEF RcNotes, RcNone
  <2> QED
    BY <1>2, <2>1 DEF RcFrame, RcFrames, RcKinds
<1>4. rcNextId' \in Nat /\ r.id < rcNextId'
  BY <1>0, <1>3, RelayClientAssumption DEF CallsOK
<1>5. \A c \in RcCallers : Requesting(c) => r.id # rcCall[c].id
  BY <1>0, <1>3 DEF CallsOK, RecordOK, Requesting
<1>6. InOK' /\ \A c \in RcCallers : ReadyFor(c)' => ReadyFor(c)
  BY <1>0, <1>1, <1>2, <1>3, <1>4, <1>5, InAppend
<1>7. OutOK' /\ TargetOK'
  BY <1>0, <1>1, <1>6, OutFrame, TargetFrame
<1> QED
  BY <1>1, <1>6, <1>7 DEF RcInv

LEMMA RelayAnswersKeeps ==
  ASSUME RcInv, NEW a \in RcAttemptIds, RelayAnswers(a)
  PROVE  RcInv'
<1>1. PICK kind \in {"answer", "error"} : rcIn' = Append(rcIn, RcFrame(kind, 0, a))
  BY DEF RelayAnswers
<1>2. EndOK'
  BY DEF RcInv, EndOK, RelayAnswers, rcEnd
<1> QED
  BY <1>1, <1>2, PushKeeps DEF RelayAnswers, rcSide

LEMMA RelayPushesKeeps ==
  ASSUME RcInv, RelayPushes
  PROVE  RcInv'
<1>1. PICK kind \in {"hint", "bad"} : rcIn' = Append(rcIn, RcFrame(kind, 0, RcNone))
  BY DEF RelayPushes
<1>2. EndOK'
  <2>1. EndOK
    BY DEF RcInv
  <2>2. rcHistory' \in [spent : Nat, reports : {0, 1}, wrong : {FALSE}] /\ rcHistory'.reports = rcHistory.reports
    BY <2>1, DisturbKeeps DEF RelayPushes
  <2> QED
    BY <2>1, <2>2 DEF EndOK, RelayPushes, rcEnd
<1> QED
  BY <1>1, <1>2, PushKeeps DEF RelayPushes, rcSide

\* A step of the tasks or the socket that moves no frame.
LEMMA QuietKeeps ==
  ASSUME RcInv, UNCHANGED <<rcSide, rcNextId, rcOut, rcIn, rcTarget>>, EndOK'
  PROVE  RcInv'
<1>0. CallsOK /\ InOK /\ OutOK /\ TargetOK /\ UNCHANGED rcCall
  BY DEF RcInv, rcSide
<1>1. /\ CallsOK' /\ GateOK' /\ PendingOK' /\ TrackedOK' /\ rcNextId' >= rcNextId
      /\ \A c \in RcCallers : Mild(c)
  BY CallsSame
<1>2. \A c \in RcCallers : ReadyFor(c)' => ReadyFor(c)
  BY <1>0 DEF ReadyFor
<1>3. OutOK' /\ InOK' /\ TargetOK'
  BY <1>0, <1>1, <1>2, OutFrame, InFrame, TargetFrame
<1> QED
  BY <1>1, <1>3 DEF RcInv

LEMMA SocketLostKeeps ==
  ASSUME RcInv, SocketLost
  PROVE  RcInv'
<1>1. EndOK /\ rcHistory \in [spent : Nat, reports : {0, 1}, wrong : {FALSE}]
  BY DEF RcInv, EndOK
<1>2. rcHistory' \in [spent : Nat, reports : {0, 1}, wrong : {FALSE}] /\ rcHistory'.reports = rcHistory.reports
  <2>1. CASE Disturb
    BY <1>1, <2>1, DisturbKeeps
  <2>2. CASE UNCHANGED rcHistory
    BY <1>1, <2>2
  <2> QED
    BY <2>1, <2>2 DEF SocketLost
<1>3. EndOK'
  BY <1>1, <1>2 DEF EndOK, SocketLost, rcEnd
<1> QED
  BY <1>3, QuietKeeps DEF SocketLost, rcSide

LEMMA ConsumerTakesKeeps ==
  ASSUME RcInv, ConsumerTakes
  PROVE  RcInv'
<1>1. EndOK'
  <2>1. EndOK /\ rcEvents \in Seq(RcFrames) /\ Len(rcEvents) <= RcEventCap /\ RcEventCap \in Nat
    BY RelayClientAssumption DEF RcInv, EndOK
  <2>2. rcEvents' \in Seq(RcFrames) /\ Len(rcEvents') <= RcEventCap /\ rcConsumer' \in {"run", "gone"}
    <3>1. rcEvents # <<>>
      BY DEF ConsumerTakes
    <3>2. /\ Tail(rcEvents) \in Seq(RcFrames) /\ Len(Tail(rcEvents)) = Len(rcEvents) - 1
          /\ Len(rcEvents) \in Nat /\ <<>> \in Seq(RcFrames) /\ Len(<<>>) = 0
      BY <2>1, <3>1, HeadTailProperties, LenProperties, EmptySeq
    <3>3. Len(Tail(rcEvents)) <= RcEventCap /\ Len(<<>>) <= RcEventCap
      BY <2>1, <3>2
    <3> QED
      BY <3>2, <3>3 DEF ConsumerTakes
  <2> QED
    BY <2>1, <2>2 DEF EndOK, ConsumerTakes, rcNet, rcEnd
<1> QED
  BY <1>1, QuietKeeps DEF ConsumerTakes, rcSide, rcNet

LEMMA TasksStopKeep ==
  ASSUME RcInv, WriterFails \/ ReaderEnds
  PROVE  RcInv'
<1>1. PICK t \in RcTasks : rcTask[t] = "run" /\ rcTask' = [rcTask EXCEPT ![t] = "mark"]
  BY DEF WriterFails, ReaderEnds, StopTask, RcTasks
<1>2. EndOK /\ UNCHANGED <<rcConnected, rcOut, rcEvents, rcConsumer, rcPending, rcTracked, rcCall, rcGate,
                   rcNextId, rcNotified, rcIntentional, rcCloser, rcNet>>
  BY DEF RcInv, WriterFails, ReaderEnds
<1>3. /\ rcTask' \in [RcTasks -> {"run", "mark", "report", "end"}]
      /\ \A u \in RcTasks : rcTask'[u] = "report" => rcTask[u] = "report"
  BY <1>1, <1>2 DEF EndOK
<1>4. EndOK'
  BY <1>2, <1>3 DEF EndOK, rcNet
<1> QED
  BY <1>2, <1>4, QuietKeeps DEF rcSide, rcNet

LEMMA TailElements ==
  ASSUME NEW S, NEW q \in Seq(S), q # << >>
  PROVE  /\ Len(q) \in Nat /\ Len(q) >= 1 /\ Head(q) = q[1] /\ Tail(q) \in Seq(S)
         /\ Len(Tail(q)) = Len(q) - 1
         /\ \A j \in 1..Len(Tail(q)) : Tail(q)[j] = q[j + 1] /\ j \in Nat /\ j + 1 \in 1..Len(q)
<1>1. Len(q) \in Nat /\ Len(q) >= 1 /\ Head(q) = q[1]
  BY EmptySeq, LenProperties
<1>2. Tail(q) \in Seq(S) /\ Len(Tail(q)) = Len(q) - 1 /\ \A i \in 1..Len(Tail(q)) : Tail(q)[i] = q[i + 1]
  BY HeadTailProperties
<1> QED
  BY <1>1, <1>2

\* The writer takes the first frame: one that steers the relay, or one that leaves its target.
LEMMA OutTail ==
  ASSUME OutOK, CallsOK, UNCHANGED <<rcCall, rcNextId>>, rcOut # << >>, rcOut' = Tail(rcOut),
         Steers(rcOut[1]) \/ rcTarget' = rcTarget
  PROVE  OutOK'
<1>0. rcOut \in Seq(RcOutFrames)
  BY DEF OutOK
<1>1. PICK n \in Nat : n = Len(rcOut)
  BY <1>0, LenProperties
<1>2. PICK m \in Nat : m = Len(Tail(rcOut)) /\ n = m + 1
  BY <1>0, <1>1, TailElements
<1>3. /\ rcOut' \in Seq(RcOutFrames) /\ Len(rcOut') = m
      /\ \A j \in 1..m : rcOut'[j] = rcOut[j + 1] /\ j + 1 \in 1..n
  BY <1>0, <1>1, <1>2, TailElements
<1>4. \A j \in 1..m : rcOut'[j].id < rcNextId'
  BY <1>1, <1>3 DEF OutOK
<1>5. ASSUME NEW j \in 1..m, NEW c \in RcCallers, Requesting(c), rcOut'[j].id = rcCall[c].id
      PROVE  /\ rcCall[c].pc = "wait" /\ rcOut'[j].kind = Expected(c) /\ rcOut'[j].peer = RcPeerOf[c]
             /\ Coordinates(c) => \A i \in (j + 1)..m : ~Steers(rcOut'[i])
  <2>1. rcOut'[j] = rcOut[j + 1] /\ j + 1 \in 1..Len(rcOut)
    BY <1>1, <1>3
  <2>2. /\ rcCall[c].pc = "wait" /\ rcOut[j + 1].kind = Expected(c) /\ rcOut[j + 1].peer = RcPeerOf[c]
        /\ Coordinates(c) => \A i \in (j + 1 + 1)..n : ~Steers(rcOut[i])
    BY <1>1, <1>5, <2>1 DEF OutOK
  <2>3. \A i \in (j + 1)..m : i \in 1..m /\ i + 1 \in (j + 1 + 1)..n
    BY <1>2
  <2>4. \A i \in (j + 1)..m : rcOut'[i] = rcOut[i + 1]
    BY <1>3, <2>3
  <2> QED
    BY <2>1, <2>2, <2>3, <2>4
<1>6. ASSUME NEW j \in 1..m, rcOut'[j].kind = "offer"
      PROVE  rcTarget' = rcOut'[j].peer /\ \A i \in 1..(j - 1) : ~Steers(rcOut'[i])
  <2>1. rcOut'[j] = rcOut[j + 1] /\ j + 1 \in 1..Len(rcOut)
    BY <1>1, <1>3
  <2>2. rcTarget = rcOut[j + 1].peer /\ \A i \in 1..((j + 1) - 1) : ~Steers(rcOut[i])
    BY <1>6, <2>1 DEF OutOK
  <2>3. \A i \in 1..j : ~Steers(rcOut[i])
    BY <2>2
  <2>4. 1 \in 1..j /\ \A i \in 1..(j - 1) : i \in 1..m /\ i + 1 \in 1..j
    OBVIOUS
  <2>5. rcTarget' = rcTarget
    BY <2>3, <2>4
  <2>6. \A i \in 1..(j - 1) : rcOut'[i] = rcOut[i + 1]
    BY <1>3, <2>4
  <2> QED
    BY <2>1, <2>2, <2>3, <2>4, <2>5, <2>6
<1> QED
  BY <1>3, <1>4, <1>5, <1>6 DEF OutOK, Requesting, Expected, Coordinates, Steers

\* What the relay answers to a frame (external).
LEMMA RepliesFacts ==
  ASSUME NEW f, f.id \in Nat, NEW r \in Replies(f)
  PROVE  /\ r \in RcFrames /\ r.id = f.id /\ r.note \in {RcNone, "ready", "other", "invalid"}
         /\ r.note = "ready" => f.kind = "resolve"
         /\ r.kind \in {f.kind, "error"} \/ (f.kind = "heartbeat" /\ r.kind = "ping")
         /\ r.kind # "empty"
<1>0. \A n \in {RcNone, "ready", "other", "invalid"} : n \in RcNotes
  BY DEF RcNotes
<1>1. CASE f.kind = "resolve"
  <2>1. PICK kind \in {"resolve", "error"}, n \in {RcNone, "ready", "other", "invalid"} : r = RcFrame(kind, f.id, n)
    BY <1>1 DEF Replies, RcNone
  <2>2. r.kind = kind /\ r.id = f.id /\ r.note = n
    BY <2>1 DEF RcFrame
  <2>3. r \in RcFrames
    BY <1>0, <2>1 DEF RcFrames, RcKinds, RcFrame
  <2> QED
    BY <1>1, <2>2, <2>3
<1>2. CASE f.kind \in {"heartbeat", "publish", "reserve", "ping"}
  <2>1. PICK kind \in RcPlain : r = RcFrame(kind, f.id, RcNone) /\ (f.kind = kind \/ (f.kind = "heartbeat" /\ kind = "ping"))
    BY <1>2 DEF Replies, RcPlain
  <2>2. r.kind = kind /\ r.id = f.id /\ r.note = RcNone
    BY <2>1 DEF RcFrame
  <2>3. r \in RcFrames
    BY <1>0, <2>1 DEF RcFrames, RcKinds, RcFrame
  <2> QED
    BY <2>1, <2>2, <2>3 DEF RcPlain, RcNone
<1>3. CASE f.kind \notin {"resolve", "heartbeat", "publish", "reserve", "ping"}
  BY <1>3 DEF Replies, RcPlain
<1> QED
  BY <1>1, <1>2, <1>3

LEMMA TargetTail ==
  ASSUME TargetOK, OutOK, rcOut # << >>, rcOut' = Tail(rcOut), ~Steers(rcOut[1]) => rcTarget' = rcTarget,
         \A c \in RcCallers : ReadyFor(c)' =>
            \/ ReadyFor(c)
            \/ rcTarget' = RcPeerOf[c] /\ \A j \in 2..Len(rcOut) : ~Steers(rcOut[j])
  PROVE  TargetOK'
<1>0. rcOut \in Seq(RcOutFrames)
  BY DEF OutOK
<1>1. PICK n \in Nat : n = Len(rcOut)
  BY <1>0, LenProperties
<1>2. PICK m \in Nat : m = Len(Tail(rcOut)) /\ n = m + 1
  BY <1>0, <1>1, TailElements
<1>3. Len(rcOut') = m /\ \A j \in 1..m : rcOut'[j] = rcOut[j + 1] /\ j + 1 \in 2..n /\ j + 1 \in 1..n
  BY <1>0, <1>1, <1>2, TailElements
<1>4. ASSUME NEW c \in RcCallers, ReadyFor(c)'
      PROVE  rcTarget' = RcPeerOf[c] /\ \A j \in 1..m : ~Steers(rcOut'[j])
  <2>1. CASE ReadyFor(c)
    <3>1. rcTarget = RcPeerOf[c] /\ \A j \in 1..n : ~Steers(rcOut[j])
      BY <1>1, <2>1 DEF TargetOK
    <3>2. 1 \in 1..n
      BY <1>2
    <3> QED
      BY <1>3, <3>1, <3>2
  <2>2. CASE rcTarget' = RcPeerOf[c] /\ \A j \in 2..Len(rcOut) : ~Steers(rcOut[j])
    BY <1>1, <1>3, <2>2
  <2> QED
    BY <1>4, <2>1, <2>2
<1> QED
  BY <1>3, <1>4 DEF TargetOK, Steers

LEMMA WriterSendsKeeps ==
  ASSUME RcInv, WriterSends
  PROVE  RcInv'
<1>0. /\ CallsOK /\ OutOK /\ InOK /\ TargetOK /\ EndOK /\ rcOut \in Seq(RcOutFrames) /\ rcIn \in Seq(RcFrames)
      /\ rcNextId \in Nat /\ RcOutCap \in Nat
  BY RelayClientAssumption DEF RcInv, OutOK, InOK, CallsOK
<1>1. PICK f : f = Head(rcOut)
  OBVIOUS
<1>2. /\ rcOut # << >> /\ rcOut' = Tail(rcOut)
      /\ IF f.kind = "close"
         THEN StopTask("writer") /\ UNCHANGED <<rcIn, rcTarget, rcOffered, rcHistory>>
         ELSE RelayHandles(f) /\ UNCHANGED rcTask
      /\ UNCHANGED <<rcUp, rcConnected, rcEvents, rcConsumer, rcPending, rcTracked, rcCall, rcGate,
                     rcNextId, rcNotified, rcIntentional, rcCloser>>
  BY <1>1 DEF WriterSends
<1>3. f = rcOut[1] /\ 1 \in 1..Len(rcOut)
  BY <1>0, <1>1, <1>2, TailElements
<1>4. f \in RcOutFrames /\ f.id \in Nat /\ f.id < rcNextId /\ f.kind \in RcOps \cup {"offer", "close"}
  <2>1. f \in RcOutFrames /\ f.id \in Nat
    BY <1>0, <1>3, OutTyped
  <2> QED
    BY <1>0, <1>3, <2>1 DEF OutOK, RcOutFrames
<1>5. /\ CallsOK' /\ GateOK' /\ PendingOK' /\ TrackedOK' /\ rcNextId' >= rcNextId
      /\ \A c \in RcCallers : Mild(c)
  BY <1>2, CallsSame DEF rcSide
<1>6. Len(rcOut') <= RcOutCap
  <2>1. Len(rcOut') = Len(rcOut) - 1 /\ Len(rcOut) \in Nat /\ Len(rcOut) <= RcOutCap
    BY <1>0, <1>2, TailElements DEF EndOK
  <2> QED
    BY <1>0, <2>1
<1>7. CASE f.kind = "close"
  <2>1. UNCHANGED <<rcIn, rcTarget, rcOffered, rcHistory>> /\ rcTask' = [rcTask EXCEPT !["writer"] = "mark"]
    BY <1>2, <1>7 DEF StopTask
  <2>2. OutOK'
    BY <1>0, <1>2, <2>1, OutTail
  <2>3. InOK'
    BY <1>0, <1>5, <2>1, InFrame
  <2>4. \A c \in RcCallers : ReadyFor(c)' => ReadyFor(c)
    BY <1>2, <2>1 DEF ReadyFor
  <2>5. TargetOK'
    BY <1>0, <1>2, <2>1, <2>4, TargetTail
  <2>6. /\ rcTask' \in [RcTasks -> {"run", "mark", "report", "end"}]
        /\ \A u \in RcTasks : rcTask'[u] = "report" => rcTask[u] = "report"
    BY <1>0, <2>1 DEF EndOK
  <2>7. EndOK'
    BY <1>0, <1>2, <1>6, <2>1, <2>6 DEF EndOK
  <2> QED
    BY <1>5, <2>2, <2>3, <2>5, <2>7 DEF RcInv
<1>8. CASE f.kind # "close" /\ RelayReplies(f) /\ UNCHANGED rcHistory
  <2>1. PICK r \in Replies(f) :
           /\ rcIn' = Append(rcIn, r)
           /\ rcTarget' = IF f.kind = "resolve" /\ r.note = "ready" THEN f.peer ELSE rcTarget
    BY <1>8 DEF RelayReplies
  <2>2. UNCHANGED <<rcOffered, rcTask>>
    BY <1>2, <1>8 DEF RelayReplies
  <2>3. /\ r \in RcFrames /\ r.id = f.id /\ r.note \in {RcNone, "ready", "other", "invalid"}
        /\ r.note = "ready" => f.kind = "resolve"
        /\ r.kind \in {f.kind, "error"} \/ (f.kind = "heartbeat" /\ r.kind = "ping")
        /\ r.kind # "empty"
    BY <1>4, <2>1, RepliesFacts
  <2>4. r.kind \in {f.kind, "error"}
    BY <1>4, <2>3 DEF RcOps
  <2>5. r.note \notin RcAttemptIds
    BY <2>3, RelayClientAssumption DEF RcNone
  <2>6. ~Steers(f) => rcTarget' = rcTarget
    BY <2>1 DEF Steers
  <2>7. ASSUME NEW c \in RcCallers, Requesting(c), r.id = rcCall[c].id
        PROVE  /\ rcCall[c].pc = "wait" /\ r.kind \in {Expected(c), "error"} /\ f.peer = RcPeerOf[c]
               /\ Coordinates(c) => \A j \in 2..Len(rcOut) : ~Steers(rcOut[j])
    <3>1. /\ rcCall[c].pc = "wait" /\ rcOut[1].kind = Expected(c) /\ rcOut[1].peer = RcPeerOf[c]
          /\ Coordinates(c) => \A j \in (1 + 1)..Len(rcOut) : ~Steers(rcOut[j])
      BY <1>0, <1>3, <2>3, <2>7 DEF OutOK
    <3> QED
      BY <1>3, <2>4, <3>1
  <2>8. /\ InOK'
        /\ \A c \in RcCallers : ReadyFor(c)' =>
              \/ ReadyFor(c)
              \/ rcCall[c].pc = "wait" /\ rcCall[c].op = "begin" /\ r.id = rcCall[c].id /\ r.note = "ready"
    BY <1>0, <1>2, <1>4, <1>5, <2>1, <2>3, <2>5, <2>7, InAppend
  <2>9. \A c \in RcCallers : ReadyFor(c)' =>
            \/ ReadyFor(c)
            \/ rcTarget' = RcPeerOf[c] /\ \A j \in 2..Len(rcOut) : ~Steers(rcOut[j])
    <3> SUFFICES ASSUME NEW c \in RcCallers, rcCall[c].pc = "wait", rcCall[c].op = "begin",
                        r.id = rcCall[c].id, r.note = "ready"
                 PROVE  rcTarget' = RcPeerOf[c] /\ \A j \in 2..Len(rcOut) : ~Steers(rcOut[j])
      BY <2>8
    <3>1. Requesting(c) /\ Coordinates(c)
      BY DEF Requesting, Coordinates
    <3> QED
      BY <2>1, <2>3, <2>7, <3>1
  <2>10. OutOK' /\ TargetOK'
    BY <1>0, <1>2, <1>3, <2>6, <2>9, OutTail, TargetTail
  <2>11. EndOK'
    BY <1>0, <1>2, <1>6, <1>8, <2>2, EndFrame
  <2> QED
    BY <1>5, <2>8, <2>10, <2>11 DEF RcInv
<1>9. CASE /\ f.kind = "offer" /\ rcHistory' = [rcHistory EXCEPT !.wrong = @ \/ rcTarget # f.peer]
           /\ UNCHANGED <<rcIn, rcTask>>
  <2>1. Steers(rcOut[1]) /\ rcTarget = f.peer
    BY <1>0, <1>3, <1>9 DEF Steers, OutOK
  <2>2. InOK'
    BY <1>0, <1>5, <1>9, InFrame
  <2>3. \A c \in RcCallers : ReadyFor(c)' => ReadyFor(c)
    BY <1>2, <1>9 DEF ReadyFor
  <2>4. OutOK' /\ TargetOK'
    BY <1>0, <1>2, <2>1, <2>3, OutTail, TargetTail
  <2>5. rcHistory \in [spent : Nat, reports : {0, 1}, wrong : {FALSE}]
    BY <1>0 DEF EndOK
  <2>6. rcHistory' = rcHistory
    <3>1. rcHistory.wrong \in {FALSE}
      BY <2>5
    <3>2. (rcHistory.wrong \/ rcTarget # f.peer) = FALSE
      BY <2>1, <3>1, Zenon
    <3>3. rcHistory' = [rcHistory EXCEPT !.wrong = rcHistory.wrong \/ rcTarget # f.peer]
      BY <1>9, Zenon
    <3>4. rcHistory' = [rcHistory EXCEPT !.wrong = FALSE]
      BY <3>2, <3>3, Zenon
    <3>5. rcHistory.wrong = FALSE
      BY <3>1, Zenon
    <3> QED
      BY <2>5, <3>4, <3>5
  <2>7. EndOK'
    BY <1>0, <1>2, <1>6, <1>9, <2>6 DEF EndOK
  <2> QED
    BY <1>5, <2>2, <2>4, <2>7 DEF RcInv
<1>10. CASE f.kind \notin {"offer", "close"} /\ UNCHANGED <<rcIn, rcTarget, rcOffered, rcHistory, rcTask>>
  <2>1. InOK'
    BY <1>0, <1>5, <1>10, InFrame
  <2>2. \A c \in RcCallers : ReadyFor(c)' => ReadyFor(c)
    BY <1>2, <1>10 DEF ReadyFor
  <2>3. OutOK' /\ TargetOK'
    BY <1>0, <1>2, <1>10, <2>2, OutTail, TargetTail
  <2>4. EndOK'
    BY <1>0, <1>2, <1>6, <1>10, EndFrame
  <2> QED
    BY <1>5, <2>1, <2>3, <2>4 DEF RcInv
<1> QED
  BY <1>2, <1>7, <1>8, <1>9, <1>10 DEF RelayHandles

LEMMA WriterHeartbeatKeeps ==
  ASSUME RcInv, WriterHeartbeat
  PROVE  RcInv'
<1>0. CallsOK /\ OutOK /\ InOK /\ TargetOK /\ EndOK /\ rcNextId \in Nat /\ rcNextId # 0
  BY RelayClientAssumption DEF RcInv, CallsOK
<1>1. PICK f : f = [kind |-> "heartbeat", id |-> rcNextId, attempt |-> RcNone, peer |-> RcNone]
  OBVIOUS
<1>2. /\ rcNextId <= RcMaxIds /\ rcNextId' = rcNextId + 1 /\ Disturb /\ RelayReplies(f)
      /\ UNCHANGED <<rcUp, rcConnected, rcOut, rcEvents, rcConsumer, rcPending, rcTracked, rcCall,
                     rcGate, rcEnd>>
  BY <1>1 DEF WriterHeartbeat, HeartbeatId
<1>3. f.kind = "heartbeat" /\ f.id = rcNextId
  BY <1>1
<1>4. PICK r \in Replies(f) :
         /\ rcIn' = Append(rcIn, r)
         /\ rcTarget' = IF f.kind = "resolve" /\ r.note = "ready" THEN f.peer ELSE rcTarget
  BY <1>2 DEF RelayReplies
<1>5. /\ r \in RcFrames /\ r.id = rcNextId /\ r.note \in {RcNone, "ready", "other", "invalid"}
      /\ r.note # "ready" /\ r.kind # "empty"
  BY <1>0, <1>3, <1>4, RepliesFacts
<1>6. r.note \notin RcAttemptIds
  BY <1>5, RelayClientAssumption DEF RcNone
<1>7. /\ CallsOK' /\ GateOK' /\ PendingOK' /\ TrackedOK' /\ rcNextId' >= rcNextId
      /\ \A c \in RcCallers : Mild(c)
  BY <1>2, CallsSame DEF rcSide
<1>8. rcNextId' \in Nat /\ r.id < rcNextId' /\ \A c \in RcCallers : r.id # rcCall[c].id
  <2>1. \A c \in RcCallers : rcCall[c].id \in Nat /\ rcCall[c].id < rcNextId
    BY <1>0, CallTyped DEF CallsOK
  <2> QED
    BY <1>0, <1>2, <1>5, <2>1
<1>9. InOK' /\ \A c \in RcCallers : ReadyFor(c)' => ReadyFor(c)
  BY <1>0, <1>2, <1>4, <1>5, <1>6, <1>7, <1>8, InAppend
<1>10. UNCHANGED <<rcOut, rcTarget>>
  BY <1>2, <1>3, <1>4
<1>11. OutOK' /\ TargetOK'
  BY <1>0, <1>7, <1>9, <1>10, OutFrame, TargetFrame
<1>12. EndOK'
  <2>1. rcHistory' \in [spent : Nat, reports : {0, 1}, wrong : {FALSE}] /\ rcHistory'.reports = rcHistory.reports
    BY <1>0, <1>2, DisturbKeeps
  <2> QED
    BY <1>0, <1>2, <2>1 DEF EndOK, rcEnd
<1> QED
  BY <1>7, <1>9, <1>11, <1>12 DEF RcInv

-----------------------------------------------------------------------------
(* The reader, the drain and the reports                                   *)

\* A step that only fills oneshots of calls that may be waiting.
BoxesMove ==
    /\ rcCall' \in [RcCallers -> RcCalls]
    /\ \A c \in RcCallers :
          /\ rcCall'[c].pc = rcCall[c].pc /\ rcCall'[c].op = rcCall[c].op
          /\ rcCall'[c].attempt = rcCall[c].attempt /\ rcCall'[c].id = rcCall[c].id
          /\ rcCall'[c].box = rcCall[c].box \/ rcCall[c].pc \in {"send", "wait", "offer", "answer"}

LEMMA BoxesKeep ==
  ASSUME CallsOK, GateOK, BoxesMove, UNCHANGED <<rcNextId, rcGate>>
  PROVE  CallsOK' /\ GateOK' /\ (\A c \in RcCallers : Mild(c)) /\ rcNextId' >= rcNextId
<1>1. \A c \in RcCallers :
          /\ rcCall'[c].pc = rcCall[c].pc /\ rcCall'[c].op = rcCall[c].op
          /\ rcCall'[c].attempt = rcCall[c].attempt /\ rcCall'[c].id = rcCall[c].id
          /\ rcCall'[c].box = rcCall[c].box \/ rcCall[c].pc \in {"send", "wait", "offer", "answer"}
  BY DEF BoxesMove
<1>2. \A c \in RcCallers : RecordOK(rcCall'[c])
  <2> SUFFICES ASSUME NEW c \in RcCallers PROVE RecordOK(rcCall'[c])
    OBVIOUS
  <2>1. RecordOK(rcCall[c])
    BY DEF CallsOK
  <2>2. /\ rcCall'[c].pc = rcCall[c].pc /\ rcCall'[c].op = rcCall[c].op
        /\ rcCall'[c].attempt = rcCall[c].attempt /\ rcCall'[c].id = rcCall[c].id
        /\ rcCall'[c].box = rcCall[c].box \/ rcCall[c].pc \in {"send", "wait", "offer", "answer"}
    BY <1>1
  <2> QED
    BY <2>1, <2>2 DEF RecordOK
<1>3. CallsOK'
  BY <1>1, <1>2 DEF CallsOK, BoxesMove
<1>4. GateOK'
  BY <1>1 DEF GateOK, Inside, Coordinates
<1>5. \A c \in RcCallers : Mild(c)
  BY <1>1 DEF Mild, Requesting
<1>6. rcNextId' >= rcNextId
  BY RelayClientAssumption DEF CallsOK
<1> QED
  BY <1>3, <1>4, <1>5, <1>6

LEMMA BoxTyped ==
  ASSUME CallsOK, NEW c \in RcCallers, NEW box \in RcFrames
  PROVE  LET r == [rcCall[c] EXCEPT !.box = box] IN
         /\ r \in RcCalls /\ r.pc = rcCall[c].pc /\ r.op = rcCall[c].op /\ r.attempt = rcCall[c].attempt
         /\ r.id = rcCall[c].id /\ r.box = box
<1>1. rcCall[c] \in RcCalls
  BY DEF CallsOK
<1> QED
  BY <1>1 DEF RcCalls

LEMMA PutMoves ==
  ASSUME CallsOK, NEW c, NEW msg \in RcFrames, NEW pcs \in SUBSET {"send", "wait", "offer", "answer"},
         rcCall' = Put(rcCall, c, pcs, msg)
  PROVE  /\ BoxesMove
         /\ \A d \in RcCallers :
               rcCall'[d].box = IF d = c /\ rcCall[d].pc \in pcs THEN msg ELSE rcCall[d].box
<1>0. rcCall \in [RcCallers -> RcCalls]
  BY DEF CallsOK
<1>1. CASE c \in RcCallers /\ rcCall[c].pc \in pcs
  <2>1. PICK r : r = [rcCall[c] EXCEPT !.box = msg]
    OBVIOUS
  <2>2. /\ r \in RcCalls /\ r.pc = rcCall[c].pc /\ r.op = rcCall[c].op /\ r.attempt = rcCall[c].attempt
        /\ r.id = rcCall[c].id /\ r.box = msg
    BY <1>1, <2>1, BoxTyped
  <2>3. rcCall' = [rcCall EXCEPT ![c] = r]
    BY <1>1, <2>1 DEF Put
  <2>4. rcCall' \in [RcCallers -> RcCalls] /\ rcCall'[c] = r /\ \A d \in RcCallers : d # c => rcCall'[d] = rcCall[d]
    BY <1>0, <1>1, <2>2, <2>3
  <2>5. \A d \in RcCallers :
               rcCall'[d].box = IF d = c /\ rcCall[d].pc \in pcs THEN msg ELSE rcCall[d].box
    BY <1>1, <2>2, <2>4
  <2> QED
    BY <1>1, <2>2, <2>4, <2>5 DEF BoxesMove
<1>2. CASE ~(c \in RcCallers /\ rcCall[c].pc \in pcs)
  <2>1. rcCall' = rcCall
    BY <1>2 DEF Put
  <2> QED
    BY <1>0, <1>2, <2>1 DEF BoxesMove
<1> QED
  BY <1>1, <1>2

\* The reader takes the first frame.
LEMMA InTail ==
  ASSUME CallsOK, CallsOK', InOK, rcIn # << >>, rcIn' = Tail(rcIn), UNCHANGED rcNextId, BoxesMove
  PROVE  InOK' /\ \A j \in 1..Len(rcIn') : \E i \in 1..Len(rcIn) : rcIn'[j] = rcIn[i]
<1>0. rcIn \in Seq(RcFrames)
  BY DEF InOK
<1>1. rcIn' \in Seq(RcFrames) /\ \A j \in 1..Len(rcIn') : rcIn'[j] = rcIn[j + 1] /\ j + 1 \in 1..Len(rcIn)
  BY <1>0, TailElements
<1>2. \A j \in 1..Len(rcIn') : \E i \in 1..Len(rcIn) : rcIn'[j] = rcIn[i]
  BY <1>1
<1>3. \A j \in 1..Len(rcIn') :
          /\ rcIn'[j].kind # "empty" /\ rcIn'[j].id < rcNextId'
          /\ rcIn'[j].note \in RcAttemptIds => rcIn'[j].id = 0
  BY <1>2 DEF InOK
<1>4. ASSUME NEW j \in 1..Len(rcIn'), NEW c \in RcCallers, Requesting(c)', rcIn'[j].id = rcCall'[c].id
      PROVE  rcCall'[c].pc = "wait" /\ rcIn'[j].kind \in {Expected(c)', "error"}
  <2>1. PICK i \in 1..Len(rcIn) : rcIn'[j] = rcIn[i]
    BY <1>2
  <2>2. rcCall'[c].pc = rcCall[c].pc /\ rcCall'[c].op = rcCall[c].op /\ rcCall'[c].id = rcCall[c].id
    BY DEF BoxesMove
  <2>3. rcCall[c].pc = "wait" /\ rcIn[i].kind \in {Expected(c), "error"}
    BY <1>4, <2>1, <2>2 DEF InOK, Requesting
  <2> QED
    BY <2>1, <2>2, <2>3 DEF Expected
<1> QED
  BY <1>1, <1>2, <1>3, <1>4 DEF InOK

LEMMA ReadyBoxes ==
  ASSUME BoxesMove, \A j \in 1..Len(rcIn') : \E i \in 1..Len(rcIn) : rcIn'[j] = rcIn[i],
         \A c \in RcCallers : rcCall[c].pc = "wait" /\ rcCall'[c].box.note = "ready" =>
            \/ rcCall[c].box.note = "ready"
            \/ \E j \in 1..Len(rcIn) : rcIn[j].id = rcCall[c].id /\ rcIn[j].note = "ready"
  PROVE  \A c \in RcCallers : ReadyFor(c)' => ReadyFor(c)
<1> SUFFICES ASSUME NEW c \in RcCallers, ReadyFor(c)' PROVE ReadyFor(c)
  OBVIOUS
<1>1. rcCall'[c].pc = rcCall[c].pc /\ rcCall'[c].op = rcCall[c].op /\ rcCall'[c].id = rcCall[c].id
  BY DEF BoxesMove
<1>2. CASE rcCall[c].pc \in {"track", "offer"}
  BY <1>2 DEF ReadyFor
<1>3. CASE rcCall[c].pc = "wait" /\ rcCall[c].op = "begin" /\ rcCall'[c].box.note = "ready"
  BY <1>3 DEF ReadyFor
<1>4. CASE /\ rcCall[c].pc = "wait" /\ rcCall[c].op = "begin"
           /\ \E j \in 1..Len(rcIn') : rcIn'[j].id = rcCall[c].id /\ rcIn'[j].note = "ready"
  BY <1>4 DEF ReadyFor
<1> QED
  BY <1>1, <1>2, <1>3, <1>4 DEF ReadyFor

\* The writer's queue is as it was, or dropped with the writer.
LEMMA OutEmptied ==
  ASSUME CallsOK, CallsOK', OutOK, TargetOK, rcOut' \in {rcOut, << >>}, UNCHANGED rcTarget,
         rcNextId' >= rcNextId, \A c \in RcCallers : Mild(c), \A c \in RcCallers : ReadyFor(c)' => ReadyFor(c)
  PROVE  OutOK' /\ TargetOK'
<1>1. CASE rcOut' = rcOut
  BY <1>1, OutFrame, TargetFrame
<1>2. CASE rcOut' = << >>
  <2>1. << >> \in Seq(RcOutFrames) /\ Len(<< >>) = 0 /\ 1..0 = {}
    BY EmptySeq
  <2>2. OutOK'
    BY <1>2, <2>1 DEF OutOK
  <2>3. TargetOK'
    BY <1>2, <2>1 DEF TargetOK
  <2> QED
    BY <2>2, <2>3
<1> QED
  BY <1>1, <1>2

\* A step that fills oneshots and touches neither the socket nor the relay.
LEMMA BoxesStep ==
  ASSUME RcInv, BoxesMove, UNCHANGED <<rcNextId, rcGate, rcTarget>>, PendingOK', TrackedOK', EndOK',
         rcOut' \in {rcOut, << >>},
         rcIn' = rcIn \/ (rcIn # << >> /\ rcIn' = Tail(rcIn)),
         \A c \in RcCallers : rcCall[c].pc = "wait" /\ rcCall'[c].box.note = "ready" =>
            \/ rcCall[c].box.note = "ready"
            \/ \E j \in 1..Len(rcIn) : rcIn[j].id = rcCall[c].id /\ rcIn[j].note = "ready"
  PROVE  RcInv'
<1>0. CallsOK /\ GateOK /\ InOK /\ OutOK /\ TargetOK
  BY DEF RcInv
<1>1. CallsOK' /\ GateOK' /\ (\A c \in RcCallers : Mild(c)) /\ rcNextId' >= rcNextId
  BY <1>0, BoxesKeep
<1>2. InOK' /\ \A j \in 1..Len(rcIn') : \E i \in 1..Len(rcIn) : rcIn'[j] = rcIn[i]
  <2>1. CASE rcIn' = rcIn
    BY <1>0, <1>1, <2>1, InFrame
  <2>2. CASE rcIn # << >> /\ rcIn' = Tail(rcIn)
    BY <1>0, <1>1, <2>2, InTail
  <2> QED
    BY <2>1, <2>2
<1>3. \A c \in RcCallers : ReadyFor(c)' => ReadyFor(c)
  BY <1>2, ReadyBoxes
<1>4. OutOK' /\ TargetOK'
  BY <1>0, <1>1, <1>3, OutEmptied
<1> QED
  BY <1>1, <1>2, <1>4 DEF RcInv

LEMMA BoxesSame ==
  ASSUME CallsOK, UNCHANGED rcCall
  PROVE  BoxesMove
BY DEF CallsOK, BoxesMove

LEMMA QueuedKeeps ==
  ASSUME EndOK, NEW e \in RcFrames, Queued(e)
  PROVE  rcEvents' \in Seq(RcFrames) /\ Len(rcEvents') <= RcEventCap
<1>1. rcEvents \in Seq(RcFrames) /\ Len(rcEvents) <= RcEventCap /\ RcEventCap \in Nat /\ Len(rcEvents) \in Nat
  BY RelayClientAssumption, LenProperties DEF EndOK
<1>2. CASE UNCHANGED rcEvents
  BY <1>1, <1>2
<1>3. CASE Len(rcEvents) < RcEventCap /\ rcEvents' = Append(rcEvents, e)
  <2>1. rcEvents' \in Seq(RcFrames) /\ Len(rcEvents') = Len(rcEvents) + 1
    BY <1>1, <1>3, AppendProperties
  <2> QED
    BY <1>1, <1>3, <2>1
<1> QED
  BY <1>2, <1>3 DEF Queued

LEMMA RouteRequestKeeps ==
  ASSUME RcInv, NEW f, rcIn # << >>, f = Head(rcIn), rcIn' = Tail(rcIn), f.id # 0, RouteRequest(f),
         UNCHANGED <<rcNextId, rcGate, rcOut, rcTarget>>, EndOK'
  PROVE  RcInv'
<1>0. CallsOK /\ PendingOK /\ TrackedOK /\ InOK /\ rcIn \in Seq(RcFrames)
  BY DEF RcInv, InOK
<1>1. f = rcIn[1] /\ 1 \in 1..Len(rcIn)
  BY <1>0, TailElements
<1>2. f \in RcFrames /\ f.id \in Nat /\ f.id < rcNextId /\ f.kind # "empty" /\ f.id \in RcIds
  <2>1. f \in RcFrames /\ f.id \in Nat /\ f.id < rcNextId /\ f.kind # "empty"
    BY <1>0, <1>1, InTyped DEF InOK
  <2> QED
    BY <1>0, <2>1, RelayClientAssumption DEF CallsOK, RcIds
<1>3. PICK c : c = rcPending[f.id]
  OBVIOUS
<1>4. /\ rcPending' = [rcPending EXCEPT ![f.id] = RcNone] /\ UNCHANGED rcTracked
      /\ rcCall' = Put(rcCall, c, {"send", "wait"}, f)
  BY <1>3 DEF RouteRequest
<1>5. /\ BoxesMove
      /\ \A d \in RcCallers :
            rcCall'[d].box = IF d = c /\ rcCall[d].pc \in {"send", "wait"} THEN f ELSE rcCall[d].box
  <2>1. {"send", "wait"} \in SUBSET {"send", "wait", "offer", "answer"} /\ f \in RcFrames
    BY <1>2
  <2> QED
    BY <1>0, <1>4, <2>1, PutMoves
<1>6. \A d \in RcCallers : rcCall'[d].pc = rcCall[d].pc /\ rcCall'[d].op = rcCall[d].op
                           /\ rcCall'[d].attempt = rcCall[d].attempt /\ rcCall'[d].id = rcCall[d].id
  BY <1>5 DEF BoxesMove
<1>7. ASSUME NEW d \in RcCallers, d = c, rcCall[d].pc \in {"send", "wait"}
      PROVE  rcCall[d].id = f.id /\ rcCall[d].pc = "wait" /\ f.kind \in {Expected(d), "error"}
  <2>1. rcCall[d].id = f.id
    BY <1>0, <1>2, <1>3, <1>7 DEF PendingOK
  <2> QED
    BY <1>0, <1>1, <1>7, <2>1 DEF InOK, Requesting
<1>8. PendingOK'
  <2>1. /\ rcPending' \in [RcIds -> RcCallers \cup {RcNone}] /\ rcPending'[f.id] = RcNone
        /\ \A i \in RcIds : i # f.id => rcPending'[i] = rcPending[i]
    BY <1>0, <1>2, <1>4 DEF PendingOK
  <2>2. \A i \in RcIds, d \in RcCallers : rcPending'[i] = d => rcPending[i] = d
    BY <2>1, NoneIsNoCaller
  <2>3. \A i \in RcIds, d \in RcCallers : rcPending'[i] = d =>
          (rcCall'[d].id = i /\ Requesting(d)') \/ rcCall'[d].pc = "done"
    BY <1>0, <1>6, <2>2 DEF PendingOK, Requesting
  <2>4. ASSUME NEW d \in RcCallers, Requesting(d)', rcCall'[d].op # "signal", rcCall'[d].box = RcEmpty
        PROVE  rcPending'[rcCall'[d].id] = d
    <3>1. f # RcEmpty
      BY <1>2 DEF RcEmpty, RcFrame
    <3>2. d # c /\ rcCall[d].box = RcEmpty /\ Requesting(d)
      BY <1>5, <1>6, <2>4, <3>1 DEF Requesting
    <3>3. rcPending[rcCall[d].id] = d
      BY <1>0, <1>6, <2>4, <3>2 DEF PendingOK
    <3>4. rcCall[d].id # f.id
      BY <1>3, <3>2, <3>3
    <3>5. rcCall[d].id \in RcIds
      BY <1>0, <3>2, CallTyped, RelayClientAssumption DEF CallsOK, RecordOK, Requesting, RcIds
    <3> QED
      BY <1>6, <2>1, <3>3, <3>4, <3>5
  <2>5. ASSUME NEW d \in RcCallers PROVE BoxOK(rcCall'[d])
    <3>0. BoxOK(rcCall[d])
      BY <1>0 DEF PendingOK
    <3>1. CASE d = c /\ rcCall[d].pc \in {"send", "wait"}
      <4>1. rcCall'[d].box = f /\ rcCall[d].pc = "wait" /\ f.kind \in {Expected(d), "error"}
        BY <1>5, <1>7, <3>1
      <4> QED
        BY <1>6, <4>1 DEF BoxOK, Expected
    <3>2. CASE ~(d = c /\ rcCall[d].pc \in {"send", "wait"})
      <4>1. rcCall'[d].box = rcCall[d].box
        BY <1>5, <3>2
      <4> QED
        BY <1>6, <3>0, <4>1 DEF BoxOK
    <3> QED
      BY <3>1, <3>2
  <2> QED
    BY <2>1, <2>3, <2>4, <2>5 DEF PendingOK
<1>9. TrackedOK'
  <2>1. \A d \in RcCallers : rcCall[d].pc \in {"offer", "answer"} => rcCall'[d].box = rcCall[d].box
    BY <1>5
  <2> QED
    BY <1>0, <1>4, <1>6, <2>1 DEF TrackedOK
<1>10. ASSUME NEW d \in RcCallers, rcCall[d].pc = "wait", rcCall'[d].box.note = "ready"
       PROVE  \/ rcCall[d].box.note = "ready"
              \/ \E j \in 1..Len(rcIn) : rcIn[j].id = rcCall[d].id /\ rcIn[j].note = "ready"
  <2>1. CASE d = c
    <3>1. rcCall'[d].box = f /\ rcCall[d].id = f.id
      BY <1>5, <1>7, <1>10, <2>1
    <3> QED
      BY <1>1, <1>10, <3>1
  <2>2. CASE d # c
    BY <1>5, <1>10, <2>2
  <2> QED
    BY <2>1, <2>2
<1> QED
  BY <1>5, <1>8, <1>9, <1>10, BoxesStep

LEMMA RouteAttemptKeeps ==
  ASSUME RcInv, NEW f, rcIn # << >>, f = Head(rcIn), rcIn' = Tail(rcIn), f.note \in RcAttemptIds, RouteAttempt(f),
         UNCHANGED <<rcNextId, rcGate, rcOut, rcTarget>>, EndOK'
  PROVE  RcInv'
<1>0. CallsOK /\ PendingOK /\ TrackedOK /\ InOK /\ rcIn \in Seq(RcFrames)
  BY DEF RcInv, InOK
<1>1. f = rcIn[1] /\ 1 \in 1..Len(rcIn)
  BY <1>0, TailElements
<1>2. f \in RcFrames /\ f.kind # "empty"
  BY <1>0, <1>1, InTyped DEF InOK
<1>3. PICK c : c = rcTracked[f.note]
  OBVIOUS
<1>4. PICK msg \in {f, RcDropped} : rcCall' = Put(rcCall, c, {"offer", "answer"}, msg)
  BY <1>3 DEF RouteAttempt
<1>5. rcTracked' = [rcTracked EXCEPT ![f.note] = RcNone] /\ UNCHANGED rcPending
  BY DEF RouteAttempt
<1>6. msg \in RcFrames /\ msg # RcEmpty
  <2>1. f # RcEmpty
    BY <1>2 DEF RcEmpty, RcFrame
  <2> QED
    BY <1>2, <1>4, <2>1, FrameFacts
<1>7. /\ BoxesMove
      /\ \A d \in RcCallers :
            rcCall'[d].box = IF d = c /\ rcCall[d].pc \in {"offer", "answer"} THEN msg ELSE rcCall[d].box
  BY <1>0, <1>4, <1>6, PutMoves
<1>8. \A d \in RcCallers : rcCall'[d].pc = rcCall[d].pc /\ rcCall'[d].op = rcCall[d].op
                           /\ rcCall'[d].attempt = rcCall[d].attempt /\ rcCall'[d].id = rcCall[d].id
  BY <1>7 DEF BoxesMove
<1>9. PendingOK'
  <2>1. \A d \in RcCallers : rcCall[d].pc \in {"send", "wait"} => rcCall'[d].box = rcCall[d].box
    BY <1>7
  <2>2. ASSUME NEW d \in RcCallers PROVE BoxOK(rcCall'[d])
    <3>1. BoxOK(rcCall[d])
      BY <1>0 DEF PendingOK
    <3> QED
      BY <1>8, <2>1, <3>1 DEF BoxOK
  <2>3. rcPending \in [RcIds -> RcCallers \cup {RcNone}]
    BY <1>0 DEF PendingOK
  <2>4. \A i \in RcIds, d \in RcCallers : rcPending'[i] = d =>
          (rcCall'[d].id = i /\ Requesting(d)') \/ rcCall'[d].pc = "done"
    BY <1>0, <1>5, <1>8 DEF PendingOK, Requesting
  <2>5. \A d \in RcCallers : Requesting(d)' /\ rcCall'[d].op # "signal" /\ rcCall'[d].box = RcEmpty
          => rcPending'[rcCall'[d].id] = d
    BY <1>0, <1>5, <1>8, <2>1 DEF PendingOK, Requesting
  <2> QED
    BY <1>5, <2>2, <2>3, <2>4, <2>5 DEF PendingOK
<1>10. TrackedOK'
  <2>1. /\ rcTracked' \in [RcAttemptIds -> RcCallers \cup {RcNone}] /\ rcTracked'[f.note] = RcNone
        /\ \A a \in RcAttemptIds : a # f.note => rcTracked'[a] = rcTracked[a]
    BY <1>0, <1>5 DEF TrackedOK
  <2>2. \A a \in RcAttemptIds, d \in RcCallers : rcTracked'[a] = d => rcTracked[a] = d
    BY <2>1, NoneIsNoCaller
  <2>3. \A a \in RcAttemptIds, d \in RcCallers : rcTracked'[a] = d =>
          rcCall'[d].attempt = a /\ rcCall'[d].pc \in {"offer", "answer"}
    BY <1>0, <1>8, <2>2 DEF TrackedOK
  <2>4. \A d \in RcCallers : rcCall[d].pc \notin {"idle", "done"} => rcCall[d].attempt \in RcAttemptIds
    BY <1>0 DEF CallsOK, RecordOK
  <2>5. ASSUME NEW d \in RcCallers, rcCall[d].pc \in {"offer", "answer"}, rcCall'[d].box = RcEmpty
        PROVE  rcTracked'[rcCall[d].attempt] = d
    <3>1. d # c /\ rcCall[d].box = RcEmpty
      BY <1>6, <1>7, <2>5
    <3>2. rcTracked[rcCall[d].attempt] = d
      BY <1>0, <2>5, <3>1 DEF TrackedOK
    <3>3. rcCall[d].attempt # f.note
      BY <1>3, <3>1, <3>2
    <3> QED
      BY <2>1, <2>4, <2>5, <3>2, <3>3
  <2>6. ASSUME NEW d \in RcCallers, rcCall[d].op = "begin", rcCall[d].pc \in {"register", "send", "wait", "track"}
        PROVE  rcTracked'[rcCall[d].attempt] = RcNone
    <3>1. rcTracked[rcCall[d].attempt] = RcNone
      BY <1>0, <2>6 DEF TrackedOK
    <3> QED
      BY <2>1, <2>4, <2>6, <3>1
  <2> QED
    BY <1>8, <2>1, <2>3, <2>5, <2>6 DEF TrackedOK
<1>11. \A d \in RcCallers : rcCall[d].pc = "wait" => rcCall'[d].box = rcCall[d].box
  BY <1>7
<1> QED
  BY <1>7, <1>9, <1>10, <1>11, BoxesStep

LEMMA ReaderRoutesKeeps ==
  ASSUME RcInv, ReaderRoutes
  PROVE  RcInv'
<1>0. CallsOK /\ GateOK /\ PendingOK /\ TrackedOK /\ InOK /\ EndOK /\ rcIn \in Seq(RcFrames)
  BY DEF RcInv, InOK
<1>1. PICK f : f = Head(rcIn)
  OBVIOUS
<1>2. /\ rcTask["reader"] = "run" /\ rcIn # << >> /\ rcIn' = Tail(rcIn)
      /\ UNCHANGED <<rcUp, rcTarget, rcOffered, rcHistory, rcConnected, rcOut, rcConsumer, rcGate,
                     rcNextId, rcNotified, rcIntentional, rcCloser>>
  BY DEF ReaderRoutes
<1>3. f \in RcFrames
  <2>1. f = rcIn[1] /\ 1 \in 1..Len(rcIn)
    BY <1>0, <1>1, <1>2, TailElements
  <2> QED
    BY <1>0, <2>1, InTyped
<1>4. CASE StopTask("reader") /\ UNCHANGED <<rcPending, rcTracked, rcCall, rcEvents>>
  <2>1. /\ rcTask' \in [RcTasks -> {"run", "mark", "report", "end"}]
        /\ \A u \in RcTasks : rcTask'[u] = "report" => rcTask[u] = "report"
    BY <1>0, <1>4 DEF EndOK, StopTask
  <2>2. EndOK'
    BY <1>0, <1>2, <1>4, <2>1 DEF EndOK
  <2>3. BoxesMove
    BY <1>0, <1>4, BoxesSame
  <2>4. PendingOK' /\ TrackedOK'
    BY <1>0, <1>4 DEF PendingOK, TrackedOK, Requesting
  <2> QED
    BY <1>2, <1>4, <2>2, <2>3, <2>4, BoxesStep
<1>5. CASE Queued(f) /\ UNCHANGED <<rcTask, rcPending, rcTracked, rcCall>>
  <2>1. EndOK'
    <3>1. rcEvents' \in Seq(RcFrames) /\ Len(rcEvents') <= RcEventCap
      BY <1>0, <1>3, <1>5, QueuedKeeps
    <3> QED
      BY <1>0, <1>2, <1>5, <3>1 DEF EndOK
  <2>3. BoxesMove
    BY <1>0, <1>5, BoxesSame
  <2>4. PendingOK' /\ TrackedOK'
    BY <1>0, <1>5 DEF PendingOK, TrackedOK, Requesting
  <2> QED
    BY <1>2, <1>5, <2>1, <2>3, <2>4, BoxesStep
<1>6. CASE f.note \in RcAttemptIds /\ RouteAttempt(f) /\ UNCHANGED rcTask
  <2>1. EndOK'
    BY <1>0, <1>2, <1>6 DEF EndOK, RouteAttempt
  <2> QED
    BY <1>1, <1>2, <1>6, <2>1, RouteAttemptKeeps
<1>7. CASE f.id # 0 /\ RouteRequest(f) /\ UNCHANGED rcTask
  <2>1. rcEvents' \in Seq(RcFrames) /\ Len(rcEvents') <= RcEventCap
    <3>1. CASE Queued(f)
      BY <1>0, <1>3, <3>1, QueuedKeeps
    <3>2. CASE UNCHANGED rcEvents
      BY <1>0, <3>2 DEF EndOK
    <3> QED
      BY <1>7, <3>1, <3>2 DEF RouteRequest
  <2>2. EndOK'
    BY <1>0, <1>2, <1>7, <2>1 DEF EndOK
  <2> QED
    BY <1>1, <1>2, <1>7, <2>2, RouteRequestKeeps
<1> QED
  BY <1>1, <1>4, <1>5, <1>6, <1>7 DEF ReaderRoutes

\* drain_pending leaves no call waiting for a reply that cannot come: whoever is
\* registered has Disconnected in its oneshot.
LEMMA DrainKeeps ==
  ASSUME RcInv, DrainPending
  PROVE  /\ BoxesMove /\ PendingOK' /\ TrackedOK'
         /\ \A c \in RcCallers : rcCall'[c].box = rcCall[c].box \/ rcCall'[c].box = RcDisconnected
<1>0. CallsOK /\ PendingOK /\ TrackedOK /\ rcCall \in [RcCallers -> RcCalls]
  BY DEF RcInv, CallsOK
<1> DEFINE told(c) == \/ rcCall[c].pc \in {"send", "wait"} /\ \E i \in RcIds : rcPending[i] = c /\ rcCall[c].id = i
                      \/ rcCall[c].pc \in {"offer", "answer"} /\ \E a \in RcAttemptIds : rcTracked[a] = c
<1>1. rcCall' = [c \in RcCallers |-> IF told(c) THEN [rcCall[c] EXCEPT !.box = RcDisconnected] ELSE rcCall[c]]
  BY DEF DrainPending, Listening
<1>2. \A c \in RcCallers : told(c) => rcCall[c].pc \in {"send", "wait", "offer", "answer"}
  OBVIOUS
<1>3. ASSUME NEW c \in RcCallers, Requesting(c), rcCall[c].op # "signal", rcCall[c].box = RcEmpty PROVE told(c)
  <2>1. rcPending[rcCall[c].id] = c
    BY <1>0, <1>3 DEF PendingOK
  <2>2. rcCall[c].id \in RcIds
    BY <1>0, <1>3, CallTyped, RelayClientAssumption DEF CallsOK, RecordOK, Requesting, RcIds
  <2> QED
    BY <1>3, <2>1, <2>2 DEF Requesting
<1>4. ASSUME NEW c \in RcCallers, rcCall[c].pc \in {"offer", "answer"}, rcCall[c].box = RcEmpty PROVE told(c)
  <2>1. rcTracked[rcCall[c].attempt] = c /\ rcCall[c].attempt \in RcAttemptIds
    BY <1>0, <1>4 DEF TrackedOK, CallsOK, RecordOK
  <2> QED
    BY <1>4, <2>1
<1> HIDE DEF told
<1>5. ASSUME NEW c \in RcCallers
      PROVE  /\ rcCall'[c] \in RcCalls
             /\ rcCall'[c].pc = rcCall[c].pc /\ rcCall'[c].op = rcCall[c].op
             /\ rcCall'[c].attempt = rcCall[c].attempt /\ rcCall'[c].id = rcCall[c].id
             /\ rcCall'[c].box = IF told(c) THEN RcDisconnected ELSE rcCall[c].box
  <2>1. CASE told(c)
    <3>1. PICK r : r = [rcCall[c] EXCEPT !.box = RcDisconnected]
      OBVIOUS
    <3>2. /\ r \in RcCalls /\ r.pc = rcCall[c].pc /\ r.op = rcCall[c].op /\ r.attempt = rcCall[c].attempt
          /\ r.id = rcCall[c].id /\ r.box = RcDisconnected
      BY <1>0, <3>1, BoxTyped, FrameFacts
    <3>3. rcCall'[c] = r
      BY <1>1, <2>1, <3>1
    <3> QED
      BY <2>1, <3>2, <3>3
  <2>2. CASE ~told(c)
    BY <1>0, <1>1, <2>2
  <2> QED
    BY <2>1, <2>2
<1>6. rcCall' \in [RcCallers -> RcCalls]
  BY <1>1, <1>5
<1>7. BoxesMove
  BY <1>2, <1>5, <1>6 DEF BoxesMove
<1>8. /\ rcPending' \in [RcIds -> RcCallers \cup {RcNone}] /\ \A i \in RcIds : rcPending'[i] = RcNone
      /\ rcTracked' \in [RcAttemptIds -> RcCallers \cup {RcNone}] /\ \A a \in RcAttemptIds : rcTracked'[a] = RcNone
  BY DEF DrainPending
<1>9. \A c \in RcCallers : ~(Requesting(c)' /\ rcCall'[c].op # "signal" /\ rcCall'[c].box = RcEmpty)
  BY <1>3, <1>5, FrameFacts DEF Requesting
<1>10. \A c \in RcCallers : ~(rcCall'[c].pc \in {"offer", "answer"} /\ rcCall'[c].box = RcEmpty)
  BY <1>4, <1>5, FrameFacts
<1>11. ASSUME NEW c \in RcCallers PROVE BoxOK(rcCall'[c])
  <2>1. BoxOK(rcCall[c])
    BY <1>0 DEF PendingOK
  <2> QED
    BY <1>5, <2>1, FrameFacts DEF BoxOK
<1>12. PendingOK'
  BY <1>8, <1>9, <1>11, NoneIsNoCaller DEF PendingOK
<1>13. TrackedOK'
  <2>1. \A c \in RcCallers : rcCall'[c].pc \notin {"idle", "done"} => rcCall'[c].attempt \in RcAttemptIds
    BY <1>0, <1>5 DEF CallsOK, RecordOK
  <2> QED
    BY <1>8, <1>10, <2>1, NoneIsNoCaller DEF TrackedOK
<1> QED
  BY <1>5, <1>7, <1>12, <1>13

LEMMA CloserDrainsKeeps ==
  ASSUME RcInv, CloserDrains
  PROVE  RcInv'
<1>1. /\ BoxesMove /\ PendingOK' /\ TrackedOK'
      /\ \A c \in RcCallers : rcCall'[c].box = rcCall[c].box \/ rcCall'[c].box = RcDisconnected
  BY DrainKeeps DEF CloserDrains
<1>2. EndOK'
  BY DEF RcInv, EndOK, CloserDrains, rcNet
<1> QED
  BY <1>1, <1>2, BoxesStep, FrameFacts DEF CloserDrains, rcNet

LEMMA EmptiedFits ==
  ASSUME EndOK, rcOut' \in {rcOut, << >>}
  PROVE  Len(rcOut') <= RcOutCap
<1>1. Len(rcOut) <= RcOutCap /\ Len(<< >>) = 0 /\ RcOutCap \in Nat
  BY RelayClientAssumption, EmptySeq DEF EndOK
<1> QED
  BY <1>1

LEMMA MarkDisconnectedKeeps ==
  ASSUME RcInv, NEW t \in RcTasks, MarkDisconnected(t)
  PROVE  RcInv'
<1>1. /\ BoxesMove /\ PendingOK' /\ TrackedOK'
      /\ \A c \in RcCallers : rcCall'[c].box = rcCall[c].box \/ rcCall'[c].box = RcDisconnected
  BY DrainKeeps DEF MarkDisconnected
<1>2. EndOK /\ rcTask \in [RcTasks -> {"run", "mark", "report", "end"}]
  BY DEF RcInv, EndOK
<1>3. /\ rcOut' \in {rcOut, << >>} /\ rcConnected' = FALSE /\ rcNotified' = TRUE
      /\ rcTask' = [rcTask EXCEPT ![t] = IF ~rcIntentional /\ ~rcNotified THEN "report" ELSE "end"]
      /\ UNCHANGED <<rcEvents, rcConsumer, rcGate, rcNextId, rcIntentional, rcCloser>>
      /\ UNCHANGED <<rcUp, rcIn, rcTarget, rcOffered, rcHistory>>
  BY DEF MarkDisconnected, FirstReports, rcNet
<1>4. Len(rcOut') <= RcOutCap
  BY <1>2, <1>3, EmptiedFits
<1>5. /\ rcTask' \in [RcTasks -> {"run", "mark", "report", "end"}]
      /\ \A u \in RcTasks : u # t => rcTask'[u] = rcTask[u]
      /\ rcTask'[t] = "report" => ~rcNotified
  BY <1>2, <1>3
<1>6. \A u \in RcTasks : rcTask'[u] = "report" =>
          rcHistory.reports = 0 /\ \A v \in RcTasks : rcTask'[v] = "report" => v = u
  BY <1>2, <1>5 DEF EndOK
<1>7. EndOK'
  BY <1>2, <1>3, <1>4, <1>5, <1>6 DEF EndOK
<1> QED
  BY <1>1, <1>3, <1>7, BoxesStep, FrameFacts

LEMMA TaskReportsKeeps ==
  ASSUME RcInv, NEW t \in RcTasks, TaskReports(t)
  PROVE  RcInv'
<1>0. /\ EndOK /\ CallsOK /\ PendingOK /\ TrackedOK /\ rcTask \in [RcTasks -> {"run", "mark", "report", "end"}]
      /\ rcHistory \in [spent : Nat, reports : {0, 1}, wrong : {FALSE}]
  BY DEF RcInv, EndOK
<1>1. /\ rcTask[t] = "report" /\ Queued(RcDisconnected) /\ rcTask' = [rcTask EXCEPT ![t] = "end"]
      /\ rcHistory' = [rcHistory EXCEPT !.reports = @ + 1] /\ rcOut' \in {rcOut, << >>}
      /\ UNCHANGED <<rcConnected, rcConsumer, rcPending, rcTracked, rcCall, rcGate, rcNextId,
                     rcNotified, rcIntentional, rcCloser, rcUp, rcIn, rcTarget, rcOffered>>
  BY DEF TaskReports
<1>2. BoxesMove
  BY <1>0, <1>1, BoxesSame
<1>3. rcEvents' \in Seq(RcFrames) /\ Len(rcEvents') <= RcEventCap
  BY <1>0, <1>1, QueuedKeeps, FrameFacts
<1>4. Len(rcOut') <= RcOutCap
  BY <1>0, <1>1, EmptiedFits
<1>5. rcNotified # FALSE /\ rcHistory.reports = 0
  BY <1>0, <1>1 DEF EndOK
<1>6. rcHistory' \in [spent : Nat, reports : {0, 1}, wrong : {FALSE}]
  <2>1. rcHistory.spent \in Nat /\ rcHistory.wrong \in {FALSE}
    BY <1>0
  <2>2. rcHistory' = [spent |-> rcHistory.spent, reports |-> rcHistory.reports + 1, wrong |-> rcHistory.wrong]
    BY <1>0, <1>1
  <2>3. rcHistory.reports + 1 \in {0, 1}
    BY <1>5
  <2> QED
    BY <2>1, <2>2, <2>3, Zenon
<1>7. /\ rcTask' \in [RcTasks -> {"run", "mark", "report", "end"}]
      /\ \A u \in RcTasks : rcTask'[u] # "report"
  BY <1>0, <1>1 DEF EndOK
<1>8. EndOK'
  <2>1. rcNotified \in BOOLEAN
    BY <1>0 DEF EndOK
  <2>2. rcNotified'
    BY <1>1, <1>5, <2>1
  <2> QED
    BY <1>0, <1>1, <1>3, <1>4, <1>6, <1>7, <2>2 DEF EndOK
<1>9. PendingOK' /\ TrackedOK'
  BY <1>0, <1>1 DEF PendingOK, TrackedOK, Requesting
<1> QED
  BY <1>1, <1>2, <1>8, <1>9, BoxesStep

LEMMA RequestDisconnectKeeps ==
  ASSUME RcInv, RequestDisconnect
  PROVE  RcInv'
<1>0. /\ CallsOK /\ OutOK /\ InOK /\ TargetOK /\ EndOK /\ rcOut \in Seq(RcOutFrames) /\ rcNextId \in Nat /\ rcNextId # 0
      /\ RcOutCap \in Nat /\ Len(rcOut) <= RcOutCap
  <2>1. CallsOK /\ OutOK /\ InOK /\ TargetOK /\ EndOK
    BY DEF RcInv
  <2>2. rcNextId \in Nat /\ rcNextId # 0 /\ RcOutCap \in Nat
    BY <2>1, RelayClientAssumption DEF CallsOK
  <2>3. rcOut \in Seq(RcOutFrames) /\ Len(rcOut) <= RcOutCap
    BY <2>1 DEF OutOK, EndOK
  <2> QED
    BY <2>1, <2>2, <2>3
<1>1. PICK f : f = [kind |-> "close", id |-> 0, attempt |-> RcNone, peer |-> RcNone]
  OBVIOUS
<1>2. /\ Disturb /\ rcCloser' = "drain" /\ rcIntentional' = TRUE
      /\ rcOut' = rcOut \/ (Len(rcOut) < RcOutCap /\ rcOut' = Append(rcOut, f))
      /\ UNCHANGED <<rcConnected, rcEvents, rcConsumer, rcPending, rcTracked, rcCall, rcGate, rcNextId,
                     rcNotified, rcTask, rcUp, rcIn, rcTarget, rcOffered>>
  BY <1>1 DEF RequestDisconnect, OutboundRoom
<1>3. /\ CallsOK' /\ GateOK' /\ PendingOK' /\ TrackedOK' /\ rcNextId' >= rcNextId
      /\ \A c \in RcCallers : Mild(c)
  BY <1>2, CallsSame DEF rcSide
<1>4. f \in RcOutFrames /\ f.id = 0 /\ f.kind = "close" /\ ~Steers(f)
  BY <1>1 DEF RcOutFrames, RcPeers, Steers
<1>5. InOK' /\ \A c \in RcCallers : ReadyFor(c)' => ReadyFor(c)
  <2>1. InOK'
    BY <1>0, <1>2, <1>3, InFrame
  <2> QED
    BY <1>2, <2>1 DEF ReadyFor
<1>6. OutOK' /\ TargetOK' /\ Len(rcOut') <= RcOutCap
  <2>1. CASE rcOut' = rcOut
    BY <1>0, <1>2, <1>3, <1>5, <2>1, OutFrame, TargetFrame
  <2>2. CASE Len(rcOut) < RcOutCap /\ rcOut' = Append(rcOut, f)
    <3>1. f.id < rcNextId /\ \A c \in RcCallers : Requesting(c)' => f.id # rcCall'[c].id
      BY <1>0, <1>3, <1>4 DEF CallsOK, RecordOK, Requesting
    <3>2. OutOK'
      BY <1>0, <1>2, <1>3, <1>4, <2>2, <3>1, OutAppend
    <3>3. TargetOK'
      BY <1>0, <1>2, <1>4, <1>5, <2>2, TargetAppend
    <3>4. Len(rcOut') = Len(rcOut) + 1 /\ Len(rcOut) \in Nat
      BY <1>0, <1>4, <2>2, AppendProperties, LenProperties
    <3> QED
      BY <1>0, <2>2, <3>2, <3>3, <3>4
  <2> QED
    BY <1>2, <2>1, <2>2
<1>7. EndOK'
  <2>1. rcHistory' \in [spent : Nat, reports : {0, 1}, wrong : {FALSE}] /\ rcHistory'.reports = rcHistory.reports
    BY <1>0, <1>2, DisturbKeeps
  <2> QED
    BY <1>0, <1>2, <1>6, <2>1 DEF EndOK
<1> QED
  BY <1>3, <1>5, <1>6, <1>7 DEF RcInv

-----------------------------------------------------------------------------
(* The theorem                                                             *)

LEMMA RcInvInit ==
  ASSUME RelayClientInit
  PROVE  RcInv
<1>0. /\ rcOut = << >> /\ rcIn = << >> /\ rcEvents = << >> /\ rcNextId = 1
      /\ rcCall = [c \in RcCallers |-> RcIdle] /\ rcPending = [i \in RcIds |-> RcNone]
      /\ rcTracked = [a \in RcAttemptIds |-> RcNone] /\ rcGate = RcNone
  BY DEF RelayClientInit
<1>1. /\ RcIdle \in RcCalls /\ RcIdle.pc = "idle" /\ RcIdle.op = RcNone /\ RcIdle.id = 0 /\ RcIdle.box = RcEmpty
  BY FrameFacts DEF RcIdle, RcCalls
<1>2. rcCall \in [RcCallers -> RcCalls] /\ \A c \in RcCallers : rcCall[c] = RcIdle
  BY <1>0, <1>1
<1>3. RecordOK(RcIdle) /\ BoxOK(RcIdle)
  BY <1>1 DEF RecordOK, BoxOK
<1>4. << >> \in Seq(RcFrames) /\ << >> \in Seq(RcOutFrames) /\ Len(<< >>) = 0 /\ 1..0 = {}
  BY EmptySeq
<1>5. CallsOK
  BY <1>0, <1>1, <1>2, <1>3, RelayClientAssumption DEF CallsOK
<1>6. GateOK /\ TrackedOK
  BY <1>0, <1>1, <1>2, NoneIsNoCaller DEF GateOK, TrackedOK, Inside
<1>7. PendingOK
  BY <1>0, <1>1, <1>2, <1>3, NoneIsNoCaller DEF PendingOK, Requesting
<1>8. OutOK /\ InOK
  BY <1>0, <1>4 DEF OutOK, InOK
<1>9. TargetOK
  BY <1>1, <1>2 DEF TargetOK, ReadyFor
<1>10. EndOK
  <2>1. rcHistory \in [spent : Nat, reports : {0, 1}, wrong : {FALSE}]
    <3>1. rcHistory = [spent |-> 0, reports |-> 0, wrong |-> FALSE]
      BY DEF RelayClientInit
    <3>2. 0 \in Nat /\ 0 \in {0, 1}
      OBVIOUS
    <3> QED
      BY <3>1, <3>2, Zenon
  <2>2. rcHistory.reports = 0
    BY DEF RelayClientInit
  <2>3. {rcUp, rcConnected, rcNotified, rcIntentional} \subseteq BOOLEAN
    BY DEF RelayClientInit
  <2> QED
    BY <1>0, <1>4, <2>1, <2>2, <2>3, RelayClientAssumption DEF EndOK, RelayClientInit
<1> QED
  BY <1>5, <1>6, <1>7, <1>8, <1>9, <1>10 DEF RcInv

LEMMA RcInvStep ==
  ASSUME RcInv, [RelayClientNext]_rcVars
  PROVE  RcInv'
<1>1. ASSUME NEW c \in RcCallers, NEW a \in RcAttemptIds, NEW op \in RcPlan[c], CallStart(c, op, a) PROVE RcInv'
  BY <1>1, CallStartKeeps
<1>2. ASSUME NEW c \in RcCallers, RcCallStep(c) \/ CallDropped(c) PROVE RcInv'
  BY <1>2, CallLockKeeps, CallRegisterKeeps, CallSendKeeps, CallReplyKeeps, CallTrackKeeps, CallOfferKeeps,
     CallEndsKeep, CallDroppedKeeps DEF RcCallStep
<1>3. ASSUME NEW t \in RcTasks, RcTaskStep(t) PROVE RcInv'
  BY <1>3, MarkDisconnectedKeeps, TaskReportsKeeps DEF RcTaskStep
<1>4. CASE UNCHANGED rcVars
  <2>1. EndOK'
    BY <1>4 DEF RcInv, EndOK, rcVars
  <2> QED
    BY <1>4, <2>1, QuietKeeps DEF rcVars, rcSide
<1> QED
  BY <1>1, <1>2, <1>3, <1>4, RelayAnswersKeeps, RelayPushesKeeps, SocketLostKeeps, WriterSendsKeeps,
     WriterHeartbeatKeeps, TasksStopKeep, ReaderRoutesKeeps, RequestDisconnectKeeps, CloserDrainsKeeps,
     ConsumerTakesKeeps DEF RelayClientNext

LEMMA RcInvIsEnough ==
  ASSUME RcInv
  PROVE  CallsPaired
<1>0. CallsOK /\ GateOK /\ PendingOK /\ TrackedOK /\ EndOK
  BY DEF RcInv
<1>1. \A c \in RcCallers : rcCall[c].box.kind \in RcKinds /\ rcCall[c].result # "unexpected"
  <2> SUFFICES ASSUME NEW c \in RcCallers PROVE rcCall[c].box.kind \in RcKinds /\ rcCall[c].result # "unexpected"
    OBVIOUS
  <2>1. rcCall[c].box \in RcFrames /\ rcCall[c].result \in {RcNone, "ok", "failed"}
    BY <1>0, CallTyped
  <2> QED
    BY <2>1 DEF RcFrames, RcNone
<1>2. RelayClientTypeOK
  BY <1>0, <1>1 DEF RelayClientTypeOK, EndOK, PendingOK, TrackedOK, GateOK, CallsOK
<1>3. WaiterIsReachable
  BY <1>0 DEF WaiterIsReachable, PendingOK, TrackedOK, Requesting
<1>4. ReplyIsOwn
  BY <1>1 DEF ReplyIsOwn
<1>5. OfferReachesResolvedPeer /\ DisconnectReportedOnce
  <2>1. rcHistory.wrong \in {FALSE} /\ rcHistory.reports \in {0, 1}
    BY <1>0 DEF EndOK
  <2>2. ~rcHistory.wrong
    BY <2>1, Zenon
  <2>3. rcHistory.reports <= 1
    BY <2>1
  <2> QED
    BY <2>2, <2>3 DEF OfferReachesResolvedPeer, DisconnectReportedOnce
<1> QED
  BY <1>2, <1>3, <1>4, <1>5 DEF CallsPaired

\* For any number of callers, request ids and disturbances of control_client.rs: a caller
\* that waits in send_and_await or ConnectivityAnswerWaiter::wait can be reached by the
\* reader or by drain_pending, is only given the reply to its own request, its Offer goes to
\* the peer its Resolve named, and mark_control_disconnected reports the end at most once.
THEOREM CallsStayPaired == RelayClientSpec => []CallsPaired
<1>1. RelayClientInit => RcInv
  BY RcInvInit
<1>2. RcInv /\ [RelayClientNext]_rcVars => RcInv'
  BY RcInvStep
<1>3. RcInv => CallsPaired
  BY RcInvIsEnough
<1> QED
  BY <1>1, <1>2, <1>3, PTL DEF RelayClientSpec
=============================================================================
