--------------------------- MODULE SessionsProofs ---------------------------
(***************************************************************************)
(* Safety proofs about what runs on top of a session.  Streams: for every  *)
(* set of streams, every buffer size and tombstone limit, and every        *)
(* interleaving of tasks, reader, consumers, lost paths and teardown.      *)
(* Realtime: for every set of signals, every bound on queues and drivers,  *)
(* and every interleaving of commands, signals, I/O tasks and teardown.    *)
(* Transfers: for every length of the file and number of attempts, and     *)
(* every interleaving of both sides' tasks, lost paths and teardown.       *)
(***************************************************************************)
EXTENDS Streams, Realtime, Transfers, FiniteSetTheorems, SequenceTheorems, TLAPS

-----------------------------------------------------------------------------
(* Streams: the inductive invariant                                        *)

Opening == {"open", "bind", "opentake", "openwrite", "openrestore"}
Sending == {"sendtake", "write", "restore", "closetake", "closewrite", "closelocal",
            "closerestore", "lost", "lost2"}
Leases == 0 .. StrMaxPaths
StrEntries == [here : BOOLEAN, chunks : Seq(Nat), recvClosed : BOOLEAN, sendClosed : BOOLEAN,
               nextRecv : Nat, lease : Leases]
StrTasks == [at : {"idle"} \cup Opening \cup Sending, lease : Leases]
StrReaders == [at : {"idle", "bind", "lost", "lost2", "buffer", "drained"}, key : StrKeys \cup {"none"},
               seq : Nat, after : Nat, lease : Leases]

\* What every field can hold.
StrTyped ==
  /\ strEntry \in [StrKeys -> StrEntries]
  /\ strRetired \subseteq StrKeys
  /\ strGen \in 1 .. StrMaxPaths
  /\ strTask \in [StrKeys -> StrTasks]
  /\ strReader \in StrReaders
  /\ strReader.at # "idle" => strReader.key \in StrKeys
  /\ strReader.at = "bind" => strReader.lease # 0
  /\ strDrain \in [StrKeys -> {"none", "run", "done"}]
  /\ strSocket \in [StrBridged -> BOOLEAN]
  /\ strPeer \in [StrKeys -> [sent : Nat, closed : BOOLEAN]]
  /\ strGot \in [StrKeys -> Seq(Nat)]
  /\ strClosedEv \in [StrKeys -> BOOLEAN]
  /\ strOpens \in [StrKeys -> Nat]
  /\ strSpent \in 0 .. StrBudget

\* The identity has been used: no entry will be made for it again.
Used(k) == strEntry[k].here \/ k \in strRetired \/ Cardinality(strRetired) >= StrMaxRetired

\* From a number on, without a gap.
Counts(s, from) == \A i \in 1 .. Len(s) : s[i] = from + i - 1

\* What was handed on and what is buffered is what the peer sent, from its first
\* frame on.
FramesOK(k) ==
  /\ Counts(strGot[k], 0)
  /\ strEntry[k].here =>
       /\ strEntry[k].nextRecv = Len(strGot[k]) + Len(strEntry[k].chunks)
       /\ Counts(strEntry[k].chunks, Len(strGot[k]))
  /\ Len(strEntry[k].chunks) <= StrCap

\* An identity is used once, and what is told of it belongs to that use.
IdentityOK(k) ==
  /\ ~strEntry[k].here => strEntry[k] = NoEntry
  /\ strOpens[k] = 0 => strGot[k] = <<>> /\ ~strClosedEv[k] /\ strTask[k].at \in {"idle", "open"}
                        /\ ~strEntry[k].here
  /\ strOpens[k] # 0 => strOpens[k] = 1 /\ Used(k)
  /\ strClosedEv[k] /\ strEntry[k].here => strEntry[k].recvClosed /\ strEntry[k].chunks = <<>>

\* The reader is about to bind the stream, or to close it.
Binding(k) == strReader.key = k /\ strReader.at \in {"bind", "lost", "lost2"}

\* A lease that is not in its entry is with the task or the reader at work on it.
LeaseOK(k) ==
  /\ strEntry[k].here /\ strEntry[k].lease = 0 /\ ~strEntry[k].sendClosed
       => strTask[k].at \notin {"idle", "open"} \/ Binding(k)
  /\ strTask[k].at \in {"open", "bind", "openwrite", "openrestore", "write", "restore"}
       => strTask[k].lease # 0
  /\ strTask[k].at = "opentake" /\ strEntry[k].here => strEntry[k].lease # 0
  /\ strTask[k].at = "closerestore" /\ strEntry[k].here => strEntry[k].sendClosed

KeyOK(k) == FramesOK(k) /\ IdentityOK(k) /\ LeaseOK(k)
StrInv == StrTyped /\ \A k \in StrKeys : KeyOK(k)

-----------------------------------------------------------------------------
(* Streams: steps that leave a stream alone, and closed halves             *)

\* Tombstones are only added.
Grown == strRetired' \subseteq StrKeys /\ strRetired \subseteq strRetired'

LEMMA UsedStays ==
  ASSUME StrTyped, Grown
  PROVE  Cardinality(strRetired) >= StrMaxRetired => Cardinality(strRetired') >= StrMaxRetired
<1>1. IsFiniteSet(strRetired') /\ IsFiniteSet(strRetired)
  BY StreamsAssumption, FS_Subset DEF Grown, StrTyped
<1>2. Cardinality(strRetired) <= Cardinality(strRetired')
  BY <1>1, FS_Subset DEF Grown
<1>3. Cardinality(strRetired) \in Nat /\ Cardinality(strRetired') \in Nat /\ StrMaxRetired \in Nat
  BY <1>1, FS_CardinalityType, StreamsAssumption
<1> QED
  BY <1>2, <1>3

\* What is told of stream k stays as it was.
Told(k) ==
  /\ strGot'[k] = strGot[k] /\ strClosedEv'[k] = strClosedEv[k] /\ strOpens'[k] = strOpens[k]

\* A stream the step does not touch.
Untouched(k) == strEntry'[k] = strEntry[k] /\ strTask'[k] = strTask[k] /\ Told(k)

LEMMA StrFrame ==
  ASSUME StrTyped, Grown, NEW k \in StrKeys, KeyOK(k), Untouched(k), Binding(k) => Binding(k)'
  PROVE  KeyOK(k)'
<1>1. FramesOK(k)'
  BY DEF KeyOK, FramesOK, Untouched, Told, Counts
<1>2. Used(k) => Used(k)'
  BY UsedStays DEF Used, Grown, Untouched
<1>3. IdentityOK(k)'
  BY <1>2 DEF KeyOK, IdentityOK, Untouched, Told
<1>4. LeaseOK(k)'
  BY DEF KeyOK, LeaseOK, Untouched
<1> QED
  BY <1>1, <1>3, <1>4 DEF KeyOK

\* The entry of stream k as a task or the reader leaves it: gone, with its identity
\* used, or as it was with perhaps one more half closed.
Gone(k) == strEntry'[k] = NoEntry /\ (strOpens[k] # 0 => Used(k)')
Kept(k) ==
  /\ strEntry[k].here /\ strEntry'[k].here
  /\ strEntry'[k].chunks = strEntry[k].chunks /\ strEntry'[k].nextRecv = strEntry[k].nextRecv
  /\ strEntry[k].recvClosed => strEntry'[k].recvClosed
  /\ strEntry[k].sendClosed => strEntry'[k].sendClosed
SameLease(k) == Gone(k) \/ (Kept(k) /\ strEntry'[k].lease = strEntry[k].lease)
OthersStay(k) == \A j \in StrKeys \ {k} : strEntry'[j] = strEntry[j]

LEMMA Settles ==
  ASSUME StrTyped, NEW k \in StrKeys, NEW e, KeyOK(k), Settle(k, e),
         e \in StrEntries, strEntry[k].here, e.here, e.chunks = strEntry[k].chunks,
         e.nextRecv = strEntry[k].nextRecv, e.lease = strEntry[k].lease,
         strEntry[k].recvClosed => e.recvClosed, strEntry[k].sendClosed => e.sendClosed
  PROVE  /\ strEntry' \in [StrKeys -> StrEntries] /\ Grown /\ OthersStay(k) /\ SameLease(k)
         /\ strEntry'[k].here => strEntry'[k] = e
<1>0. NoEntry \in StrEntries
  BY StreamsAssumption DEF NoEntry, StrEntries, Leases
<1>1. CASE e.recvClosed /\ e.sendClosed
  <2>1. /\ strEntry' = [strEntry EXCEPT ![k] = NoEntry]
        /\ strRetired' = IF Cardinality(strRetired) < StrMaxRetired THEN strRetired \cup {k} ELSE strRetired
    BY <1>1 DEF Settle
  <2>2. strEntry' \in [StrKeys -> StrEntries] /\ OthersStay(k) /\ strEntry'[k] = NoEntry
    BY <1>0, <2>1 DEF StrTyped, OthersStay
  <2>3. Grown
    BY <2>1 DEF Grown, StrTyped
  <2>4. IsFiniteSet(strRetired) /\ Cardinality(strRetired) \in Nat /\ StrMaxRetired \in Nat
    BY StreamsAssumption, FS_Subset, FS_CardinalityType DEF StrTyped
  <2>5. Used(k)'
    BY <2>1, <2>4 DEF Used
  <2>6. ~strEntry'[k].here
    BY <2>2 DEF NoEntry
  <2> QED
    BY <2>2, <2>3, <2>5, <2>6 DEF SameLease, Gone
<1>2. CASE ~(e.recvClosed /\ e.sendClosed)
  <2>1. strEntry' = [strEntry EXCEPT ![k] = e] /\ strRetired' = strRetired
    BY <1>2 DEF Settle
  <2>2. strEntry' \in [StrKeys -> StrEntries] /\ OthersStay(k) /\ strEntry'[k] = e
    BY <2>1 DEF StrTyped, OthersStay
  <2>3. Grown
    BY <2>1 DEF Grown, StrTyped
  <2>4. Kept(k)
    BY <2>2 DEF Kept
  <2>5. strEntry'[k].lease = strEntry[k].lease
    BY <2>2
  <2> QED
    BY <2>2, <2>3, <2>4, <2>5 DEF SameLease
<1> QED
  BY <1>1, <1>2

LEMMA HandleCloses ==
  ASSUME StrTyped, NEW k \in StrKeys, KeyOK(k), HandleClose(k)
  PROVE  /\ strEntry' \in [StrKeys -> StrEntries] /\ Grown /\ OthersStay(k) /\ SameLease(k)
<1>1. CASE strEntry[k].here
  <2> DEFINE e == [strEntry[k] EXCEPT !.recvClosed = TRUE]
  <2>1. strEntry[k] \in StrEntries
    BY DEF StrTyped
  <2>2. /\ e \in StrEntries /\ e.here = strEntry[k].here /\ e.chunks = strEntry[k].chunks
        /\ e.nextRecv = strEntry[k].nextRecv /\ e.lease = strEntry[k].lease /\ e.recvClosed
        /\ e.sendClosed = strEntry[k].sendClosed
    BY <2>1 DEF StrEntries
  <2>3. Settle(k, e)
    BY <1>1 DEF HandleClose
  <2> HIDE DEF e
  <2> QED
    BY <1>1, <2>2, <2>3, Settles
<1>2. CASE ~strEntry[k].here
  <2>1. strEntry' = strEntry /\ strRetired' = strRetired
    BY <1>2 DEF HandleClose
  <2>2. strOpens[k] # 0 => Used(k)'
    BY <2>1 DEF KeyOK, IdentityOK, Used
  <2> QED
    BY <1>2, <2>1, <2>2 DEF StrTyped, Grown, OthersStay, SameLease, Gone, KeyOK, IdentityOK
<1> QED
  BY <1>1, <1>2

LEMMA CloseLocals ==
  ASSUME StrTyped, NEW k \in StrKeys, KeyOK(k), CloseLocal(k)
  PROVE  /\ strEntry' \in [StrKeys -> StrEntries] /\ Grown /\ OthersStay(k) /\ SameLease(k)
         /\ strEntry'[k].here => strEntry'[k].sendClosed
<1>1. CASE strEntry[k].here
  <2> DEFINE e == [strEntry[k] EXCEPT !.sendClosed = TRUE]
  <2>1. strEntry[k] \in StrEntries
    BY DEF StrTyped
  <2>2. /\ e \in StrEntries /\ e.here = strEntry[k].here /\ e.chunks = strEntry[k].chunks
        /\ e.nextRecv = strEntry[k].nextRecv /\ e.lease = strEntry[k].lease /\ e.sendClosed
        /\ e.recvClosed = strEntry[k].recvClosed
    BY <2>1 DEF StrEntries
  <2>3. Settle(k, e)
    BY <1>1 DEF CloseLocal
  <2> HIDE DEF e
  <2> QED
    BY <1>1, <2>2, <2>3, Settles
<1>2. CASE ~strEntry[k].here
  <2>1. strEntry' = strEntry /\ strRetired' = strRetired
    BY <1>2 DEF CloseLocal
  <2>2. strOpens[k] # 0 => Used(k)'
    BY <2>1 DEF KeyOK, IdentityOK, Used
  <2> QED
    BY <1>2, <2>1, <2>2 DEF StrTyped, Grown, OthersStay, SameLease, Gone, KeyOK, IdentityOK
<1> QED
  BY <1>1, <1>2

\* What a consumer was given and the use of the identity survive such an edit.
LEMMA EditKeeps ==
  ASSUME StrTyped, NEW k \in StrKeys, KeyOK(k), Grown, Gone(k) \/ Kept(k), Told(k),
         strOpens[k] = 0 => strTask'[k].at \in {"idle", "open"}
  PROVE  FramesOK(k)' /\ IdentityOK(k)'
<1>1. FramesOK(k)'
  <2>1. CASE Gone(k)
    <3>1. Len(strEntry'[k].chunks) = 0 /\ ~strEntry'[k].here
      BY <2>1 DEF Gone, NoEntry
    <3>2. Counts(strGot'[k], 0)
      BY DEF KeyOK, FramesOK, Told
    <3> QED
      BY <3>1, <3>2, StreamsAssumption DEF FramesOK
  <2>2. CASE Kept(k)
    BY <2>2 DEF KeyOK, FramesOK, Told, Kept
  <2> QED
    BY <2>1, <2>2
<1>2. strOpens[k] # 0 => Used(k)'
  BY DEF Gone, Kept, Used
<1>3. CASE Gone(k)
  <2>1. strEntry'[k] = NoEntry /\ ~strEntry'[k].here
    BY <1>3 DEF Gone, NoEntry
  <2> QED
    BY <1>1, <1>2, <2>1 DEF KeyOK, IdentityOK, Told
<1>4. CASE Kept(k)
  BY <1>1, <1>2, <1>4 DEF KeyOK, IdentityOK, Told, Kept
<1> QED
  BY <1>3, <1>4

-----------------------------------------------------------------------------
(* Streams: the task that opens, sends and closes                          *)

\* An entry that is left alone.
LEMMA StaysSame ==
  ASSUME StrTyped, NEW k \in StrKeys, KeyOK(k), strEntry' = strEntry, strRetired' = strRetired
  PROVE  /\ strEntry' \in [StrKeys -> StrEntries] /\ Grown /\ OthersStay(k) /\ SameLease(k)
<1>1. strEntry' \in [StrKeys -> StrEntries] /\ Grown /\ OthersStay(k)
  BY DEF StrTyped, Grown, OthersStay
<1>2. CASE strEntry[k].here
  <2>1. Kept(k)
    BY <1>2 DEF Kept
  <2> QED
    BY <1>1, <2>1 DEF SameLease
<1>3. CASE ~strEntry[k].here
  <2>1. strOpens[k] # 0 => Used(k)'
    BY DEF KeyOK, IdentityOK, Used
  <2>2. strEntry[k] = NoEntry
    BY <1>3 DEF KeyOK, IdentityOK
  <2>3. Gone(k)
    BY <2>1, <2>2 DEF Gone
  <2> QED
    BY <1>1, <2>3 DEF SameLease
<1> QED
  BY <1>1, <1>2, <1>3

\* bind, take and restore only move the lease.
LEMMA Binds ==
  ASSUME StrTyped, NEW k \in StrKeys, strEntry[k].here, NEW l \in Leases, Bind(k, l),
         strRetired' = strRetired
  PROVE  /\ strEntry' \in [StrKeys -> StrEntries] /\ Grown /\ OthersStay(k) /\ Kept(k)
         /\ strEntry'[k].lease = l /\ strEntry'[k].sendClosed = strEntry[k].sendClosed
<1>1. strEntry' = [strEntry EXCEPT ![k].lease = l] /\ strEntry[k] \in StrEntries
  BY DEF Bind, StrTyped
<1>2. strEntry'[k] = [strEntry[k] EXCEPT !.lease = l]
  BY <1>1 DEF StrTyped
<1>3. strEntry'[k] \in StrEntries /\ strEntry'[k].lease = l
  BY <1>1, <1>2 DEF StrEntries
<1>4. strEntry' \in [StrKeys -> StrEntries] /\ OthersStay(k)
  BY <1>1, <1>3 DEF StrTyped, OthersStay
<1>5. Kept(k) /\ strEntry'[k].sendClosed = strEntry[k].sendClosed
  BY <1>1, <1>2 DEF Kept, StrEntries
<1>6. Grown
  BY DEF Grown, StrTyped
<1> QED
  BY <1>3, <1>4, <1>5, <1>6

\* A step of the task of stream k keeps the invariant if it keeps stream k in order.
LEMMA TaskKeepsAll ==
  ASSUME StrInv, NEW k \in StrKeys, TaskKeeps,
         strEntry' \in [StrKeys -> StrEntries], Grown, OthersStay(k),
         strDrain' \in [StrKeys -> {"none", "run", "done"}], strSpent' \in 0 .. StrBudget,
         strOpens' \in [StrKeys -> Nat], \A j \in StrKeys \ {k} : strOpens'[j] = strOpens[j],
         NEW stage \in {"idle"} \cup Opening \cup Sending, NEW l \in Leases,
         TaskTo(k, stage, l), KeyOK(k)'
  PROVE  StrInv'
<1>1. /\ strTask' \in [StrKeys -> StrTasks]
      /\ \A j \in StrKeys \ {k} : strTask'[j] = strTask[j]
  BY DEF TaskTo, StrInv, StrTyped, StrTasks
<1>2. StrTyped'
  BY <1>1 DEF StrInv, StrTyped, TaskKeeps, Grown
<1>3. ASSUME NEW j \in StrKeys, j # k PROVE KeyOK(j)'
  <2>1. Untouched(j)
    BY <1>1, <1>3 DEF Untouched, Told, TaskKeeps, OthersStay
  <2>2. Binding(j) => Binding(j)'
    BY DEF Binding, TaskKeeps
  <2>3. StrTyped /\ KeyOK(j)
    BY DEF StrInv
  <2> QED
    BY <2>1, <2>2, <2>3, StrFrame
<1> QED
  BY <1>2, <1>3 DEF StrInv

LEMMA TaskAt ==
  ASSUME StrTyped, NEW k \in StrKeys, NEW stage, NEW l, TaskTo(k, stage, l)
  PROVE  strTask'[k].at = stage /\ strTask'[k].lease = l
BY DEF TaskTo, StrTyped

\* Steps of the task that keep the entry or close a half of it.
LEMMA TaskCloses ==
  ASSUME StrInv, NEW k \in StrKeys, TaskKeeps,
         strEntry' \in [StrKeys -> StrEntries], Grown, OthersStay(k), SameLease(k),
         strDrain' = strDrain, strSpent' \in 0 .. StrBudget, strOpens' = strOpens,
         NEW stage \in {"idle"} \cup Opening \cup Sending, NEW l \in Leases,
         TaskTo(k, stage, l),
         strOpens[k] = 0 => stage \in {"idle", "open"},
         stage \in {"idle", "open"} /\ strEntry'[k].here =>
            \/ strTask[k].at \in {"idle", "open"}
            \/ strEntry'[k].lease # 0 \/ strEntry'[k].sendClosed,
         stage \in {"open", "bind", "openwrite", "openrestore", "write", "restore"} => l # 0,
         stage # "opentake",
         stage = "closerestore" /\ strEntry'[k].here => strEntry'[k].sendClosed
  PROVE  StrInv'
<1>0. StrTyped /\ KeyOK(k)
  BY DEF StrInv
<1>1. strTask'[k].at = stage /\ strTask'[k].lease = l
  BY <1>0, TaskAt
<1>2. Told(k) /\ (Gone(k) \/ Kept(k))
  BY DEF Told, TaskKeeps, SameLease
<1>3. FramesOK(k)' /\ IdentityOK(k)'
  BY <1>0, <1>1, <1>2, EditKeeps
<1>4. Binding(k)' <=> Binding(k)
  BY DEF Binding, TaskKeeps
<1>5. ASSUME strEntry'[k].here, strEntry'[k].lease = 0, ~strEntry'[k].sendClosed
      PROVE  stage \notin {"idle", "open"} \/ Binding(k)
  <2>1. Kept(k) /\ strEntry'[k].lease = strEntry[k].lease
    BY <1>5 DEF SameLease, Gone, NoEntry
  <2>2. strEntry[k].here /\ strEntry[k].lease = 0 /\ ~strEntry[k].sendClosed
    BY <1>5, <2>1 DEF Kept
  <2> QED
    BY <1>0, <1>5, <2>2 DEF KeyOK, LeaseOK
<1>6. LeaseOK(k)'
  BY <1>1, <1>4, <1>5 DEF LeaseOK
<1>7. KeyOK(k)'
  BY <1>3, <1>6 DEF KeyOK
<1>8. strOpens' \in [StrKeys -> Nat] /\ strDrain' \in [StrKeys -> {"none", "run", "done"}]
  BY <1>0 DEF StrTyped
<1> QED
  BY <1>7, <1>8, TaskKeepsAll

LEMMA Happening ==
  ASSUME StrTyped, StrHappens
  PROVE  strSpent' \in 0 .. StrBudget
BY StreamsAssumption DEF StrTyped, StrHappens

LEMMA OpenStreamKeeps ==
  ASSUME StrInv, NEW k \in StrKeys, OpenStream(k)
  PROVE  StrInv'
<1>0. StrTyped /\ KeyOK(k)
  BY DEF StrInv
<1>1. /\ strTask[k].at = "idle" /\ StrHappens /\ TaskTo(k, "open", strGen) /\ TaskKeeps
      /\ strEntry' = strEntry /\ strRetired' = strRetired /\ strDrain' = strDrain /\ strOpens' = strOpens
  BY DEF OpenStream
<1>2. strSpent' \in 0 .. StrBudget
  BY <1>0, <1>1, Happening
<1>3. strGen \in Leases /\ strGen # 0
  BY <1>0 DEF StrTyped, Leases
<1>4. /\ strEntry' \in [StrKeys -> StrEntries] /\ Grown /\ OthersStay(k) /\ SameLease(k)
  BY <1>0, <1>1, StaysSame
<1> QED
  BY <1>1, <1>2, <1>3, <1>4, TaskCloses DEF Opening

\* SendStream, CloseStream and GatewayClose: the task starts with the lease of the entry.
LEMMA TaskStarts ==
  ASSUME StrInv, NEW k \in StrKeys, strTask[k].at = "idle", strEntry[k].here, TaskKeeps,
         NEW stage \in {"sendtake", "closetake"}, TaskTo(k, stage, 0), strSpent' \in 0 .. StrBudget,
         UNCHANGED <<strEntry, strRetired, strDrain, strOpens>>
  PROVE  StrInv'
<1>0. StrTyped /\ KeyOK(k)
  BY DEF StrInv
<1>1. /\ strEntry' \in [StrKeys -> StrEntries] /\ Grown /\ OthersStay(k) /\ SameLease(k)
  BY <1>0, StaysSame
<1>2. strOpens[k] # 0
  BY <1>0 DEF KeyOK, IdentityOK
<1>3. 0 \in Leases /\ strDrain' = strDrain /\ strOpens' = strOpens
  BY StreamsAssumption DEF Leases
<1>4. stage \in {"idle"} \cup Opening \cup Sending
  BY DEF Sending
<1> QED
  BY <1>1, <1>2, <1>3, <1>4, TaskCloses

LEMMA StartsKeep ==
  ASSUME StrInv, NEW k \in StrKeys, SendStream(k) \/ CloseStream(k) \/ GatewayClose(k)
  PROVE  StrInv'
<1>0. StrTyped
  BY DEF StrInv
<1>1. CASE SendStream(k)
  <2>1. strSpent' \in 0 .. StrBudget
    BY <1>0, <1>1, Happening DEF SendStream
  <2> QED
    BY <1>1, <2>1, TaskStarts DEF SendStream
<1>2. CASE CloseStream(k)
  <2>1. strSpent' \in 0 .. StrBudget
    BY <1>0, <1>2, Happening DEF CloseStream
  <2> QED
    BY <1>2, <2>1, TaskStarts DEF CloseStream
<1>3. CASE GatewayClose(k)
  <2>1. strSpent' \in 0 .. StrBudget
    BY <1>0, <1>3 DEF GatewayClose, StrTyped
  <2> QED
    BY <1>3, <2>1, TaskStarts DEF GatewayClose
<1> QED
  BY <1>1, <1>2, <1>3

\* open of the manager: the identity was never used, the new entry is empty.
LEMMA Inserts ==
  ASSUME StrTyped, NEW k \in StrKeys, KeyOK(k), CanOpen(k), Insert(k), strRetired' = strRetired,
         strGot' = strGot, strClosedEv' = strClosedEv
  PROVE  /\ strEntry' \in [StrKeys -> StrEntries] /\ Grown /\ OthersStay(k)
         /\ strOpens' \in [StrKeys -> Nat] /\ (\A j \in StrKeys \ {k} : strOpens'[j] = strOpens[j])
         /\ strOpens[k] = 0 /\ strEntry'[k].here /\ FramesOK(k)' /\ IdentityOK(k)'
<1> DEFINE e == [NoEntry EXCEPT !.here = TRUE]
<1>1. strEntry' = [strEntry EXCEPT ![k] = e] /\ strOpens' = [strOpens EXCEPT ![k] = @ + 1]
  BY DEF Insert
<1>2. NoEntry \in StrEntries /\ NoEntry.chunks = <<>> /\ NoEntry.nextRecv = 0
  BY StreamsAssumption DEF StrEntries, Leases, NoEntry
<1>3. e \in StrEntries /\ e.here /\ e.chunks = <<>> /\ e.nextRecv = 0
  BY <1>2 DEF StrEntries
<1> HIDE DEF e
<1>4. strEntry' \in [StrKeys -> StrEntries] /\ strEntry'[k] = e /\ OthersStay(k)
  BY <1>1, <1>3 DEF StrTyped, OthersStay
<1>5. ~Used(k)
  <2>1. IsFiniteSet(strRetired) /\ Cardinality(strRetired) \in Nat /\ StrMaxRetired \in Nat
    BY StreamsAssumption, FS_Subset, FS_CardinalityType DEF StrTyped
  <2> QED
    BY <2>1 DEF CanOpen, Used
<1>6. strOpens[k] = 0 /\ strGot[k] = <<>> /\ ~strClosedEv[k]
  BY <1>5 DEF KeyOK, IdentityOK
<1>7. /\ strOpens' \in [StrKeys -> Nat] /\ strOpens'[k] = 1
      /\ \A j \in StrKeys \ {k} : strOpens'[j] = strOpens[j]
  BY <1>1, <1>6 DEF StrTyped
<1>8. Grown
  BY DEF Grown, StrTyped
<1>9. FramesOK(k)'
  <2>1. strGot'[k] = <<>> /\ Len(strGot'[k]) = 0 /\ Len(strEntry'[k].chunks) = 0
    BY <1>3, <1>4, <1>6
  <2>2. Counts(strGot'[k], 0) /\ Counts(strEntry'[k].chunks, Len(strGot'[k]))
    BY <2>1 DEF Counts
  <2> QED
    BY <1>3, <1>4, <2>1, <2>2, StreamsAssumption DEF FramesOK
<1>10. Used(k)'
  BY <1>3, <1>4 DEF Used
<1>11. IdentityOK(k)'
  BY <1>3, <1>4, <1>6, <1>7, <1>10 DEF IdentityOK
<1> QED
  BY <1>3, <1>4, <1>6, <1>7, <1>8, <1>9, <1>11

LEMMA OpenInsertKeeps ==
  ASSUME StrInv, NEW k \in StrKeys, OpenInsert(k)
  PROVE  StrInv'
<1>0. StrTyped /\ KeyOK(k)
  BY DEF StrInv
<1>1. /\ strTask[k].at = "open" /\ TaskKeeps /\ strSpent' = strSpent
      /\ strRetired' = strRetired /\ strDrain' = strDrain
  BY DEF OpenInsert, TaskMoves
<1>2. strSpent' \in 0 .. StrBudget /\ strDrain' \in [StrKeys -> {"none", "run", "done"}]
  BY <1>0, <1>1 DEF StrTyped
<1>3. strTask[k].lease \in Leases /\ strTask[k].lease # 0 /\ 0 \in Leases
  BY <1>0, <1>1, StreamsAssumption DEF StrTyped, StrTasks, KeyOK, LeaseOK, Leases
<1>4. CASE CanOpen(k)
  <2>1. Insert(k) /\ TaskTo(k, "bind", strTask[k].lease)
    BY <1>4 DEF OpenInsert
  <2>2. strGot' = strGot /\ strClosedEv' = strClosedEv
    BY <1>1 DEF TaskKeeps
  <2>3. /\ strEntry' \in [StrKeys -> StrEntries] /\ Grown /\ OthersStay(k)
        /\ strOpens' \in [StrKeys -> Nat] /\ (\A j \in StrKeys \ {k} : strOpens'[j] = strOpens[j])
        /\ FramesOK(k)' /\ IdentityOK(k)'
    BY <1>0, <1>1, <1>4, <2>1, <2>2, Inserts
  <2>4. strTask'[k].at = "bind" /\ strTask'[k].lease # 0
    BY <1>0, <1>3, <2>1, TaskAt
  <2>5. KeyOK(k)'
    BY <2>3, <2>4 DEF KeyOK, LeaseOK
  <2> QED
    BY <1>1, <1>2, <1>3, <2>1, <2>3, <2>5, TaskKeepsAll DEF Opening
<1>5. CASE ~CanOpen(k)
  <2>1. TaskTo(k, "idle", 0) /\ strEntry' = strEntry /\ strOpens' = strOpens
    BY <1>5 DEF OpenInsert
  <2>2. /\ strEntry' \in [StrKeys -> StrEntries] /\ Grown /\ OthersStay(k) /\ SameLease(k)
    BY <1>0, <1>1, <2>1, StaysSame
  <2> QED
    BY <1>1, <1>2, <1>3, <2>1, <2>2, TaskCloses
<1> QED
  BY <1>4, <1>5

\* The stages in which the stream was opened before.
LEMMA Opened ==
  ASSUME NEW k \in StrKeys, KeyOK(k), strTask[k].at \notin {"idle", "open"}
  PROVE  strOpens[k] # 0
BY DEF KeyOK, IdentityOK

\* Steps of the task that move the lease.
LEMMA TaskBinds ==
  ASSUME StrInv, NEW k \in StrKeys, strTask[k].at \notin {"idle", "open"}, TaskKeeps,
         strEntry[k].here, NEW lease \in Leases, Bind(k, lease), strRetired' = strRetired,
         strDrain' \in [StrKeys -> {"none", "run", "done"}], strSpent' = strSpent, strOpens' = strOpens,
         NEW stage \in {"idle"} \cup Opening \cup Sending, NEW l \in Leases,
         TaskTo(k, stage, l), stage # "open",
         stage = "idle" => lease # 0 \/ strEntry[k].sendClosed,
         stage = "opentake" => lease # 0,
         stage \in {"bind", "openwrite", "openrestore", "write", "restore"} => l # 0,
         stage # "closerestore"
  PROVE  StrInv'
<1>0. StrTyped /\ KeyOK(k)
  BY DEF StrInv
<1>1. strTask'[k].at = stage /\ strTask'[k].lease = l
  BY <1>0, TaskAt
<1>2. /\ strEntry' \in [StrKeys -> StrEntries] /\ Grown /\ OthersStay(k) /\ Kept(k)
      /\ strEntry'[k].lease = lease /\ strEntry'[k].sendClosed = strEntry[k].sendClosed
  BY <1>0, Binds
<1>3. strOpens[k] # 0
  BY <1>0, Opened
<1>4. Told(k)
  BY DEF Told, TaskKeeps
<1>5. FramesOK(k)' /\ IdentityOK(k)'
  BY <1>0, <1>1, <1>2, <1>3, <1>4, EditKeeps
<1>6. LeaseOK(k)'
  BY <1>1, <1>2 DEF LeaseOK
<1>7. KeyOK(k)'
  BY <1>5, <1>6 DEF KeyOK
<1>8. strOpens' \in [StrKeys -> Nat] /\ strSpent' \in 0 .. StrBudget
  BY <1>0 DEF StrTyped
<1> QED
  BY <1>2, <1>7, <1>8, TaskKeepsAll

LEMMA OpenBindKeeps ==
  ASSUME StrInv, NEW k \in StrKeys, OpenBind(k)
  PROVE  StrInv'
<1>0. StrTyped /\ KeyOK(k)
  BY DEF StrInv
<1>1. /\ strTask[k].at = "bind" /\ TaskKeeps /\ strSpent' = strSpent
      /\ strRetired' = strRetired /\ strDrain' = strDrain /\ strOpens' = strOpens
  BY DEF OpenBind, TaskMoves
<1>2. strSpent' \in 0 .. StrBudget /\ strDrain' \in [StrKeys -> {"none", "run", "done"}]
  BY <1>0, <1>1 DEF StrTyped
<1>3. strTask[k].lease \in Leases /\ strTask[k].lease # 0 /\ 0 \in Leases
  BY <1>0, <1>1, StreamsAssumption DEF StrTyped, StrTasks, KeyOK, LeaseOK, Leases
<1>4. CASE CanBind(k)
  <2>1. strEntry[k].here /\ Bind(k, strTask[k].lease) /\ TaskTo(k, "opentake", 0)
    BY <1>4 DEF OpenBind, CanBind
  <2> QED
    BY <1>1, <1>2, <1>3, <2>1, TaskBinds DEF Opening
<1>5. CASE ~CanBind(k)
  <2>1. TaskTo(k, "idle", 0) /\ strEntry' = strEntry
    BY <1>5 DEF OpenBind
  <2>2. /\ strEntry' \in [StrKeys -> StrEntries] /\ Grown /\ OthersStay(k) /\ SameLease(k)
    BY <1>0, <1>1, <2>1, StaysSame
  <2>3. strEntry'[k].here => strEntry'[k].lease # 0
    BY <1>5, <2>1 DEF CanBind
  <2> QED
    BY <1>1, <1>2, <1>3, <2>1, <2>2, <2>3, TaskCloses
<1> QED
  BY <1>4, <1>5

LEMMA TakeLeaseKeeps ==
  ASSUME StrInv, NEW k \in StrKeys, TakeLease(k)
  PROVE  StrInv'
<1> DEFINE next == [opentake |-> "openwrite", sendtake |-> "write", closetake |-> "closewrite"]
           stage == next[strTask[k].at]
<1>0. StrTyped /\ KeyOK(k)
  BY DEF StrInv
<1>1. /\ strTask[k].at \in {"opentake", "sendtake", "closetake"} /\ TaskKeeps /\ strSpent' = strSpent
      /\ strRetired' = strRetired /\ strDrain' = strDrain /\ strOpens' = strOpens
  BY DEF TakeLease, TaskMoves
<1>2. strSpent' \in 0 .. StrBudget /\ strDrain' \in [StrKeys -> {"none", "run", "done"}]
  BY <1>0, <1>1 DEF StrTyped
<1>3. strEntry[k].lease \in Leases /\ 0 \in Leases
  BY <1>0, StreamsAssumption DEF StrTyped, StrEntries, Leases
<1>4. stage \in {"openwrite", "write", "closewrite"}
  BY <1>1
<1>5. CASE CanTake(k)
  <2>1. Bind(k, 0) /\ TaskTo(k, stage, strEntry[k].lease)
    BY <1>5 DEF TakeLease
  <2>2. strEntry[k].here /\ strEntry[k].lease # 0
    BY <1>5 DEF CanTake
  <2> HIDE DEF next, stage
  <2>3. stage \in {"idle"} \cup Opening \cup Sending /\ stage \notin {"idle", "open", "opentake", "closerestore"}
    BY <1>4 DEF Opening, Sending
  <2>4. strTask[k].at \notin {"idle", "open"}
    BY <1>1
  <2> QED
    BY <1>1, <1>2, <1>3, <2>1, <2>2, <2>3, <2>4, TaskBinds
<1>6. CASE ~CanTake(k)
  <2> DEFINE to == IF strTask[k].at = "opentake" THEN "idle" ELSE "lost"
  <2>1. TaskTo(k, to, 0) /\ strEntry' = strEntry
    BY <1>6 DEF TakeLease
  <2>2. /\ strEntry' \in [StrKeys -> StrEntries] /\ Grown /\ OthersStay(k) /\ SameLease(k)
    BY <1>0, <1>1, <2>1, StaysSame
  <2>3. to = "idle" /\ strEntry'[k].here => strEntry'[k].lease # 0
    BY <1>0, <2>1 DEF KeyOK, LeaseOK
  <2>4. strOpens[k] # 0
    BY <1>0, <1>1, Opened
  <2>5. to \in {"idle", "lost"} /\ to \in {"idle"} \cup Opening \cup Sending
    BY DEF Sending
  <2> HIDE DEF to
  <2> QED
    BY <1>1, <1>2, <1>3, <2>1, <2>2, <2>3, <2>4, <2>5, TaskCloses
<1> QED
  BY <1>5, <1>6

LEMMA WriteFrameKeeps ==
  ASSUME StrInv, NEW k \in StrKeys, NEW ok \in BOOLEAN, WriteFrame(k, ok)
  PROVE  StrInv'
<1> DEFINE next == [openwrite |-> "openrestore", write |-> "restore", closewrite |-> "closelocal"]
           good == ok /\ Active(strTask[k].lease)
           to == IF good THEN next[strTask[k].at] ELSE "lost"
           l == IF good THEN strTask[k].lease ELSE 0
<1>0. StrTyped /\ KeyOK(k)
  BY DEF StrInv
<1>1. /\ strTask[k].at \in {"openwrite", "write", "closewrite"} /\ TaskKeeps /\ strSpent' = strSpent
      /\ strEntry' = strEntry /\ strRetired' = strRetired /\ strDrain' = strDrain /\ strOpens' = strOpens
  BY DEF WriteFrame, TaskMoves
<1>2. strSpent' \in 0 .. StrBudget
  BY <1>0, <1>1 DEF StrTyped
<1>3. l \in Leases
  BY <1>0, StreamsAssumption DEF StrTyped, StrTasks, Leases
<1>4. TaskTo(k, to, l)
  BY DEF WriteFrame
<1>5. to \in {"openrestore", "restore", "closelocal", "lost"}
  BY <1>1
<1>6. to \in {"openrestore", "restore"} => l # 0
  BY <1>0, <1>1 DEF KeyOK, LeaseOK
<1>7. /\ strEntry' \in [StrKeys -> StrEntries] /\ Grown /\ OthersStay(k) /\ SameLease(k)
  BY <1>0, <1>1, StaysSame
<1>8. strOpens[k] # 0
  BY <1>0, <1>1, Opened
<1> HIDE DEF next, good, to, l
<1>9. to \in {"idle"} \cup Opening \cup Sending
  BY <1>5 DEF Opening, Sending
<1> QED
  BY <1>1, <1>2, <1>3, <1>4, <1>5, <1>6, <1>7, <1>8, <1>9, TaskCloses

LEMMA RestoreLeaseKeeps ==
  ASSUME StrInv, NEW k \in StrKeys, RestoreLease(k)
  PROVE  StrInv'
<1>0. StrTyped /\ KeyOK(k)
  BY DEF StrInv
<1>1. /\ strTask[k].at \in {"openrestore", "restore"} /\ TaskKeeps /\ strSpent' = strSpent
      /\ strRetired' = strRetired /\ strOpens' = strOpens
  BY DEF RestoreLease, TaskMoves
<1>2. strSpent' \in 0 .. StrBudget
  BY <1>0, <1>1 DEF StrTyped
<1>3. strTask[k].lease \in Leases /\ strTask[k].lease # 0 /\ 0 \in Leases
  BY <1>0, <1>1, StreamsAssumption DEF StrTyped, StrTasks, KeyOK, LeaseOK, Leases
<1>4. CASE CanRestore(k)
  <2>1. strEntry[k].here /\ Bind(k, strTask[k].lease) /\ TaskTo(k, "idle", 0)
    BY <1>4 DEF RestoreLease, CanRestore, CanBind
  <2>2. strDrain' \in [StrKeys -> {"none", "run", "done"}]
    BY <1>0, <1>4 DEF RestoreLease, StrTyped
  <2> QED
    BY <1>1, <1>2, <1>3, <2>1, <2>2, TaskBinds
<1>5. CASE ~CanRestore(k)
  <2>1. TaskTo(k, "lost", 0) /\ strEntry' = strEntry /\ strDrain' = strDrain
    BY <1>5 DEF RestoreLease
  <2>2. /\ strEntry' \in [StrKeys -> StrEntries] /\ Grown /\ OthersStay(k) /\ SameLease(k)
    BY <1>0, <1>1, <2>1, StaysSame
  <2>3. strOpens[k] # 0
    BY <1>0, <1>1, Opened
  <2> QED
    BY <1>1, <1>2, <1>3, <2>1, <2>2, <2>3, TaskCloses DEF Sending
<1> QED
  BY <1>4, <1>5

LEMMA LoseKeeps ==
  ASSUME StrInv, NEW k \in StrKeys, LoseReceive(k) \/ LoseSend(k) \/ CloseHalf(k)
  PROVE  StrInv'
<1>0. StrTyped /\ KeyOK(k)
  BY DEF StrInv
<1>1. /\ strTask[k].at \in {"lost", "lost2", "closelocal"} /\ TaskKeeps /\ strSpent' = strSpent
      /\ strDrain' = strDrain /\ strOpens' = strOpens
  BY DEF LoseReceive, LoseSend, CloseHalf, TaskMoves
<1>2. strSpent' \in 0 .. StrBudget
  BY <1>0, <1>1 DEF StrTyped
<1>3. strTask[k].lease \in Leases /\ 0 \in Leases
  BY <1>0, StreamsAssumption DEF StrTyped, StrTasks, Leases
<1>4. strOpens[k] # 0
  BY <1>0, <1>1, Opened
<1>5. CASE LoseReceive(k)
  <2>1. HandleClose(k) /\ TaskTo(k, "lost2", 0)
    BY <1>5 DEF LoseReceive
  <2>2. /\ strEntry' \in [StrKeys -> StrEntries] /\ Grown /\ OthersStay(k) /\ SameLease(k)
    BY <1>0, <2>1, HandleCloses
  <2> QED
    BY <1>1, <1>2, <1>3, <1>4, <2>1, <2>2, TaskCloses DEF Sending
<1>6. CASE LoseSend(k)
  <2>1. CloseLocal(k) /\ TaskTo(k, "idle", 0)
    BY <1>6 DEF LoseSend
  <2>2. /\ strEntry' \in [StrKeys -> StrEntries] /\ Grown /\ OthersStay(k) /\ SameLease(k)
        /\ strEntry'[k].here => strEntry'[k].sendClosed
    BY <1>0, <2>1, CloseLocals
  <2> QED
    BY <1>1, <1>2, <1>3, <1>4, <2>1, <2>2, TaskCloses
<1>7. CASE CloseHalf(k)
  <2>1. CloseLocal(k) /\ TaskTo(k, "closerestore", strTask[k].lease)
    BY <1>7 DEF CloseHalf
  <2>2. /\ strEntry' \in [StrKeys -> StrEntries] /\ Grown /\ OthersStay(k) /\ SameLease(k)
        /\ strEntry'[k].here => strEntry'[k].sendClosed
    BY <1>0, <2>1, CloseLocals
  <2> QED
    BY <1>1, <1>2, <1>3, <1>4, <2>1, <2>2, TaskCloses DEF Sending
<1> QED
  BY <1>5, <1>6, <1>7

LEMMA CloseRestoreKeeps ==
  ASSUME StrInv, NEW k \in StrKeys, CloseRestore(k)
  PROVE  StrInv'
<1>0. StrTyped /\ KeyOK(k)
  BY DEF StrInv
<1>1. /\ strTask[k].at = "closerestore" /\ TaskKeeps /\ strSpent' = strSpent
      /\ strRetired' = strRetired /\ strDrain' = strDrain /\ strOpens' = strOpens
      /\ TaskTo(k, "idle", 0)
  BY DEF CloseRestore, TaskMoves
<1>2. strSpent' \in 0 .. StrBudget /\ strDrain' \in [StrKeys -> {"none", "run", "done"}]
  BY <1>0, <1>1 DEF StrTyped
<1>3. strTask[k].lease \in Leases /\ 0 \in Leases
  BY <1>0, StreamsAssumption DEF StrTyped, StrTasks, Leases
<1>4. strEntry[k].here => strEntry[k].sendClosed
  BY <1>0, <1>1 DEF KeyOK, LeaseOK
<1>5. CASE CanRestore(k)
  <2>1. strEntry[k].here /\ Bind(k, strTask[k].lease)
    BY <1>5 DEF CloseRestore, CanRestore, CanBind
  <2> QED
    BY <1>1, <1>2, <1>3, <1>4, <2>1, TaskBinds
<1>6. CASE ~CanRestore(k)
  <2>1. strEntry' = strEntry
    BY <1>6 DEF CloseRestore
  <2>2. /\ strEntry' \in [StrKeys -> StrEntries] /\ Grown /\ OthersStay(k) /\ SameLease(k)
    BY <1>0, <1>1, <2>1, StaysSame
  <2> QED
    BY <1>1, <1>2, <1>3, <1>4, <2>1, <2>2, TaskCloses
<1> QED
  BY <1>5, <1>6

-----------------------------------------------------------------------------
(* Streams: the reader of the route                                        *)

LEMMA ReaderKeepsAll ==
  ASSUME StrInv, NEW k \in StrKeys, ReaderKeeps,
         strEntry' \in [StrKeys -> StrEntries], Grown, OthersStay(k),
         strDrain' \in [StrKeys -> {"none", "run", "done"}], strSpent' \in 0 .. StrBudget,
         strOpens' \in [StrKeys -> Nat], \A j \in StrKeys \ {k} : strOpens'[j] = strOpens[j],
         strPeer' \in [StrKeys -> [sent : Nat, closed : BOOLEAN]],
         strReader' \in StrReaders, strReader'.at # "idle" => strReader'.key \in StrKeys,
         strReader'.at = "bind" => strReader'.lease # 0,
         strReader.at = "idle" \/ strReader.key = k, KeyOK(k)'
  PROVE  StrInv'
<1>1. StrTyped'
  BY DEF StrInv, StrTyped, ReaderKeeps, Grown
<1>2. ASSUME NEW j \in StrKeys, j # k PROVE KeyOK(j)'
  <2>1. Untouched(j)
    BY <1>2 DEF Untouched, Told, ReaderKeeps, OthersStay
  <2>2. ~Binding(j)
    BY <1>2 DEF Binding
  <2>3. StrTyped /\ KeyOK(j)
    BY DEF StrInv
  <2> QED
    BY <2>1, <2>2, <2>3, StrFrame
<1> QED
  BY <1>1, <1>2 DEF StrInv

\* The reader keeps the entry or closes a half of it.
LEMMA ReaderEdits ==
  ASSUME StrTyped, NEW k \in StrKeys, KeyOK(k), Grown, SameLease(k), Told(k), strTask' = strTask,
         Binding(k) => Binding(k)' \/ (strEntry'[k].here => strEntry'[k].sendClosed)
  PROVE  KeyOK(k)'
<1>1. FramesOK(k)' /\ IdentityOK(k)'
  BY EditKeeps DEF KeyOK, IdentityOK, SameLease
<1>2. CASE Gone(k)
  <2>1. ~strEntry'[k].here
    BY <1>2 DEF Gone, NoEntry
  <2> QED
    BY <1>1, <2>1 DEF KeyOK, LeaseOK
<1>3. CASE Kept(k) /\ strEntry'[k].lease = strEntry[k].lease
  BY <1>1, <1>3 DEF KeyOK, LeaseOK, Kept
<1> QED
  BY <1>2, <1>3 DEF SameLease

LEMMA ReaderRests == ReaderIdle \in StrReaders /\ ReaderIdle.at = "idle"
  BY StreamsAssumption DEF ReaderIdle, StrReaders, Leases

LEMMA FrameOpenKeeps ==
  ASSUME StrInv, NEW k \in StrKeys, FrameOpen(k)
  PROVE  StrInv'
<1>0. StrTyped /\ KeyOK(k)
  BY DEF StrInv
<1>1. /\ strReader.at = "idle" /\ StrHappens /\ ReaderKeeps
      /\ strRetired' = strRetired /\ strDrain' = strDrain /\ strPeer' = strPeer
  BY DEF FrameOpen
<1>2. /\ strSpent' \in 0 .. StrBudget /\ strDrain' \in [StrKeys -> {"none", "run", "done"}]
      /\ strPeer' \in [StrKeys -> [sent : Nat, closed : BOOLEAN]]
  BY <1>0, <1>1, Happening DEF StrTyped
<1>3. strTask' = strTask /\ strGot' = strGot /\ strClosedEv' = strClosedEv
  BY <1>1 DEF ReaderKeeps
<1>4. CASE CanOpen(k)
  <2>1. Insert(k) /\ strReader' = [ReaderIdle EXCEPT !.at = "bind", !.key = k, !.lease = strGen]
    BY <1>4 DEF FrameOpen
  <2>2. strReader' = [at |-> "bind", key |-> k, seq |-> 0, after |-> 0, lease |-> strGen]
    BY <2>1 DEF ReaderIdle
  <2>3. /\ strReader' \in StrReaders /\ strReader'.key = k
        /\ strReader'.at = "bind" /\ strReader'.lease # 0
    BY <1>0, <2>2 DEF StrTyped, StrReaders, Leases
  <2>4. /\ strEntry' \in [StrKeys -> StrEntries] /\ Grown /\ OthersStay(k)
        /\ strOpens' \in [StrKeys -> Nat] /\ (\A j \in StrKeys \ {k} : strOpens'[j] = strOpens[j])
        /\ strOpens[k] = 0 /\ FramesOK(k)' /\ IdentityOK(k)'
    BY <1>0, <1>1, <1>3, <1>4, <2>1, Inserts
  <2>5. strTask[k].at \in {"idle", "open"}
    BY <1>0, <2>4 DEF KeyOK, IdentityOK
  <2>6. LeaseOK(k)'
    BY <1>0, <1>3, <2>3, <2>5 DEF KeyOK, LeaseOK, Binding
  <2>7. KeyOK(k)'
    BY <2>4, <2>6 DEF KeyOK
  <2> QED
    BY <1>1, <1>2, <2>3, <2>4, <2>7, ReaderKeepsAll
<1>5. CASE ~CanOpen(k)
  <2>1. strEntry' = strEntry /\ strOpens' = strOpens /\ strReader' = strReader
    BY <1>5 DEF FrameOpen
  <2>2. /\ strEntry' \in [StrKeys -> StrEntries] /\ Grown /\ OthersStay(k) /\ SameLease(k)
    BY <1>0, <1>1, <2>1, StaysSame
  <2>3. KeyOK(k)'
    BY <1>0, <1>3, <2>1, <2>2, ReaderEdits DEF Told, Binding
  <2>4. /\ strOpens' \in [StrKeys -> Nat] /\ strReader' \in StrReaders
    BY <1>0, <2>1 DEF StrTyped
  <2> QED
    BY <1>1, <1>2, <2>1, <2>2, <2>3, <2>4, ReaderKeepsAll
<1> QED
  BY <1>4, <1>5

\* What the steps of a reader at work on a stream have in common.
LEMMA ReaderFacts ==
  ASSUME StrInv, NEW from, ReaderMoves(from), from # "idle"
  PROVE  /\ StrTyped /\ strReader.at = from /\ strReader.key \in StrKeys /\ KeyOK(strReader.key)
         /\ ReaderKeeps /\ strPeer' \in [StrKeys -> [sent : Nat, closed : BOOLEAN]]
         /\ strSpent' \in 0 .. StrBudget
         /\ strTask' = strTask /\ strGot' = strGot /\ strClosedEv' = strClosedEv
BY DEF StrInv, StrTyped, ReaderMoves, ReaderKeeps

\* The stage changes, the rest of the reader stays.
LEMMA ReaderStage ==
  ASSUME StrTyped, NEW stage \in {"lost", "lost2"}, strReader' = [strReader EXCEPT !.at = stage]
  PROVE  strReader' \in StrReaders /\ strReader'.at = stage /\ strReader'.key = strReader.key
BY DEF StrTyped, StrReaders

LEMMA BindInboundKeeps ==
  ASSUME StrInv, NEW k \in StrKeys, strReader.key = k, BindInbound
  PROVE  StrInv'
<1>0. /\ StrTyped /\ strReader.at = "bind" /\ k \in StrKeys /\ KeyOK(k)
      /\ ReaderKeeps /\ strPeer' \in [StrKeys -> [sent : Nat, closed : BOOLEAN]]
      /\ strSpent' \in 0 .. StrBudget
      /\ strTask' = strTask /\ strGot' = strGot /\ strClosedEv' = strClosedEv
  BY ReaderFacts DEF BindInbound
<1>1. strRetired' = strRetired /\ strOpens' = strOpens
  BY DEF BindInbound
<1>2. strOpens' \in [StrKeys -> Nat] /\ strReader.lease \in Leases /\ strReader.lease # 0
  BY <1>0, <1>1 DEF StrTyped, StrReaders
<1>3. CASE Active(strReader.lease) /\ CanBind(k)
  <2>1. /\ Bind(k, strReader.lease) /\ strReader' = ReaderIdle
        /\ strDrain' = [strDrain EXCEPT ![k] = "run"]
    BY <1>3 DEF BindInbound
  <2>2. strDrain' \in [StrKeys -> {"none", "run", "done"}]
    BY <1>0, <2>1 DEF StrTyped
  <2>3. strEntry[k].here
    BY <1>3 DEF CanBind
  <2>4. /\ strEntry' \in [StrKeys -> StrEntries] /\ Grown /\ OthersStay(k) /\ Kept(k)
        /\ strEntry'[k].lease = strReader.lease /\ strEntry'[k].sendClosed = strEntry[k].sendClosed
    BY <1>0, <1>1, <1>2, <2>1, <2>3, Binds
  <2>5. Told(k)
    BY <1>0, <1>1 DEF Told
  <2>6. FramesOK(k)' /\ IdentityOK(k)'
    BY <1>0, <2>4, <2>5, EditKeeps DEF KeyOK, IdentityOK
  <2>7. LeaseOK(k)'
    BY <1>0, <1>2, <2>3, <2>4 DEF KeyOK, LeaseOK
  <2>8. KeyOK(k)'
    BY <2>6, <2>7 DEF KeyOK
  <2> QED
    BY <1>0, <1>1, <1>2, <2>1, <2>2, <2>4, <2>8, ReaderRests, ReaderKeepsAll
<1>4. CASE ~(Active(strReader.lease) /\ CanBind(k))
  <2>1. strReader' = [strReader EXCEPT !.at = "lost"] /\ strEntry' = strEntry /\ strDrain' = strDrain
    BY <1>4 DEF BindInbound
  <2>2. strReader' \in StrReaders /\ strReader'.at = "lost" /\ strReader'.key = k
    BY <1>0, <2>1, ReaderStage
  <2>3. Binding(k)'
    BY <2>2 DEF Binding
  <2>4. strDrain' \in [StrKeys -> {"none", "run", "done"}]
    BY <1>0, <2>1 DEF StrTyped
  <2>6. /\ strEntry' \in [StrKeys -> StrEntries] /\ Grown /\ OthersStay(k) /\ SameLease(k)
    BY <1>0, <1>1, <2>1, StaysSame
  <2>7. Told(k)
    BY <1>0, <1>1 DEF Told
  <2>8. KeyOK(k)'
    BY <1>0, <2>3, <2>6, <2>7, ReaderEdits
  <2> QED
    BY <1>0, <1>1, <1>2, <2>2, <2>4, <2>6, <2>8, ReaderKeepsAll
<1> QED
  BY <1>3, <1>4

LEMMA InboundLostKeeps ==
  ASSUME StrInv, NEW k \in StrKeys, strReader.key = k, InboundLost
  PROVE  StrInv'
<1>0. /\ strReader.at \in {"lost", "lost2"} /\ strReader.at # "idle" /\ ReaderMoves(strReader.at)
      /\ strDrain' = strDrain /\ strOpens' = strOpens
  BY DEF InboundLost
<1>1. /\ StrTyped /\ KeyOK(k)
      /\ ReaderKeeps /\ strPeer' \in [StrKeys -> [sent : Nat, closed : BOOLEAN]]
      /\ strSpent' \in 0 .. StrBudget
      /\ strTask' = strTask /\ strGot' = strGot /\ strClosedEv' = strClosedEv
  BY <1>0, ReaderFacts
<1>2. strOpens' \in [StrKeys -> Nat] /\ strDrain' \in [StrKeys -> {"none", "run", "done"}] /\ Told(k)
  BY <1>0, <1>1 DEF StrTyped, Told
<1>3. CASE strReader.at = "lost"
  <2>1. HandleClose(k) /\ strReader' = [strReader EXCEPT !.at = "lost2"]
    BY <1>3 DEF InboundLost
  <2>2. strReader' \in StrReaders /\ strReader'.at = "lost2" /\ strReader'.key = k
    BY <1>1, <2>1, ReaderStage
  <2>3. Binding(k)'
    BY <2>2 DEF Binding
  <2>4. /\ strEntry' \in [StrKeys -> StrEntries] /\ Grown /\ OthersStay(k) /\ SameLease(k)
    BY <1>1, <2>1, HandleCloses
  <2>5. KeyOK(k)'
    BY <1>1, <1>2, <2>3, <2>4, ReaderEdits
  <2> QED
    BY <1>0, <1>1, <1>2, <2>2, <2>4, <2>5, ReaderKeepsAll
<1>4. CASE strReader.at = "lost2"
  <2>1. CloseLocal(k) /\ strReader' = ReaderIdle
    BY <1>4 DEF InboundLost
  <2>2. /\ strEntry' \in [StrKeys -> StrEntries] /\ Grown /\ OthersStay(k) /\ SameLease(k)
        /\ strEntry'[k].here => strEntry'[k].sendClosed
    BY <1>1, <2>1, CloseLocals
  <2>3. KeyOK(k)'
    BY <1>1, <1>2, <2>2, ReaderEdits
  <2> QED
    BY <1>0, <1>1, <1>2, <2>1, <2>2, <2>3, ReaderRests, ReaderKeepsAll
<1> QED
  BY <1>0, <1>3, <1>4

LEMMA FrameBytesKeeps ==
  ASSUME StrInv, NEW k \in StrKeys, NEW seq \in 0 .. StrMaxFrames, FrameBytes(k, seq)
  PROVE  StrInv'
<1>0. StrTyped /\ KeyOK(k)
  BY DEF StrInv
<1>1. /\ strReader.at = "idle" /\ StrHappens /\ ReaderKeeps
      /\ strPeer' = [strPeer EXCEPT ![k].sent = IF seq = @ THEN @ + 1 ELSE @]
      /\ strReader' = [ReaderIdle EXCEPT !.at = "buffer", !.key = k, !.seq = seq]
      /\ strEntry' = strEntry /\ strRetired' = strRetired /\ strDrain' = strDrain /\ strOpens' = strOpens
  BY DEF FrameBytes
<1>2. strSpent' \in 0 .. StrBudget /\ strDrain' \in [StrKeys -> {"none", "run", "done"}]
      /\ strOpens' \in [StrKeys -> Nat]
  BY <1>0, <1>1, Happening DEF StrTyped
<1>3. strPeer' \in [StrKeys -> [sent : Nat, closed : BOOLEAN]]
  <2> DEFINE n == IF seq = strPeer[k].sent THEN strPeer[k].sent + 1 ELSE strPeer[k].sent
  <2>1. n \in Nat
    BY <1>0 DEF StrTyped
  <2>2. strPeer' = [strPeer EXCEPT ![k].sent = n]
    BY <1>1
  <2> HIDE DEF n
  <2> QED
    BY <1>0, <2>1, <2>2 DEF StrTyped
<1>4. strReader' = [at |-> "buffer", key |-> k, seq |-> seq, after |-> 0, lease |-> 0]
  BY <1>1 DEF ReaderIdle
<1>5. strReader' \in StrReaders /\ strReader'.at = "buffer" /\ strReader'.key = k
  BY <1>4, StreamsAssumption DEF StrReaders, Leases
<1>6. /\ strEntry' \in [StrKeys -> StrEntries] /\ Grown /\ OthersStay(k) /\ SameLease(k)
  BY <1>0, <1>1, StaysSame
<1>7. strTask' = strTask /\ Told(k) /\ ~Binding(k)
  BY <1>1 DEF ReaderKeeps, Told, Binding
<1>8. KeyOK(k)'
  BY <1>0, <1>6, <1>7, ReaderEdits
<1> QED
  BY <1>1, <1>2, <1>3, <1>5, <1>6, <1>8, ReaderKeepsAll

\* The frame that is next in order is buffered.
LEMMA BufferBytesKeeps ==
  ASSUME StrInv, NEW k \in StrKeys, strReader.key = k, BufferBytes
  PROVE  StrInv'
<1>0. /\ StrTyped /\ KeyOK(k) /\ strReader.at = "buffer"
      /\ ReaderKeeps /\ strPeer' \in [StrKeys -> [sent : Nat, closed : BOOLEAN]]
      /\ strSpent' \in 0 .. StrBudget
      /\ strTask' = strTask /\ strGot' = strGot /\ strClosedEv' = strClosedEv
  BY ReaderFacts DEF BufferBytes
<1>1. strRetired' = strRetired /\ strDrain' = strDrain /\ strOpens' = strOpens
  BY DEF BufferBytes
<1>2. strOpens' \in [StrKeys -> Nat] /\ strDrain' \in [StrKeys -> {"none", "run", "done"}] /\ Told(k)
  BY <1>0, <1>1 DEF StrTyped, Told
<1>3. ~Binding(k)
  BY <1>0 DEF Binding
<1>4. CASE Buffers
  <2> DEFINE e == strEntry[k]
             seq == strReader.seq
             chunks == Append(e.chunks, seq)
  <2>1. e.here /\ ~e.recvClosed /\ ~e.sendClosed /\ seq = e.nextRecv
    BY <1>4 DEF Buffers, Fresh
  <2>2. /\ strEntry' = [strEntry EXCEPT ![k].chunks = Append(@, seq), ![k].nextRecv = seq + 1]
        /\ strReader' = [strReader EXCEPT !.at = "drained", !.after = Len(e.chunks) + 1]
        /\ Len(e.chunks) < StrCap
    BY <1>4 DEF BufferBytes, Room
  <2>3. e \in StrEntries /\ seq \in Nat /\ e.chunks \in Seq(Nat)
    BY <1>0 DEF StrTyped, StrEntries, StrReaders
  <2>4. /\ chunks \in Seq(Nat) /\ Len(chunks) = Len(e.chunks) + 1 /\ chunks[Len(e.chunks) + 1] = seq
        /\ \A i \in 1 .. Len(e.chunks) : chunks[i] = e.chunks[i]
    BY <2>3, AppendProperties
  <2>5. Len(e.chunks) \in Nat
    BY <2>3, LenProperties
  <2>6. strReader' \in StrReaders /\ strReader'.at = "drained" /\ strReader'.key = k
    <3> DEFINE n == Len(e.chunks) + 1
    <3>1. n \in Nat /\ strReader \in StrReaders /\ strReader' = [strReader EXCEPT !.at = "drained", !.after = n]
      BY <1>0, <2>2, <2>5 DEF StrTyped
    <3> HIDE DEF n
    <3> QED
      BY <3>1 DEF StrReaders
  <2>7. strEntry'[k] = [here |-> e.here, chunks |-> chunks, recvClosed |-> e.recvClosed,
                       sendClosed |-> e.sendClosed, nextRecv |-> seq + 1, lease |-> e.lease]
    <3>1. strEntry' = [strEntry EXCEPT ![k] = [strEntry[k] EXCEPT !.chunks = chunks, !.nextRecv = seq + 1]]
      BY <1>0, <2>2 DEF StrTyped
    <3>2. strEntry'[k] = [strEntry[k] EXCEPT !.chunks = chunks, !.nextRecv = seq + 1]
      BY <1>0, <3>1 DEF StrTyped
    <3> QED
      BY <2>3, <3>2 DEF StrEntries
  <2>8. OthersStay(k) /\ strEntry' \in [StrKeys -> StrEntries]
    <3>1. \A j \in StrKeys : j # k => strEntry'[j] = strEntry[j]
      BY <1>0, <2>2 DEF StrTyped
    <3>2. strEntry'[k] \in StrEntries
      BY <2>3, <2>4, <2>7 DEF StrEntries
    <3>3. DOMAIN strEntry' = StrKeys /\ strEntry' = [j \in StrKeys |-> strEntry'[j]]
      BY <1>0, <2>2 DEF StrTyped
    <3>4. \A j \in StrKeys : strEntry'[j] \in StrEntries
      BY <1>0, <3>1, <3>2 DEF StrTyped
    <3> QED
      BY <3>1, <3>3, <3>4 DEF OthersStay
  <2>9. /\ strEntry'[k].here = e.here /\ strEntry'[k].chunks = chunks /\ strEntry'[k].nextRecv = seq + 1
        /\ strEntry'[k].recvClosed = e.recvClosed /\ strEntry'[k].sendClosed = e.sendClosed
        /\ strEntry'[k].lease = e.lease
    BY <2>3, <2>7 DEF StrEntries
  <2>10. Grown
    BY <1>0, <1>1 DEF Grown, StrTyped
  <2>11. /\ Counts(strGot[k], 0) /\ e.nextRecv = Len(strGot[k]) + Len(e.chunks)
         /\ Counts(e.chunks, Len(strGot[k])) /\ Len(strGot[k]) \in Nat
    BY <1>0, <2>1, LenProperties DEF KeyOK, FramesOK, StrTyped
  <2> HIDE DEF e, seq, chunks
  <2>12. Counts(chunks, Len(strGot[k]))
    <3> SUFFICES ASSUME NEW i \in 1 .. Len(chunks) PROVE chunks[i] = Len(strGot[k]) + i - 1
      BY DEF Counts
    <3>1. CASE i = Len(e.chunks) + 1
      <4>1. chunks[i] = seq
        BY <2>4, <3>1
      <4>2. seq = Len(strGot[k]) + Len(e.chunks)
        BY <2>1, <2>11
      <4> QED
        BY <2>5, <2>11, <3>1, <4>1, <4>2
    <3>2. CASE i \in 1 .. Len(e.chunks)
      BY <2>4, <2>11, <3>2 DEF Counts
    <3> QED
      BY <2>4, <2>5, <3>1, <3>2
  <2>13. FramesOK(k)'
    <3>1. strEntry'[k].nextRecv = Len(strGot'[k]) + Len(strEntry'[k].chunks)
      <4>1. seq = Len(strGot[k]) + Len(e.chunks)
        BY <2>1, <2>11
      <4>2. \A a, b \in Nat : a + b + 1 = a + (b + 1)
        OBVIOUS
      <4>3. seq + 1 = Len(strGot[k]) + Len(chunks)
        BY <2>4, <2>5, <2>11, <4>1, <4>2, Zenon
      <4> QED
        BY <1>0, <2>9, <4>3
    <3>2. Len(strEntry'[k].chunks) <= StrCap
      BY <2>2, <2>4, <2>5, <2>9, StreamsAssumption
    <3> QED
      BY <1>0, <2>9, <2>11, <2>12, <3>1, <3>2 DEF FramesOK
  <2>14. IdentityOK(k)'
    <3>1. strOpens[k] # 0
      BY <1>0, <2>1 DEF KeyOK, IdentityOK, e
    <3>2. Used(k)' /\ strEntry'[k].here
      BY <2>1, <2>9 DEF Used
    <3>3. ~strClosedEv[k]
      BY <1>0, <2>1 DEF KeyOK, IdentityOK, e
    <3> QED
      BY <1>0, <1>1, <3>1, <3>2, <3>3 DEF KeyOK, IdentityOK
  <2>15. LeaseOK(k)'
    BY <1>0, <1>3, <2>9 DEF KeyOK, LeaseOK, e
  <2>16. KeyOK(k)'
    BY <2>13, <2>14, <2>15 DEF KeyOK
  <2> QED
    BY <1>0, <1>1, <1>2, <2>6, <2>8, <2>10, <2>16, ReaderKeepsAll
<1>5. CASE ~Buffers
  <2>1. strReader' = ReaderIdle /\ strEntry' = strEntry
    BY <1>5 DEF BufferBytes
  <2>2. /\ strEntry' \in [StrKeys -> StrEntries] /\ Grown /\ OthersStay(k) /\ SameLease(k)
    BY <1>0, <1>1, <2>1, StaysSame
  <2>3. KeyOK(k)'
    BY <1>0, <1>2, <1>3, <2>2, ReaderEdits
  <2> QED
    BY <1>0, <1>1, <1>2, <2>1, <2>2, <2>3, ReaderRests, ReaderKeepsAll
<1> QED
  BY <1>4, <1>5

LEMMA WaitDrainedKeeps ==
  ASSUME StrInv, NEW k \in StrKeys, strReader.key = k, WaitDrained
  PROVE  StrInv'
<1>0. /\ StrTyped /\ KeyOK(k) /\ strReader.at = "drained"
      /\ ReaderKeeps /\ strPeer' \in [StrKeys -> [sent : Nat, closed : BOOLEAN]]
      /\ strSpent' \in 0 .. StrBudget
      /\ strTask' = strTask /\ strGot' = strGot /\ strClosedEv' = strClosedEv
  BY ReaderFacts DEF WaitDrained
<1>1. /\ strEntry' = strEntry /\ strRetired' = strRetired /\ strDrain' = strDrain
      /\ strOpens' = strOpens /\ strReader' = ReaderIdle
  BY DEF WaitDrained
<1>2. strOpens' \in [StrKeys -> Nat] /\ strDrain' \in [StrKeys -> {"none", "run", "done"}] /\ Told(k)
  BY <1>0, <1>1 DEF StrTyped, Told
<1>3. ~Binding(k)
  BY <1>0 DEF Binding
<1>4. /\ strEntry' \in [StrKeys -> StrEntries] /\ Grown /\ OthersStay(k) /\ SameLease(k)
  BY <1>0, <1>1, StaysSame
<1>5. KeyOK(k)'
  BY <1>0, <1>2, <1>3, <1>4, ReaderEdits
<1> QED
  BY <1>0, <1>1, <1>2, <1>4, <1>5, ReaderRests, ReaderKeepsAll

LEMMA FrameCloseKeeps ==
  ASSUME StrInv, NEW k \in StrKeys, FrameClose(k)
  PROVE  StrInv'
<1>0. StrTyped /\ KeyOK(k)
  BY DEF StrInv
<1>1. /\ strReader.at = "idle" /\ StrHappens /\ ReaderKeeps /\ HandleClose(k)
      /\ strPeer' = [strPeer EXCEPT ![k].closed = TRUE]
      /\ strReader' = strReader /\ strDrain' = strDrain /\ strOpens' = strOpens
  BY DEF FrameClose
<1>2. /\ strSpent' \in 0 .. StrBudget /\ strDrain' \in [StrKeys -> {"none", "run", "done"}]
      /\ strOpens' \in [StrKeys -> Nat]
  BY <1>0, <1>1, Happening DEF StrTyped
<1>3. strPeer' \in [StrKeys -> [sent : Nat, closed : BOOLEAN]] /\ strReader' \in StrReaders
  BY <1>0, <1>1 DEF StrTyped
<1>4. /\ strEntry' \in [StrKeys -> StrEntries] /\ Grown /\ OthersStay(k) /\ SameLease(k)
  BY <1>0, <1>1, HandleCloses
<1>5. strTask' = strTask /\ Told(k) /\ ~Binding(k)
  BY <1>1 DEF ReaderKeeps, Told, Binding
<1>6. KeyOK(k)'
  BY <1>0, <1>4, <1>5, ReaderEdits
<1> QED
  BY <1>1, <1>2, <1>3, <1>4, <1>6, ReaderKeepsAll

-----------------------------------------------------------------------------
(* Streams: consumers, path loss and teardown                              *)

\* Handing on the first n buffered frames.
LEMMA HandOn ==
  ASSUME NEW g \in Seq(Nat), NEW c \in Seq(Nat), NEW n \in 1 .. Len(c),
         Counts(g, 0), Counts(c, Len(g)),
         NEW a, a = g \o SubSeq(c, 1, n), NEW b, b = SubSeq(c, n + 1, Len(c))
  PROVE  /\ a \in Seq(Nat) /\ b \in Seq(Nat) /\ Len(a) \in Nat /\ Len(b) \in Nat
         /\ Len(a) + Len(b) = Len(g) + Len(c) /\ Len(b) <= Len(c)
         /\ Counts(a, 0) /\ Counts(b, Len(a))
<1> DEFINE lg == Len(g)
           lc == Len(c)
           f == SubSeq(c, 1, n)
<1>1. lg \in Nat /\ lc \in Nat /\ n \in Nat /\ 1 <= n /\ n <= lc
  BY LenProperties
<1>2. \A i \in 1 .. lc : c[i] \in Nat /\ c[i] = lg + i - 1
  BY ElementOfSeq DEF Counts
<1>3. \A i \in 1 .. lg : g[i] \in Nat /\ g[i] = i - 1
  BY ElementOfSeq DEF Counts
<1> HIDE DEF lg, lc
<1>4. f \in Seq(Nat) /\ Len(f) = n /\ (\A i \in 1 .. n : f[i] = c[i])
  <2>1. \A i \in 1 .. n : c[i] \in Nat
    BY <1>1, <1>2
  <2>2. /\ f \in Seq(Nat) /\ Len(f) = (IF 1 <= n THEN n - 1 + 1 ELSE 0)
        /\ \A i \in 1 .. n - 1 + 1 : f[i] = c[1 + i - 1]
    BY <1>1, <2>1, SubSeqProperties
  <2> QED
    BY <1>1, <2>2
<1>5. /\ b \in Seq(Nat) /\ Len(b) = lc - n
      /\ \A i \in 1 .. lc - n : b[i] = c[n + i]
  <2>1. \A i \in n + 1 .. lc : c[i] \in Nat
    BY <1>1, <1>2
  <2>2. b = SubSeq(c, n + 1, lc) /\ n + 1 \in Int /\ lc \in Int
    BY <1>1 DEF lc
  <2>3. /\ b \in Seq(Nat) /\ Len(b) = (IF n + 1 <= lc THEN lc - (n + 1) + 1 ELSE 0)
        /\ \A i \in 1 .. lc - (n + 1) + 1 : b[i] = c[n + 1 + i - 1]
    BY <2>1, <2>2, SubSeqProperties
  <2>4. lc - (n + 1) + 1 = lc - n /\ (IF n + 1 <= lc THEN lc - (n + 1) + 1 ELSE 0) = lc - n
    BY <1>1
  <2>5. \A i \in 1 .. lc - n : n + 1 + i - 1 = n + i
    BY <1>1
  <2> QED
    BY <2>3, <2>4, <2>5
<1> HIDE DEF f
<1>6. /\ a \in Seq(Nat) /\ Len(a) = lg + n
      /\ \A i \in 1 .. lg + n : a[i] = IF i <= lg THEN g[i] ELSE f[i - lg]
  <2>1. a = g \o f
    BY DEF f
  <2>2. g \in Seq(Nat) /\ f \in Seq(Nat)
    BY <1>4
  <2>3. /\ g \o f \in Seq(Nat) /\ Len(g \o f) = Len(g) + Len(f)
        /\ \A i \in 1 .. Len(g) + Len(f) : (g \o f)[i] = IF i <= Len(g) THEN g[i] ELSE f[i - Len(g)]
    BY <2>2, ConcatProperties
  <2> QED
    BY <1>4, <2>1, <2>3 DEF lg
<1>7. Counts(a, 0)
  <2> SUFFICES ASSUME NEW i \in 1 .. lg + n PROVE a[i] = 0 + i - 1
    BY <1>6 DEF Counts
  <2>1. CASE i <= lg
    BY <1>1, <1>3, <1>6, <2>1
  <2>2. CASE ~(i <= lg)
    <3>1. i - lg \in 1 .. n /\ i - lg \in 1 .. lc
      BY <1>1, <2>2
    <3>2. a[i] = c[i - lg]
      BY <1>4, <1>6, <2>2, <3>1
    <3>3. c[i - lg] = lg + (i - lg) - 1
      BY <1>2, <3>1
    <3>4. \A x, y \in Int : x + (y - x) - 1 = 0 + y - 1
      OBVIOUS
    <3>5. lg \in Int /\ i \in Int
      BY <1>1
    <3>6. lg + (i - lg) - 1 = 0 + i - 1
      BY <3>4, <3>5, Zenon
    <3> QED
      BY <3>2, <3>3, <3>6, Zenon
  <2> QED
    BY <2>1, <2>2
<1>8. Counts(b, Len(a))
  <2> SUFFICES ASSUME NEW i \in 1 .. lc - n PROVE b[i] = lg + n + i - 1
    BY <1>5, <1>6 DEF Counts
  <2>1. n + i \in 1 .. lc
    BY <1>1
  <2>2. b[i] = lg + (n + i) - 1
    BY <1>2, <1>5, <2>1
  <2>3. \A x, y, z \in Int : x + (y + z) - 1 = x + y + z - 1
    OBVIOUS
  <2>4. lg \in Int /\ n \in Int /\ i \in Int
    BY <1>1
  <2>5. lg + (n + i) - 1 = lg + n + i - 1
    BY <2>3, <2>4, Zenon
  <2> QED
    BY <2>2, <2>5, Zenon
<1>9. /\ Len(a) \in Nat /\ Len(b) \in Nat /\ Len(a) + Len(b) = lg + lc /\ Len(b) <= lc
  <2>1. \A x, y, z \in Nat : z <= y => /\ x + z \in Nat /\ y - z \in Nat
                                      /\ (x + z) + (y - z) = x + y /\ y - z <= y
    OBVIOUS
  <2>2. lg + n \in Nat /\ lc - n \in Nat /\ (lg + n) + (lc - n) = lg + lc /\ lc - n <= lc
    BY <1>1, <2>1, Zenon
  <2> QED
    BY <1>5, <1>6, <2>2, Zenon
<1> QED
  BY <1>5, <1>6, <1>7, <1>8, <1>9 DEF lg, lc

LEMMA ConsumeKeeps ==
  ASSUME StrInv, NEW k \in StrKeys, Consume(k)
  PROVE  StrInv'
<1> DEFINE n == IF k \in StrBridged THEN Len(strEntry[k].chunks) ELSE 1
           e == strEntry[k]
           a == strGot[k] \o SubSeq(e.chunks, 1, n)
           b == SubSeq(e.chunks, n + 1, Len(e.chunks))
<1>0. StrTyped /\ KeyOK(k)
  BY DEF StrInv
<1>1. /\ e.chunks # <<>> /\ strGot' = [strGot EXCEPT ![k] = a]
      /\ strEntry' = [strEntry EXCEPT ![k].chunks = b]
      /\ DrainKeeps /\ strDrain' = strDrain /\ strClosedEv' = strClosedEv
  BY DEF Consume
<1>2. e \in StrEntries /\ e.chunks \in Seq(Nat) /\ strGot[k] \in Seq(Nat)
  BY <1>0 DEF StrTyped, StrEntries
<1>3. e.here
  BY <1>0, <1>1 DEF KeyOK, IdentityOK, NoEntry
<1>4. n \in 1 .. Len(e.chunks) /\ Len(e.chunks) \in Nat
  <2>1. Len(e.chunks) \in Nat /\ Len(e.chunks) # 0
    BY <1>1, <1>2, LenProperties, EmptySeq
  <2> QED
    BY <2>1
<1>5. /\ Counts(strGot[k], 0) /\ Counts(e.chunks, Len(strGot[k])) /\ Len(e.chunks) <= StrCap
      /\ e.nextRecv = Len(strGot[k]) + Len(e.chunks)
  BY <1>0, <1>3 DEF KeyOK, FramesOK
<1> HIDE DEF n
<1>6. /\ a \in Seq(Nat) /\ b \in Seq(Nat) /\ Len(a) \in Nat /\ Len(b) \in Nat
      /\ Len(a) + Len(b) = Len(strGot[k]) + Len(e.chunks) /\ Len(b) <= Len(e.chunks)
      /\ Counts(a, 0) /\ Counts(b, Len(a))
  BY <1>2, <1>4, <1>5, HandOn
<1> HIDE DEF a, b
<1>7. /\ strEntry' \in [StrKeys -> StrEntries] /\ strGot' \in [StrKeys -> Seq(Nat)]
      /\ strEntry'[k] = [e EXCEPT !.chunks = b] /\ strGot'[k] = a
      /\ \A j \in StrKeys \ {k} : strEntry'[j] = strEntry[j] /\ strGot'[j] = strGot[j]
  BY <1>0, <1>1, <1>2, <1>6 DEF StrTyped, StrEntries
<1>8. /\ strEntry'[k].here = e.here /\ strEntry'[k].chunks = b /\ strEntry'[k].nextRecv = e.nextRecv
      /\ strEntry'[k].recvClosed = e.recvClosed /\ strEntry'[k].sendClosed = e.sendClosed
      /\ strEntry'[k].lease = e.lease
  BY <1>2, <1>7 DEF StrEntries
<1> HIDE DEF e
<1>9. Grown /\ StrTyped'
  BY <1>0, <1>1, <1>7 DEF Grown, StrTyped, DrainKeeps
<1>10. FramesOK(k)'
  <2>1. Len(b) <= StrCap
    BY <1>4, <1>5, <1>6, StreamsAssumption
  <2> QED
    BY <1>5, <1>6, <1>7, <1>8, <2>1 DEF FramesOK
<1>11. IdentityOK(k)'
  <2>1. strOpens[k] # 0 /\ strOpens'[k] = strOpens[k] /\ ~strClosedEv[k]
    BY <1>0, <1>1, <1>3 DEF KeyOK, IdentityOK, DrainKeeps, e
  <2>2. Used(k)' /\ strEntry'[k].here
    BY <1>3, <1>8 DEF Used
  <2> QED
    BY <1>0, <1>1, <2>1, <2>2 DEF KeyOK, IdentityOK
<1>12. LeaseOK(k)'
  BY <1>0, <1>1, <1>8 DEF KeyOK, LeaseOK, Binding, DrainKeeps, e
<1>13. ASSUME NEW j \in StrKeys, j # k PROVE KeyOK(j)'
  <2>1. Untouched(j) /\ (Binding(j) => Binding(j)')
    BY <1>1, <1>7, <1>13 DEF Untouched, Told, Binding, DrainKeeps
  <2>2. KeyOK(j)
    BY DEF StrInv
  <2> QED
    BY <1>0, <1>9, <2>1, <2>2, StrFrame
<1>14. KeyOK(k)'
  BY <1>10, <1>11, <1>12 DEF KeyOK
<1> QED
  BY <1>9, <1>13, <1>14 DEF StrInv

LEMMA ConsumerEndsKeeps ==
  ASSUME StrInv, NEW k \in StrKeys, ConsumerEnds(k)
  PROVE  StrInv'
<1>0. StrTyped /\ KeyOK(k)
  BY DEF StrInv
<1>1. /\ ~strEntry[k].here \/ Drained(k) \/ (k \in StrBridged /\ ~strSocket[k])
      /\ strDrain' = [strDrain EXCEPT ![k] = "done"]
      /\ strClosedEv' = [strClosedEv EXCEPT ![k] = @ \/ (strEntry[k].here /\ k \notin StrBridged)]
      /\ DrainKeeps /\ strEntry' = strEntry /\ strGot' = strGot
  BY DEF ConsumerEnds
<1>2. Grown /\ StrTyped'
  BY <1>0, <1>1 DEF Grown, StrTyped, DrainKeeps
<1>3. strClosedEv'[k] => strClosedEv[k] \/ (strEntry[k].here /\ Drained(k))
  BY <1>0, <1>1 DEF StrTyped
<1>4. Used(k) => Used(k)'
  BY <1>0, <1>1 DEF Used, DrainKeeps
<1>5. IdentityOK(k)'
  BY <1>0, <1>1, <1>3, <1>4 DEF KeyOK, IdentityOK, DrainKeeps, Drained
<1>6. FramesOK(k)' /\ LeaseOK(k)'
  BY <1>0, <1>1 DEF KeyOK, FramesOK, LeaseOK, DrainKeeps, Binding
<1>7. ASSUME NEW j \in StrKeys, j # k PROVE KeyOK(j)'
  <2>1. Untouched(j) /\ (Binding(j) => Binding(j)')
    BY <1>0, <1>1, <1>7 DEF Untouched, Told, Binding, DrainKeeps, StrTyped
  <2>2. KeyOK(j)
    BY DEF StrInv
  <2> QED
    BY <1>0, <1>2, <2>1, <2>2, StrFrame
<1> QED
  BY <1>2, <1>5, <1>6, <1>7 DEF StrInv, KeyOK

\* A lost socket or path changes nothing the invariant is about.
LEMMA SurroundingsKeep ==
  ASSUME StrInv, (\E k \in StrBridged : SocketEnds(k)) \/ PathLost
  PROVE  StrInv'
<1>0. StrTyped
  BY DEF StrInv
<1>1. /\ UNCHANGED <<strEntry, strRetired, strTask, strReader, strDrain, strPeer, strGot,
                     strClosedEv, strOpens>>
      /\ strSocket' \in [StrBridged -> BOOLEAN] /\ strGen' \in 1 .. StrMaxPaths
      /\ strSpent' \in 0 .. StrBudget
  <2>1. CASE \E k \in StrBridged : SocketEnds(k)
    BY <1>0, <2>1, Happening DEF SocketEnds, StrTyped
  <2>2. CASE PathLost
    BY <1>0, <2>2, StreamsAssumption DEF PathLost, StrTyped
  <2> QED
    BY <2>1, <2>2
<1>2. Grown /\ StrTyped'
  BY <1>0, <1>1 DEF Grown, StrTyped
<1>3. ASSUME NEW j \in StrKeys PROVE KeyOK(j)'
  <2>1. Untouched(j) /\ (Binding(j) => Binding(j)')
    BY <1>1 DEF Untouched, Told, Binding
  <2>2. KeyOK(j)
    BY DEF StrInv
  <2> QED
    BY <1>0, <1>2, <2>1, <2>2, StrFrame
<1> QED
  BY <1>2, <1>3 DEF StrInv

\* Teardown takes entries away and retires their identities.
LEMMA CloseKeysKeeps ==
  ASSUME StrInv, NEW S \in SUBSET StrKeys, \A k \in S : strEntry[k].here, CloseKeys(S),
         strSpent' \in 0 .. StrBudget
  PROVE  StrInv'
<1>0. StrTyped
  BY DEF StrInv
<1>1. /\ strEntry' = [k \in StrKeys |-> IF k \in S THEN NoEntry ELSE strEntry[k]]
      /\ strRetired' = strRetired \cup S
      /\ strClosedEv' = [k \in StrKeys |-> strClosedEv[k] \/ k \in S]
      /\ UNCHANGED <<strGen, strTask, strReader, strDrain, strSocket, strPeer, strGot, strOpens>>
  BY DEF CloseKeys
<1>2. NoEntry \in StrEntries
  BY StreamsAssumption DEF NoEntry, StrEntries, Leases
<1>3. Grown /\ StrTyped'
  <2>1. strEntry' \in [StrKeys -> StrEntries]
    BY <1>0, <1>1, <1>2 DEF StrTyped
  <2>2. strClosedEv' \in [StrKeys -> BOOLEAN]
    BY <1>0, <1>1 DEF StrTyped
  <2> QED
    BY <1>0, <1>1, <2>1, <2>2 DEF Grown, StrTyped
<1>4. ASSUME NEW k \in StrKeys PROVE KeyOK(k)'
  <2>0. KeyOK(k)
    BY DEF StrInv
  <2>1. CASE k \notin S
    <3>1. strClosedEv'[k] = strClosedEv[k] /\ strEntry'[k] = strEntry[k]
      BY <1>0, <1>1, <2>1 DEF StrTyped
    <3>2. Untouched(k) /\ (Binding(k) => Binding(k)')
      BY <1>1, <3>1 DEF Untouched, Told, Binding
    <3> QED
      BY <1>0, <1>3, <2>0, <3>2, StrFrame
  <2>2. CASE k \in S
    <3>1. strEntry'[k] = NoEntry /\ ~strEntry'[k].here /\ Len(strEntry'[k].chunks) = 0
      BY <1>1, <2>2 DEF NoEntry
    <3>2. Used(k)' /\ strOpens[k] # 0
      BY <1>1, <2>0, <2>2 DEF Used, KeyOK, IdentityOK
    <3>3. FramesOK(k)'
      <4>1. Counts(strGot'[k], 0)
        BY <1>1, <2>0 DEF KeyOK, FramesOK
      <4> QED
        BY <3>1, <4>1, StreamsAssumption DEF FramesOK
    <3>4. IdentityOK(k)'
      BY <1>1, <2>0, <3>1, <3>2 DEF KeyOK, IdentityOK
    <3>5. LeaseOK(k)'
      BY <1>1, <2>0, <3>1 DEF KeyOK, LeaseOK
    <3> QED
      BY <3>3, <3>4, <3>5 DEF KeyOK
  <2> QED
    BY <2>1, <2>2
<1> QED
  BY <1>3, <1>4 DEF StrInv

-----------------------------------------------------------------------------
(* Streams: the theorem                                                    *)

LEMMA StrInvInit == StreamsInit => StrInv
<1> SUFFICES ASSUME StreamsInit PROVE StrInv
  OBVIOUS
<1>0. NoEntry \in StrEntries /\ TaskIdle \in StrTasks /\ ReaderIdle \in StrReaders
  <2>1. NoEntry \in StrEntries
    BY StreamsAssumption DEF NoEntry, StrEntries, Leases
  <2>2. TaskIdle \in StrTasks
    BY StreamsAssumption DEF TaskIdle, StrTasks, Leases
  <2> QED
    BY <2>1, <2>2, ReaderRests
<1>1. StrTyped
  <2>1. strReader \in StrReaders /\ strReader.at = "idle"
    BY <1>0 DEF StreamsInit, ReaderIdle
  <2>2. strGen \in 1 .. StrMaxPaths /\ strSpent \in 0 .. StrBudget
    BY StreamsAssumption DEF StreamsInit
  <2>3. strEntry \in [StrKeys -> StrEntries] /\ strTask \in [StrKeys -> StrTasks]
    BY <1>0 DEF StreamsInit
  <2>4. strPeer \in [StrKeys -> [sent : Nat, closed : BOOLEAN]]
    BY DEF StreamsInit
  <2>5. strGot \in [StrKeys -> Seq(Nat)] /\ strOpens \in [StrKeys -> Nat]
    BY DEF StreamsInit
  <2>6. /\ strDrain \in [StrKeys -> {"none", "run", "done"}] /\ strSocket \in [StrBridged -> BOOLEAN]
        /\ strClosedEv \in [StrKeys -> BOOLEAN] /\ strRetired \subseteq StrKeys
    BY DEF StreamsInit
  <2> QED
    BY <2>1, <2>2, <2>3, <2>4, <2>5, <2>6 DEF StrTyped
<1>2. ASSUME NEW k \in StrKeys PROVE KeyOK(k)
  <2>1. /\ strEntry[k] = NoEntry /\ ~strEntry[k].here /\ Len(strEntry[k].chunks) = 0
        /\ strTask[k].at = "idle" /\ strOpens[k] = 0 /\ strGot[k] = <<>> /\ ~strClosedEv[k]
    BY DEF StreamsInit, NoEntry, TaskIdle
  <2>2. FramesOK(k)
    BY <2>1, StreamsAssumption DEF FramesOK, Counts
  <2> QED
    BY <2>1, <2>2 DEF KeyOK, IdentityOK, LeaseOK
<1> QED
  BY <1>1, <1>2 DEF StrInv

LEMMA ReaderStepKeeps ==
  ASSUME StrInv, ReaderStep
  PROVE  StrInv'
<1>1. strReader.at # "idle"
  BY DEF ReaderStep, BindInbound, InboundLost, BufferBytes, WaitDrained, ReaderMoves
<1>2. PICK k \in StrKeys : strReader.key = k
  BY <1>1 DEF StrInv, StrTyped
<1> QED
  BY <1>2, BindInboundKeeps, InboundLostKeeps, BufferBytesKeeps, WaitDrainedKeeps DEF ReaderStep

LEMMA TaskStepKeeps ==
  ASSUME StrInv, NEW k \in StrKeys, TaskStep(k)
  PROVE  StrInv'
BY OpenInsertKeeps, OpenBindKeeps, TakeLeaseKeeps, WriteFrameKeeps, RestoreLeaseKeeps, LoseKeeps,
   CloseRestoreKeeps DEF TaskStep

LEMMA TeardownKeeps ==
  ASSUME StrInv, CloseAll \/ CloseInactive
  PROVE  StrInv'
<1>0. StrTyped
  BY DEF StrInv
<1>1. CASE CloseAll
  <2>1. strSpent' \in 0 .. StrBudget
    BY <1>0, <1>1, Happening DEF CloseAll
  <2> QED
    BY <1>1, <2>1, CloseKeysKeeps DEF CloseAll
<1>2. CASE CloseInactive
  <2>1. strSpent' \in 0 .. StrBudget
    BY <1>0, <1>2 DEF CloseInactive, StrTyped
  <2> DEFINE S == {k \in StrKeys : strEntry[k].here /\ strEntry[k].lease # 0 /\ ~Active(strEntry[k].lease)}
  <2>2. CloseKeys(S) /\ S \in SUBSET StrKeys /\ \A k \in S : strEntry[k].here
    BY <1>2 DEF CloseInactive
  <2> HIDE DEF S
  <2> QED
    BY <2>1, <2>2, CloseKeysKeeps
<1> QED
  BY <1>1, <1>2

LEMMA StrInvStep == StrInv /\ [StreamsNext]_strVars => StrInv'
<1> SUFFICES ASSUME StrInv, [StreamsNext]_strVars PROVE StrInv'
  OBVIOUS
<1>1. CASE UNCHANGED strVars
  BY <1>1 DEF strVars, StrInv, StrTyped, KeyOK, FramesOK, IdentityOK, LeaseOK, Used, Binding, Counts
<1>2. ASSUME NEW k \in StrKeys, SendStream(k) \/ CloseStream(k) \/ GatewayClose(k) PROVE StrInv'
  BY <1>2, StartsKeep
<1>3. ASSUME NEW k \in StrKeys, OpenStream(k) PROVE StrInv'
  BY <1>3, OpenStreamKeeps
<1>4. ASSUME NEW k \in StrKeys, TaskStep(k) PROVE StrInv'
  BY <1>4, TaskStepKeeps
<1>5. ASSUME NEW k \in StrKeys, ConsumerStep(k) PROVE StrInv'
  BY <1>5, ConsumeKeeps, ConsumerEndsKeeps DEF ConsumerStep
<1>6. ASSUME NEW k \in StrKeys, FrameOpen(k) \/ FrameClose(k) PROVE StrInv'
  BY <1>6, FrameOpenKeeps, FrameCloseKeeps
<1>7. ASSUME NEW k \in StrKeys, NEW seq \in 0 .. StrMaxFrames, FrameBytes(k, seq) PROVE StrInv'
  BY <1>7, FrameBytesKeeps
<1>8. CASE ReaderStep
  BY <1>8, ReaderStepKeeps
<1>9. CASE (\E k \in StrBridged : SocketEnds(k)) \/ PathLost
  BY <1>9, SurroundingsKeep
<1>10. CASE CloseAll \/ CloseInactive
  BY <1>10, TeardownKeeps
<1>11. CASE \E k \in StrKeys :
         \/ OpenStream(k) \/ SendStream(k) \/ CloseStream(k) \/ GatewayClose(k) \/ TaskStep(k)
         \/ ConsumerStep(k) \/ FrameOpen(k) \/ FrameClose(k)
         \/ \E seq \in 0 .. StrMaxFrames : FrameBytes(k, seq)
  BY <1>2, <1>3, <1>4, <1>5, <1>6, <1>7, <1>11
<1> QED
  BY <1>1, <1>8, <1>9, <1>10, <1>11 DEF StreamsNext

LEMMA StrInvImplies == StrInv => StreamFaithful
<1> SUFFICES ASSUME StrInv PROVE StreamFaithful
  OBVIOUS
<1>0. StrTyped /\ \A k \in StrKeys : KeyOK(k)
  BY DEF StrInv
<1>1. StreamsTypeOK
  <2>1. ASSUME NEW k \in StrKeys
        PROVE  /\ strEntry[k].lease \in 0 .. StrMaxPaths /\ Len(strEntry[k].chunks) <= StrCap
               /\ ~strEntry[k].here => strEntry[k] = NoEntry
               /\ strDrain[k] \in {"none", "run", "done"}
    BY <1>0 DEF StrTyped, StrEntries, Leases, KeyOK, FramesOK, IdentityOK
  <2> QED
    BY <1>0, <2>1 DEF StreamsTypeOK, StrTyped
<1>2. StreamInOrder
  <2> SUFFICES ASSUME NEW k \in StrKeys PROVE strGot[k] = [i \in 1 .. Len(strGot[k]) |-> i - 1]
    BY DEF StreamInOrder
  <2>1. strGot[k] \in Seq(Nat) /\ Counts(strGot[k], 0)
    BY <1>0 DEF StrTyped, KeyOK, FramesOK
  <2>2. /\ Len(strGot[k]) \in Nat /\ DOMAIN strGot[k] = 1 .. Len(strGot[k])
        /\ strGot[k] = [i \in 1 .. Len(strGot[k]) |-> strGot[k][i]]
    BY <2>1, LenProperties
  <2>3. \A i \in 1 .. Len(strGot[k]) : strGot[k][i] = i - 1
    BY <2>1, <2>2 DEF Counts
  <2> QED
    BY <2>2, <2>3
<1>3. OpenedOnce
  <2> SUFFICES ASSUME NEW k \in StrKeys PROVE strOpens[k] <= 1
    BY DEF OpenedOnce
  <2>1. strOpens[k] \in {0, 1}
    BY <1>0 DEF KeyOK, IdentityOK
  <2> QED
    BY <2>1
<1>4. IdleStreamHasLease
  BY <1>0 DEF IdleStreamHasLease, KeyOK, LeaseOK, Binding
<1>5. ClosedIsLast
  <2> SUFFICES ASSUME NEW k \in StrKeys, strClosedEv[k] PROVE strEntry[k].chunks = <<>>
    BY DEF ClosedIsLast
  <2>1. CASE strEntry[k].here
    BY <1>0, <2>1 DEF KeyOK, IdentityOK
  <2>2. CASE ~strEntry[k].here
    BY <1>0, <2>2 DEF KeyOK, IdentityOK, NoEntry
  <2> QED
    BY <2>1, <2>2
<1> QED
  BY <1>1, <1>2, <1>3, <1>4, <1>5 DEF StreamFaithful

\* Whatever interleaving of tasks, repeated frames, lost paths and teardown: a consumer
\* is given the peer's frames in order and once, an identity is opened once however few
\* tombstones are kept, a stream nobody works on has its lease, and "closed" is told
\* after the last byte.
THEOREM StreamsStayFaithful == StreamsSpec => []StreamFaithful
<1>1. StrInv => StreamFaithful
  BY StrInvImplies
<1> QED
  BY <1>1, StrInvInit, StrInvStep, PTL DEF StreamsSpec

-----------------------------------------------------------------------------
(* Realtime: the inductive invariant                                       *)

RtCands == {g.cand : g \in RtSignals} \cup {"none"}
RtIceOf(q) == {q[i] : i \in DOMAIN q}

\* The stages of a command: before and after a claim has made its session.
RtRunning == {"claim_spawn", "claim_send", "claim_commit"}
RtAfter == RtRunning \cup {"claim_cancel", "claim_rollback"}
RtClaiming == {"claim_driver", "claim_apply"}
RtOther == {"idle", "start_insert", "start_send", "start_spawn", "stop_cancel", "reject_mark", "reject_done"}

\* The fields of a record, of whatever value.
RtIsSession(s) ==
  s = [gen |-> s.gen, shared |-> s.shared, driver |-> s.driver, conn |-> s.conn, rev |-> s.rev,
       remoteRev |-> s.remoteRev, iceRev |-> s.iceRev, seen |-> s.seen, token |-> s.token]
RtIsBinding(b) ==
  b = [token |-> b.token, epoch |-> b.epoch, shared |-> b.shared, rev |-> b.rev, ice |-> b.ice, op |-> b.op,
       state |-> b.state, published |-> b.published, due |-> b.due]
RtIsRequest(r) == r = [epoch |-> r.epoch, shared |-> r.shared, op |-> r.op, due |-> r.due]
RtIsCmd(c) ==
  c = [at |-> c.at, token |-> c.token, epoch |-> c.epoch, shared |-> c.shared, rev |-> c.rev, ice |-> c.ice,
       driver |-> c.driver, gen |-> c.gen]
RtIsSig(s) == s = [at |-> s.at, sig |-> s.sig, bound |-> s.bound, driver |-> s.driver]

RtSessionOK(s, gen) ==
  RtIsSession(s) /\ s.gen \in 0 .. gen /\ s.driver \in 0 .. RtMaxDrivers /\ (s.gen = 0 => s = NoRtSession)
RtBindingOK(b, token, epoch) ==
  /\ RtIsBinding(b) /\ b.token \in 0 .. token /\ b.epoch \in 0 .. epoch
  /\ b.state \in {"none", "pending", "claiming"} /\ b.ice \in Seq(RtCands) /\ Len(b.ice) <= RtMaxIce
  /\ b.token = 0 => b = NoBinding
RtRequestOK(r, epoch) == RtIsRequest(r) /\ r.epoch \in 0 .. epoch /\ (r.epoch = 0 => r = NoRequest)
RtCmdOK(c, gen) ==
  RtIsCmd(c) /\ c.at \in RtAfter \cup RtClaiming \cup RtOther /\ c.gen \in 0 .. gen /\ c.driver \in 0 .. RtMaxDrivers
RtReplayOK(r) == IsFiniteSet(r) /\ Cardinality(r) <= RtMaxReplay

\* What every field can hold; an offer is bound or its REQUEST is kept, not both.
RtTyped ==
  /\ rtGen \in Nat /\ rtToken \in Nat /\ rtEpoch \in Nat
  /\ RtSessionOK(rtSession, rtGen) /\ RtCmdOK(rtCmd, rtGen)
  /\ RtBindingOK(rtBinding, rtToken, rtEpoch) /\ RtRequestOK(rtRequest, rtEpoch)
  /\ ~(HasBinding /\ HasRequest) /\ RtReplayOK(rtReplay)
  /\ rtFate \in [committed : SUBSET (1 .. rtToken), withdrawn : SUBSET (1 .. rtToken)]
  /\ rtAccepted \subseteq (1 .. rtToken) \X RtCands /\ rtPublished \in [RtOps -> Nat]
RtTasks ==
  /\ RtIsSig(rtSig) /\ rtSig.driver \in 0 .. RtMaxDrivers /\ rtSig.sig \in RtSignals \cup {NoSignal}
  /\ rtIo \in [RtDrivers -> {"none", "run", "dying"}]
  /\ rtExpiry \in [at : {"off", "look", "wait"}, epoch : Nat, wake : BOOLEAN]
  /\ rtRun \in {"up", "stopping", "closed"}

RtMediaOK == \A e \in rtMedia : e.gen = rtSession.gen /\ e.driver = rtSession.driver /\ e.gen # 0

\* A token is committed or withdrawn once, and not while its binding is there.
RtFateOK ==
  /\ rtFate.committed \cap rtFate.withdrawn = {}
  /\ HasBinding => rtBinding.token \notin rtFate.committed /\ rtBinding.token \notin rtFate.withdrawn

\* The session of an uncommitted claim is the one the command will commit or take back, and
\* the session of a command that may commit is of its token.
RtOwned ==
  /\ rtSession.token # 0 /\ rtSession.token \notin rtFate.committed =>
       rtCmd.at \in RtAfter /\ ExactResponder /\ rtCmd.token = rtSession.token
  /\ rtCmd.at \in RtRunning => rtCmd.gen # 0
  /\ rtCmd.at \in RtRunning /\ rtSession.gen = rtCmd.gen => rtSession.token = rtCmd.token

\* Where the candidates of an offer are: queued, drained by the command, applied.
RtAcceptedFor(t) == {a[2] : a \in {x \in rtAccepted : x[1] = t}}
RtQueued ==
  HasBinding =>
    /\ rtBinding.state = "pending" => RtAcceptedFor(rtBinding.token) \subseteq RtIceOf(rtBinding.ice)
    /\ rtCmd.at \in RtClaiming /\ rtBinding.token = rtCmd.token =>
         RtAcceptedFor(rtBinding.token) \subseteq RtIceOf(rtBinding.ice) \cup RtIceOf(rtCmd.ice)
    /\ rtCmd.at \in RtRunning /\ rtBinding.token = rtCmd.token /\ rtSession.gen = rtCmd.gen =>
         RtAcceptedFor(rtBinding.token) \subseteq RtIceOf(rtBinding.ice) \cup rtSession.seen
RtApplied == rtSession.token \in rtFate.committed => RtAcceptedFor(rtSession.token) \subseteq rtSession.seen

\* What was shown, or is kept to be shown, is remembered.
RtShown ==
  /\ \A o \in RtOps : rtPublished[o] <= 1 /\ (rtPublished[o] # 0 => RequestKey(o) \in rtReplay)
  /\ HasRequest => /\ RequestKey(rtRequest.op) \in rtReplay
                   /\ rtRequest.op \in RtOps => rtPublished[rtRequest.op] = 0

RtInv == RtTyped /\ RtTasks /\ RtMediaOK /\ RtFateOK /\ RtOwned /\ RtQueued /\ RtApplied /\ RtShown

-----------------------------------------------------------------------------
(* Realtime: steps that only take away                                     *)

\* The binding stays, perhaps marked, or goes; so does the REQUEST.
RtBindLess(b) ==
  \/ b = rtBinding \/ b = NoBinding
  \/ /\ HasBinding /\ RtIsBinding(b) /\ b.token = rtBinding.token /\ b.epoch = rtBinding.epoch /\ b.ice = rtBinding.ice
     /\ b.state \in {rtBinding.state, "claiming"}
RtReqLess(r) ==
  \/ r = rtRequest \/ r = NoRequest
  \/ HasRequest /\ RtIsRequest(r) /\ r.epoch = rtRequest.epoch /\ r.op = rtRequest.op
RtReplayMore == rtReplay' = rtReplay \/ \E k : CanRemember(k) /\ rtReplay' = rtReplay \cup {k}
RtWithdrawn == [rtFate EXCEPT !.withdrawn = @ \cup {rtBinding.token}]
RtFateMore == rtFate' = rtFate \/ (HasBinding /\ rtBinding' = NoBinding /\ rtFate' = RtWithdrawn)
RtOffersLess ==
  /\ UNCHANGED <<rtToken, rtEpoch, rtAccepted, rtPublished>>
  /\ RtBindLess(rtBinding') /\ RtReqLess(rtRequest') /\ RtReplayMore /\ RtFateMore
RtSessLess ==
  /\ UNCHANGED rtGen
  /\ \/ UNCHANGED rtSession /\ rtMedia' \subseteq rtMedia
     \/ rtSession' = NoRtSession /\ rtMedia' = {}
\* How a command goes on without a new session.
RtCmdMove ==
  \/ rtCmd' = rtCmd
  \/ rtCmd.at \notin RtAfter /\ rtCmd'.at \in RtOther
  \/ /\ rtCmd.at \in RtClaiming /\ rtCmd'.at \in RtClaiming
     /\ rtCmd'.token = rtCmd.token /\ rtCmd'.ice = rtCmd.ice
  \/ rtCmd.at = "claim_apply" /\ rtCmd'.at = "claim_rollback"
  \/ \E x \in RtAfter : rtCmd.at \in RtAfter /\ rtCmd' = [rtCmd EXCEPT !.at = x] /\ (x \in RtRunning => rtCmd.at \in RtRunning)
  \/ rtCmd.at = "claim_rollback" /\ rtCmd' = CmdIdle /\ (ExactResponder => rtSession' = NoRtSession)

LEMMA RtBlank ==
  /\ NoRtSession.gen = 0 /\ NoRtSession.token = 0 /\ NoRtSession.driver = 0 /\ RtIsSession(NoRtSession)
  /\ NoBinding.token = 0 /\ NoBinding.ice = <<>> /\ NoBinding.state = "none" /\ NoBinding.epoch = 0 /\ RtIsBinding(NoBinding)
  /\ NoBinding.due = FALSE
  /\ NoRequest.epoch = 0 /\ RtIsRequest(NoRequest) /\ NoRequest.due = FALSE /\ NoRequest.op = "none"
  /\ CmdIdle.at = "idle" /\ CmdIdle.gen = 0 /\ CmdIdle.driver = 0 /\ RtIsCmd(CmdIdle)
  /\ SigIdle.driver = 0 /\ SigIdle.sig = NoSignal /\ RtIsSig(SigIdle)
BY DEF NoRtSession, NoBinding, NoRequest, CmdIdle, SigIdle, RtIsSession, RtIsBinding, RtIsRequest, RtIsCmd, RtIsSig

LEMMA RtStages ==
  /\ \A x \in RtOther : x \notin RtAfter /\ x \notin RtClaiming
  /\ \A x \in RtClaiming : x \notin RtAfter
  /\ \A x \in RtRunning : x \in RtAfter
  /\ "claim_rollback" \in RtAfter /\ "claim_rollback" \notin RtRunning /\ "claim_apply" \in RtClaiming
  /\ "claim_cancel" \in RtAfter /\ "claim_cancel" \notin RtRunning /\ "idle" \in RtOther
BY DEF RtOther, RtAfter, RtClaiming, RtRunning

\* Nothing bound, nothing kept.
LEMMA RtNothing ==
  ASSUME NEW token \in Nat, NEW epoch \in Nat
  PROVE  RtBindingOK(NoBinding, token, epoch) /\ RtRequestOK(NoRequest, epoch) /\ RtSessionOK(NoRtSession, token)
<1>1. <<>> \in Seq(RtCands) /\ Len(<<>>) = 0
  BY EmptySeq
<1>2. RtMaxIce \in Nat /\ RtMaxDrivers \in Nat
  BY RealtimeAssumption
<1> QED
  BY <1>1, <1>2, RtBlank DEF RtBindingOK, RtRequestOK, RtSessionOK

LEMMA RtReplayGrows ==
  ASSUME RtReplayOK(rtReplay), RtReplayMore
  PROVE  RtReplayOK(rtReplay') /\ rtReplay \subseteq rtReplay'
<1>1. CASE rtReplay' = rtReplay
  BY <1>1 DEF RtReplayOK
<1>2. ASSUME NEW k, CanRemember(k), rtReplay' = rtReplay \cup {k}
      PROVE  RtReplayOK(rtReplay') /\ rtReplay \subseteq rtReplay'
  <2>1. IsFiniteSet(rtReplay) /\ k \notin rtReplay /\ Cardinality(rtReplay) < RtMaxReplay
    BY <1>2 DEF RtReplayOK, CanRemember
  <2>2. IsFiniteSet(rtReplay \cup {k}) /\ Cardinality(rtReplay \cup {k}) = Cardinality(rtReplay) + 1
    BY <2>1, FS_AddElement
  <2>3. Cardinality(rtReplay) \in Nat /\ RtMaxReplay \in Nat
    BY <2>1, FS_CardinalityType, RealtimeAssumption
  <2>4. Cardinality(rtReplay') <= RtMaxReplay
    BY <1>2, <2>1, <2>2, <2>3
  <2> QED
    BY <1>2, <2>2, <2>4 DEF RtReplayOK
<1> QED
  BY <1>1, <1>2 DEF RtReplayMore

LEMMA RtOffersTyped ==
  ASSUME RtTyped, RtOffersLess
  PROVE  /\ RtBindingOK(rtBinding', rtToken', rtEpoch') /\ RtRequestOK(rtRequest', rtEpoch')
         /\ ~(HasBinding /\ HasRequest)' /\ RtReplayOK(rtReplay') /\ rtReplay \subseteq rtReplay'
         /\ rtFate' \in [committed : SUBSET (1 .. rtToken'), withdrawn : SUBSET (1 .. rtToken')]
         /\ rtFate'.committed = rtFate.committed
<1>1. /\ rtToken \in Nat /\ rtEpoch \in Nat /\ rtToken' = rtToken /\ rtEpoch' = rtEpoch
      /\ RtBindingOK(rtBinding, rtToken, rtEpoch) /\ RtRequestOK(rtRequest, rtEpoch) /\ ~(HasBinding /\ HasRequest)
      /\ rtFate \in [committed : SUBSET (1 .. rtToken), withdrawn : SUBSET (1 .. rtToken)]
  BY DEF RtTyped, RtOffersLess
<1>2. RtBindingOK(NoBinding, rtToken, rtEpoch) /\ RtRequestOK(NoRequest, rtEpoch)
  BY <1>1, RtNothing
<1>3. RtBindingOK(rtBinding', rtToken, rtEpoch) /\ (rtBinding'.token # 0 => HasBinding)
  BY <1>1, <1>2, RtBlank DEF RtOffersLess, RtBindLess, RtBindingOK, HasBinding
<1>4. RtRequestOK(rtRequest', rtEpoch) /\ (rtRequest'.epoch # 0 => HasRequest)
  BY <1>1, <1>2, RtBlank DEF RtOffersLess, RtReqLess, RtRequestOK, HasRequest
<1>5. ~(HasBinding /\ HasRequest)'
  BY <1>1, <1>3, <1>4 DEF HasBinding, HasRequest
<1>6. /\ rtFate' \in [committed : SUBSET (1 .. rtToken), withdrawn : SUBSET (1 .. rtToken)]
      /\ rtFate'.committed = rtFate.committed
  <2>1. HasBinding => rtBinding.token \in 1 .. rtToken
    BY <1>1 DEF HasBinding, RtBindingOK
  <2> QED
    BY <1>1, <2>1 DEF RtOffersLess, RtFateMore, RtWithdrawn
<1> QED
  BY <1>1, <1>3, <1>4, <1>5, <1>6, RtReplayGrows DEF RtTyped, RtOffersLess

LEMMA RtFateKept ==
  ASSUME RtTyped, RtFateOK, RtOffersLess
  PROVE  RtFateOK'
<1>1. rtFate \in [committed : SUBSET (1 .. rtToken), withdrawn : SUBSET (1 .. rtToken)]
  BY DEF RtTyped
<1>2. rtBinding'.token # 0 => HasBinding /\ rtBinding'.token = rtBinding.token
  BY RtBlank DEF RtOffersLess, RtBindLess, HasBinding
<1>3. CASE rtFate' = rtFate
  BY <1>2, <1>3 DEF RtFateOK, HasBinding
<1>4. CASE HasBinding /\ rtBinding' = NoBinding /\ rtFate' = RtWithdrawn
  <2>1. rtFate'.committed = rtFate.committed /\ rtFate'.withdrawn = rtFate.withdrawn \cup {rtBinding.token}
    BY <1>1, <1>4 DEF RtWithdrawn
  <2>2. rtBinding'.token = 0
    BY <1>4, RtBlank
  <2> QED
    BY <1>4, <2>1, <2>2 DEF RtFateOK, HasBinding
<1> QED
  BY <1>3, <1>4 DEF RtOffersLess, RtFateMore

LEMMA RtShownKept ==
  ASSUME RtTyped, RtShown, RtOffersLess
  PROVE  RtShown'
<1>1. rtReplay \subseteq rtReplay' /\ rtPublished' = rtPublished
  BY RtReplayGrows DEF RtTyped, RtOffersLess
<1>2. rtRequest'.epoch # 0 => HasRequest /\ rtRequest'.op = rtRequest.op
  BY RtBlank DEF RtOffersLess, RtReqLess, HasRequest
<1> QED
  BY <1>1, <1>2 DEF RtShown, HasRequest, RequestKey

LEMMA RtMediaLess ==
  ASSUME RtMediaOK, RtSessLess
  PROVE  RtMediaOK'
BY DEF RtMediaOK, RtSessLess

LEMMA RtOwnedKept ==
  ASSUME RtTyped, RtOwned, RtSessLess, RtCmdMove, rtFate'.committed = rtFate.committed
  PROVE  RtOwned'
<1>1. RtIsCmd(rtCmd) /\ RtIsSession(rtSession)
  BY DEF RtTyped, RtCmdOK, RtSessionOK
<1>2. CASE rtSession' = NoRtSession
  <2>1. rtSession'.token = 0 /\ rtSession'.gen = 0
    BY <1>2, RtBlank
  <2>2. rtCmd'.at \in RtRunning => rtCmd'.gen # 0
    <3>1. CASE rtCmd'.at \in RtRunning /\ rtCmd' = rtCmd
      BY <3>1 DEF RtOwned
    <3>2. ASSUME NEW x \in RtAfter, rtCmd.at \in RtAfter, rtCmd' = [rtCmd EXCEPT !.at = x],
                 x \in RtRunning => rtCmd.at \in RtRunning
          PROVE  rtCmd'.at \in RtRunning => rtCmd'.gen # 0
      <4>1. rtCmd'.at = x /\ rtCmd'.gen = rtCmd.gen
        BY <1>1, <3>2 DEF RtIsCmd
      <4> QED
        BY <3>2, <4>1 DEF RtOwned
    <3> QED
      BY <3>1, <3>2, RtStages, RtBlank DEF RtCmdMove
  <2> QED
    BY <2>1, <2>2 DEF RtOwned
<1>3. CASE UNCHANGED rtSession
  <2>1. CASE rtCmd' = rtCmd
    BY <1>3, <2>1 DEF RtOwned, ExactResponder, HasSession
  <2>2. CASE rtCmd.at \notin RtAfter /\ rtCmd'.at \notin RtRunning
    BY <1>3, <2>2 DEF RtOwned
  <2>3. ASSUME NEW x \in RtAfter, rtCmd.at \in RtAfter, rtCmd' = [rtCmd EXCEPT !.at = x],
               x \in RtRunning => rtCmd.at \in RtRunning
        PROVE  RtOwned'
    <3>1. /\ rtCmd'.at = x /\ rtCmd'.gen = rtCmd.gen /\ rtCmd'.token = rtCmd.token
          /\ rtCmd'.shared = rtCmd.shared /\ rtCmd'.driver = rtCmd.driver
      BY <1>1, <2>3 DEF RtIsCmd
    <3> QED
      BY <1>3, <2>3, <3>1 DEF RtOwned, ExactResponder, HasSession
  <2>4. CASE rtCmd' = CmdIdle /\ (ExactResponder => rtSession' = NoRtSession)
    <3>1. rtCmd'.at \notin RtRunning
      BY <2>4, RtBlank, RtStages
    <3>2. ExactResponder => rtSession.token = 0
      BY <1>3, <2>4, RtBlank
    <3> QED
      BY <1>3, <3>1, <3>2 DEF RtOwned
  <2> QED
    BY <2>1, <2>2, <2>3, <2>4, RtStages DEF RtCmdMove
<1> QED
  BY <1>2, <1>3 DEF RtSessLess

LEMMA RtQueuedKept ==
  ASSUME RtTyped, RtOwned, RtOwned', RtQueued, RtSessLess, RtCmdMove, RtBindLess(rtBinding'), UNCHANGED rtAccepted
  PROVE  RtQueued'
<1>1. RtIsCmd(rtCmd)
  BY DEF RtTyped, RtCmdOK
<1>2. rtBinding'.token # 0 =>
        /\ HasBinding /\ rtBinding'.token = rtBinding.token /\ rtBinding'.ice = rtBinding.ice
        /\ rtBinding'.state = "pending" => rtBinding.state = "pending"
  BY RtBlank DEF RtBindLess, HasBinding
<1>3. \A t : RtAcceptedFor(t)' = RtAcceptedFor(t)
  BY DEF RtAcceptedFor
<1>4. rtCmd'.at \in RtClaiming => rtCmd.at \in RtClaiming /\ rtCmd'.token = rtCmd.token /\ rtCmd'.ice = rtCmd.ice
  <2>1. ASSUME NEW x \in RtAfter, rtCmd' = [rtCmd EXCEPT !.at = x] PROVE rtCmd'.at \notin RtClaiming
    <3>1. rtCmd'.at = x
      BY <1>1, <2>1 DEF RtIsCmd
    <3> QED
      BY <3>1, RtStages
  <2> QED
    BY <2>1, RtStages, RtBlank DEF RtCmdMove
<1>5. rtCmd'.at \in RtRunning => rtCmd.at \in RtRunning /\ rtCmd'.token = rtCmd.token /\ rtCmd'.gen = rtCmd.gen
  <2>1. ASSUME NEW x \in RtAfter, rtCmd' = [rtCmd EXCEPT !.at = x], x \in RtRunning => rtCmd.at \in RtRunning
        PROVE  rtCmd'.at \in RtRunning => rtCmd.at \in RtRunning /\ rtCmd'.token = rtCmd.token /\ rtCmd'.gen = rtCmd.gen
    BY <1>1, <2>1 DEF RtIsCmd
  <2> QED
    BY <2>1, RtStages, RtBlank DEF RtCmdMove
<1>6. rtCmd'.at \in RtRunning /\ rtSession'.gen = rtCmd'.gen => UNCHANGED rtSession
  BY RtBlank DEF RtOwned, RtSessLess
<1> SUFFICES ASSUME HasBinding' PROVE
       /\ rtBinding'.state = "pending" => RtAcceptedFor(rtBinding.token) \subseteq RtIceOf(rtBinding.ice)
       /\ rtCmd'.at \in RtClaiming /\ rtBinding'.token = rtCmd'.token =>
            RtAcceptedFor(rtBinding.token) \subseteq RtIceOf(rtBinding.ice) \cup RtIceOf(rtCmd.ice)
       /\ rtCmd'.at \in RtRunning /\ rtBinding'.token = rtCmd'.token /\ rtSession'.gen = rtCmd'.gen =>
            RtAcceptedFor(rtBinding.token) \subseteq RtIceOf(rtBinding.ice) \cup rtSession.seen
  <2>1. HasBinding' => rtBinding'.token # 0
    BY DEF HasBinding
  <2> QED
    BY <1>2, <1>3, <1>4, <1>5, <1>6, <2>1 DEF RtQueued, RtAcceptedFor
<1>7. HasBinding /\ rtBinding'.token = rtBinding.token
  BY <1>2 DEF HasBinding
<1> QED
  BY <1>2, <1>4, <1>5, <1>6, <1>7 DEF RtQueued, HasBinding

LEMMA RtAppliedKept ==
  ASSUME RtTyped, RtApplied, RtSessLess, rtFate'.committed = rtFate.committed, UNCHANGED <<rtAccepted, rtToken>>
  PROVE  RtApplied'
<1>1. CASE UNCHANGED rtSession
  BY <1>1 DEF RtApplied, RtAcceptedFor
<1>2. CASE rtSession' = NoRtSession
  <2>1. rtFate.committed \subseteq 1 .. rtToken /\ rtToken \in Nat
    BY DEF RtTyped
  <2>2. rtSession'.token \notin rtFate'.committed
    BY <1>2, <2>1, RtBlank
  <2> QED
    BY <2>2 DEF RtApplied
<1> QED
  BY <1>1, <1>2 DEF RtSessLess

LEMMA RtLessInv ==
  ASSUME RtInv, RtTasks', RtSessLess, RtOffersLess, RtCmdMove, RtCmdOK(rtCmd', rtGen)
  PROVE  RtInv'
<1>1. RtTyped /\ RtMediaOK /\ RtFateOK /\ RtOwned /\ RtQueued /\ RtApplied /\ RtShown
  BY DEF RtInv
<1>2. /\ RtBindingOK(rtBinding', rtToken', rtEpoch') /\ RtRequestOK(rtRequest', rtEpoch')
      /\ ~(HasBinding /\ HasRequest)' /\ RtReplayOK(rtReplay')
      /\ rtFate' \in [committed : SUBSET (1 .. rtToken'), withdrawn : SUBSET (1 .. rtToken')]
      /\ rtFate'.committed = rtFate.committed
  BY <1>1, RtOffersTyped
<1>3. /\ UNCHANGED <<rtToken, rtEpoch, rtAccepted, rtPublished, rtGen>>
      /\ RtBindLess(rtBinding')
  BY DEF RtOffersLess, RtSessLess
<1>4. RtSessionOK(rtSession', rtGen')
  BY <1>1, <1>3, RtNothing DEF RtSessLess, RtTyped
<1>5. RtTyped'
  BY <1>1, <1>2, <1>3, <1>4 DEF RtTyped
<1>6. RtMediaOK' /\ RtFateOK' /\ RtShown'
  BY <1>1, RtMediaLess, RtFateKept, RtShownKept
<1>7. RtOwned'
  BY <1>1, <1>2, RtOwnedKept
<1>8. RtQueued'
  BY <1>1, <1>3, <1>7, RtQueuedKept
<1>9. RtApplied'
  BY <1>1, <1>2, <1>3, RtAppliedKept
<1> QED
  BY <1>5, <1>6, <1>7, <1>8, <1>9 DEF RtInv

-----------------------------------------------------------------------------
(* Realtime: the tasks                                                     *)

LEMMA RtCmdTasks ==
  ASSUME RtInv, RtCmdStep
  PROVE  RtTasks'
<1>1. RtTasks
  BY DEF RtInv
<1>2. UNCHANGED <<rtSig, rtRun>>
  BY DEF RtCmdStep, StartBegin, StartInsert, StartSend, StartSpawn, StopBegin, StopCancel, ClaimBegin, ClaimDriver,
         ClaimApply, ClaimSpawn, ClaimSend, ClaimCommit, ClaimCancel, ClaimRollback, RejectBegin, RejectMark,
         RejectDone, Discard
<1>3. UNCHANGED rtExpiry \/ WakeExpiry
  BY DEF RtCmdStep, StartBegin, StartInsert, StartSend, StartSpawn, StopBegin, StopCancel, ClaimBegin, ClaimDriver,
         ClaimApply, ClaimSpawn, ClaimSend, ClaimCommit, ClaimCancel, ClaimRollback, RejectBegin, RejectMark,
         RejectDone, Discard, TakeClaim, rtOffers
<1>4. UNCHANGED rtIo \/ CancelIo \/ SpawnIo(rtCmd.driver)
  BY DEF RtCmdStep, StartBegin, StartInsert, StartSend, StartSpawn, StopBegin, StopCancel, ClaimBegin, ClaimDriver,
         ClaimApply, ClaimSpawn, ClaimSend, ClaimCommit, ClaimCancel, ClaimRollback, RejectBegin, RejectMark,
         RejectDone, Discard, rtFormal
<1>5. rtExpiry' \in [at : {"off", "look", "wait"}, epoch : Nat, wake : BOOLEAN]
  BY <1>1, <1>3 DEF RtTasks, WakeExpiry
<1>6. rtIo' \in [RtDrivers -> {"none", "run", "dying"}]
  BY <1>1, <1>4 DEF RtTasks, CancelIo, SpawnIo
<1> QED
  BY <1>1, <1>2, <1>5, <1>6 DEF RtTasks

LEMMA RtEnvTasks ==
  ASSUME RtInv,
         \/ \E d \in RtDrivers : IoFails(d) \/ IoRemoves(d)
         \/ ConnectionLost \/ ConnectionCancel \/ Elapse \/ ExpiryLooks \/ ExpiryWakes \/ ExpiryFires
         \/ (\E dir \in {"send", "receive"} : CreateEndpoint(dir)) \/ (\E e \in rtMedia : ReleaseEndpoint(e))
         \/ RtShutdown \/ RtCloseAll
  PROVE  RtTasks'
<1>1. RtTasks
  BY DEF RtInv
<1>2. UNCHANGED rtSig /\ (UNCHANGED rtRun \/ rtRun' \in {"stopping", "closed"})
  BY DEF IoFails, IoRemoves, ConnectionLost, ConnectionCancel, Elapse, ExpiryLooks, ExpiryWakes, ExpiryFires,
         CreateEndpoint, ReleaseEndpoint, RtShutdown, RtCloseAll
<1>3. EntryEpoch \in Nat
  BY DEF RtInv, RtTyped, RtBindingOK, RtRequestOK, EntryEpoch
<1>4. \/ UNCHANGED rtExpiry \/ WakeExpiry
      \/ rtExpiry' = [rtExpiry EXCEPT !.at = "wait", !.epoch = EntryEpoch]
      \/ rtExpiry' = [rtExpiry EXCEPT !.at = "look", !.wake = FALSE]
      \/ rtExpiry' = [rtExpiry EXCEPT !.at = "look"]
  BY DEF IoFails, IoRemoves, ConnectionLost, ConnectionCancel, Elapse, ExpiryLooks, ExpiryWakes, ExpiryFires,
         CreateEndpoint, ReleaseEndpoint, RtShutdown, RtCloseAll, rtOffers
<1>5. UNCHANGED rtIo \/ CancelIo \/ \E d \in RtDrivers, x \in {"none", "dying"} : rtIo' = [rtIo EXCEPT ![d] = x]
  BY DEF IoFails, IoRemoves, ConnectionLost, ConnectionCancel, Elapse, ExpiryLooks, ExpiryWakes, ExpiryFires,
         CreateEndpoint, ReleaseEndpoint, RtShutdown, RtCloseAll, rtFormal
<1>6. rtExpiry' \in [at : {"off", "look", "wait"}, epoch : Nat, wake : BOOLEAN]
  BY <1>1, <1>3, <1>4 DEF RtTasks, WakeExpiry
<1>7. rtIo' \in [RtDrivers -> {"none", "run", "dying"}]
  BY <1>1, <1>5 DEF RtTasks, CancelIo
<1> QED
  BY <1>1, <1>2, <1>6, <1>7 DEF RtTasks

LEMMA RtSigTasks ==
  ASSUME RtInv, RtSigStep
  PROVE  RtTasks'
<1>1. RtTasks
  BY DEF RtInv
<1>2. UNCHANGED rtRun
  BY DEF RtSigStep, SigArrives, SigControl, SigLookup, SigProvisional, SigFormal, SigCancel, SigApply, SigSpawn,
         SigSend, SigUndoCancel, SigUndo
<1>3. \/ UNCHANGED rtExpiry \/ WakeExpiry \/ EnsureExpiryWorker \/ rtExpiry' = PruneWakes(rtExpiry)
  BY DEF RtSigStep, SigArrives, SigControl, SigLookup, SigProvisional, SigFormal, SigCancel, SigApply, SigSpawn,
         SigSend, SigUndoCancel, SigUndo, rtOffers, TakeOffer, QueueIce, TakeRequest, TakeCancel, TakeClose, OnlyPrune
<1>4. UNCHANGED rtIo \/ CancelIo \/ SpawnIo(rtSig.driver)
  BY DEF RtSigStep, SigArrives, SigControl, SigLookup, SigProvisional, SigFormal, SigCancel, SigApply, SigSpawn,
         SigSend, SigUndoCancel, SigUndo, rtFormal
<1>5. rtExpiry' \in [at : {"off", "look", "wait"}, epoch : Nat, wake : BOOLEAN]
  BY <1>1, <1>3 DEF RtTasks, WakeExpiry, EnsureExpiryWorker, PruneWakes
<1>6. rtIo' \in [RtDrivers -> {"none", "run", "dying"}]
  BY <1>1, <1>4 DEF RtTasks, CancelIo, SpawnIo
<1>7. rtSession.driver \in 0 .. RtMaxDrivers /\ RtDrivers \subseteq 0 .. RtMaxDrivers /\ 0 \in 0 .. RtMaxDrivers
  BY RealtimeAssumption DEF RtInv, RtTyped, RtSessionOK, RtDrivers
<1>8. \/ rtSig' = SigIdle
      \/ \E x : rtSig' = [rtSig EXCEPT !.at = x]
      \/ \E x : \E d \in 0 .. RtMaxDrivers : rtSig' = [rtSig EXCEPT !.at = x, !.driver = d]
      \/ \E g \in RtSignals : \E x, y : rtSig' = [SigIdle EXCEPT !.sig = g, !.bound = y, !.at = x]
  <2>1. CASE \E g \in RtSignals : SigArrives(g)
    BY <2>1 DEF SigArrives
  <2>2. CASE SigControl
    BY <2>2, <1>7 DEF SigControl
  <2>3. CASE SigLookup \/ SigProvisional \/ SigCancel \/ (\E ok \in BOOLEAN : SigSend(ok)) \/ SigUndoCancel \/ SigUndo
    BY <2>3, <1>7 DEF SigLookup, SigProvisional, SigCancel, SigSend, SigUndoCancel, SigUndo
  <2>4. CASE SigFormal
    BY <2>4, <1>7 DEF SigFormal
  <2>5. CASE SigApply
    BY <2>5, <1>7 DEF SigApply
  <2>6. CASE SigSpawn
    <3>1. rtSig.driver \in 0 .. RtMaxDrivers
      BY <1>1 DEF RtTasks
    <3> QED
      BY <2>6, <3>1, <1>7 DEF SigSpawn
  <2> QED
    BY <2>1, <2>2, <2>3, <2>4, <2>5, <2>6 DEF RtSigStep
<1>9. RtIsSig(rtSig') /\ rtSig'.driver \in 0 .. RtMaxDrivers /\ rtSig'.sig \in RtSignals \cup {NoSignal}
  BY <1>1, <1>7, <1>8, RtBlank DEF RtTasks, RtIsSig
<1> QED
  BY <1>1, <1>2, <1>5, <1>6, <1>9 DEF RtTasks

-----------------------------------------------------------------------------
(* Realtime: the quiet steps                                               *)

LEMMA RtSame ==
  /\ UNCHANGED rtOffers => RtOffersLess
  /\ UNCHANGED <<rtSession, rtGen, rtMedia>> => RtSessLess
  /\ UNCHANGED rtGen /\ DropSession => RtSessLess
  /\ \A d : UNCHANGED rtGen /\ DropIfOwned(d) => RtSessLess
  /\ UNCHANGED rtFormal => UNCHANGED <<rtSession, rtGen, rtMedia>>
BY DEF rtOffers, rtGhost, rtFormal, RtOffersLess, RtBindLess, RtReqLess, RtReplayMore, RtFateMore, RtSessLess, DropSession,
       DropIfOwned

LEMMA RtQuiet ==
  ASSUME RtInv, RtTasks', UNCHANGED rtCmd, RtSessLess, RtOffersLess
  PROVE  RtInv'
<1>1. RtCmdMove /\ RtCmdOK(rtCmd', rtGen)
  BY DEF RtCmdMove, RtInv, RtTyped
<1> QED
  BY <1>1, RtLessInv

\* A binding that is due is there.
LEMMA RtPruned ==
  ASSUME RtInv
  PROVE  /\ rtBinding.due => HasBinding
         /\ PrunedBinding # NoBinding => HasBinding /\ ~rtBinding.due /\ PrunedBinding = rtBinding /\ PrunedFate = rtFate
         /\ PrunedBinding = NoBinding => ~HasBinding \/ rtBinding.due
         /\ PrunedRequest # NoRequest => HasRequest /\ ~rtRequest.due /\ PrunedRequest = rtRequest
         /\ rtBinding.token = 0 => rtBinding = NoBinding
         /\ rtRequest.epoch = 0 => rtRequest = NoRequest
<1>1. (rtBinding.token = 0 => rtBinding = NoBinding) /\ (rtRequest.epoch = 0 => rtRequest = NoRequest)
  BY DEF RtInv, RtTyped, RtBindingOK, RtRequestOK
<1> QED
  BY <1>1, RtBlank DEF HasBinding, HasRequest, PrunedBinding, PrunedRequest, PrunedFate

LEMMA RtWithdraws ==
  /\ HasBinding /\ Withdraw => RtBindLess(rtBinding') /\ RtFateMore
  /\ RtInv /\ rtBinding' = PrunedBinding /\ rtFate' = PrunedFate => RtBindLess(rtBinding') /\ RtFateMore
  /\ UNCHANGED <<rtBinding, rtFate>> => RtBindLess(rtBinding') /\ RtFateMore
  /\ RtReqLess(NoRequest) /\ RtReqLess(PrunedRequest) /\ RtReqLess(rtRequest)
  /\ rtReplay' = rtReplay => RtReplayMore
  /\ \A k : CanRemember(k) /\ rtReplay' = rtReplay \cup {k} => RtReplayMore
<1>1. RtInv => (rtBinding.due => HasBinding)
  BY RtPruned
<1> QED
  BY <1>1 DEF Withdraw, RtWithdrawn, RtBindLess, RtFateMore, PrunedBinding, PrunedFate, RtReqLess, PrunedRequest, RtReplayMore

LEMMA RtEnvInv ==
  ASSUME RtInv, RtTasks',
         \/ \E d \in RtDrivers : IoFails(d) \/ IoRemoves(d)
         \/ ConnectionLost \/ ConnectionCancel \/ Elapse \/ ExpiryLooks \/ ExpiryWakes \/ ExpiryFires
         \/ (\E e \in rtMedia : ReleaseEndpoint(e)) \/ RtShutdown \/ RtCloseAll
  PROVE  RtInv'
<1>1. UNCHANGED rtCmd
  BY DEF IoFails, IoRemoves, ConnectionLost, ConnectionCancel, Elapse, ExpiryLooks, ExpiryWakes, ExpiryFires,
         ReleaseEndpoint, RtShutdown, RtCloseAll
<1>2. RtSessLess
  <2>1. CASE \E d \in RtDrivers : IoFails(d) \/ IoRemoves(d)
    BY <2>1, RtSame DEF IoFails, IoRemoves
  <2>2. CASE ConnectionLost \/ RtCloseAll
    BY <2>2, RtSame DEF ConnectionLost, RtCloseAll
  <2>3. CASE ConnectionCancel \/ Elapse \/ ExpiryLooks \/ ExpiryWakes \/ ExpiryFires
    BY <2>3, RtSame DEF ConnectionCancel, Elapse, ExpiryLooks, ExpiryWakes, ExpiryFires
  <2>4. CASE (\E e \in rtMedia : ReleaseEndpoint(e)) \/ RtShutdown
    BY <2>4 DEF ReleaseEndpoint, RtShutdown, RtSessLess
  <2> QED
    BY <2>1, <2>2, <2>3, <2>4
<1>3. RtOffersLess
  <2>1. CASE UNCHANGED rtOffers
    BY <2>1, RtSame
  <2>2. CASE ConnectionLost \/ RtCloseAll \/ ExpiryFires
    BY <2>2, RtWithdraws DEF ConnectionLost, RtCloseAll, ExpiryFires, RtOffersLess
  <2>3. CASE ExpiryLooks \/ ExpiryWakes
    BY <2>3, RtWithdraws DEF ExpiryLooks, ExpiryWakes, RtOffersLess, rtGhost
  <2>4. CASE Elapse
    <3>1. RtIsBinding(rtBinding) /\ RtIsRequest(rtRequest)
      BY DEF RtInv, RtTyped, RtBindingOK, RtRequestOK
    <3>2. ~HasBinding => rtBinding' = NoBinding
      BY <2>4, RtPruned, RtBlank DEF Elapse, HasBinding, NoBinding
    <3>3. ~HasRequest => rtRequest' = NoRequest
      BY <2>4, RtPruned, RtBlank DEF Elapse, HasRequest, NoRequest
    <3>4. RtBindLess(rtBinding')
      BY <2>4, <3>1, <3>2 DEF Elapse, RtBindLess, RtIsBinding
    <3>5. RtReqLess(rtRequest')
      BY <2>4, <3>1, <3>3 DEF Elapse, RtReqLess, RtIsRequest
    <3> QED
      BY <2>4, <3>4, <3>5 DEF Elapse, RtOffersLess, rtGhost, RtReplayMore, RtFateMore
  <2> QED
    BY <2>1, <2>2, <2>3, <2>4 DEF IoFails, IoRemoves, ConnectionCancel, ReleaseEndpoint, RtShutdown
<1> QED
  BY <1>1, <1>2, <1>3, RtQuiet

LEMMA RtSigQuietInv ==
  ASSUME RtInv, RtTasks',
         \/ (\E g \in RtSignals : SigArrives(g)) \/ SigControl \/ SigLookup
         \/ SigFormal \/ SigCancel \/ SigSpawn
         \/ (\E ok \in BOOLEAN : SigSend(ok)) \/ SigUndoCancel \/ SigUndo
  PROVE  RtInv'
<1>1. UNCHANGED rtCmd
  BY DEF SigArrives, SigControl, SigLookup, SigFormal, SigCancel, SigSpawn, SigSend, SigUndoCancel, SigUndo
<1>2. RtSessLess
  <2>1. CASE (\E g \in RtSignals : SigArrives(g)) \/ SigLookup \/ SigCancel \/ (\E ok \in BOOLEAN : SigSend(ok)) \/ SigUndoCancel
    BY <2>1, RtSame DEF SigArrives, SigLookup, SigCancel, SigSend, SigUndoCancel
  <2>2. CASE SigControl
    BY <2>2, RtSame DEF SigControl
  <2>3. CASE SigFormal
    BY <2>3, RtSame DEF SigFormal
  <2>4. CASE SigSpawn \/ SigUndo
    BY <2>4, RtSame DEF SigSpawn, SigUndo
  <2> QED
    BY <2>1, <2>2, <2>3, <2>4
<1>3. RtOffersLess
  <2>1. CASE UNCHANGED rtOffers
    BY <2>1, RtSame
  <2>2. CASE SigControl
    BY <2>2, RtWithdraws DEF SigControl, RtOffersLess, ClaimInProgress, CanCancel
  <2>3. CASE SigLookup
    BY <2>3, RtWithdraws DEF SigLookup, RtOffersLess, rtGhost
  <2> QED
    BY <2>1, <2>2, <2>3 DEF SigArrives, SigFormal, SigCancel, SigSpawn, SigSend, SigUndoCancel, SigUndo
<1> QED
  BY <1>1, <1>2, <1>3, RtQuiet

LEMMA RtTakesInv ==
  ASSUME RtInv, RtTasks', UNCHANGED <<rtFormal, rtCmd>>,
         NEW g, (CancelFits(g) /\ TakeCancel(g)) \/ (CloseFits(g) /\ TakeClose(g)) \/ OnlyPrune
  PROVE  RtInv'
<1>1. RtSessLess
  BY RtSame
<1>2. RtOffersLess
  <2>1. CASE OnlyPrune
    BY <2>1, RtWithdraws DEF OnlyPrune, RtOffersLess
  <2>2. CASE CancelFits(g) /\ TakeCancel(g)
    BY <2>2, RtWithdraws, RtPruned DEF TakeCancel, CancelFits, RtOffersLess, CanCancel, CancelsBinding
  <2>3. CASE CloseFits(g) /\ TakeClose(g)
    BY <2>3, RtWithdraws, RtPruned DEF TakeClose, RtOffersLess, ClosesBinding
  <2> QED
    BY <2>1, <2>2, <2>3
<1> QED
  BY <1>1, <1>2, RtQuiet

\* A command that is idle again.
LEMMA RtGoesIdle ==
  ASSUME RtInv, rtCmd.at \notin RtAfter, rtCmd' = CmdIdle
  PROVE  RtCmdMove /\ RtCmdOK(rtCmd', rtGen)
<1>1. rtGen \in Nat /\ RtMaxDrivers \in Nat
  BY RealtimeAssumption DEF RtInv, RtTyped
<1> QED
  BY <1>1, RtBlank, RtStages DEF RtCmdMove, RtCmdOK

LEMMA RtStartInv ==
  ASSUME RtInv, RtTasks',
         \/ (\E d \in RtDrivers : StartBegin(d)) \/ (StartInsert /\ HasSession)
         \/ (\E ok \in BOOLEAN : StartSend(ok)) \/ StartSpawn \/ StopBegin \/ StopCancel
  PROVE  RtInv'
<1>1. RtIsCmd(rtCmd) /\ RtCmdOK(rtCmd, rtGen) /\ rtGen \in Nat /\ RtDrivers \subseteq 0 .. RtMaxDrivers
  BY RealtimeAssumption DEF RtInv, RtTyped, RtCmdOK, RtDrivers
<1>2. rtSession.driver \in 0 .. RtMaxDrivers
  BY DEF RtInv, RtTyped, RtSessionOK
<1>3. RtOffersLess
  BY RtSame DEF StartBegin, StartInsert, StartSend, StartSpawn, StopBegin, StopCancel
<1>4. RtSessLess
  <2>1. CASE (\E d \in RtDrivers : StartBegin(d)) \/ (StartInsert /\ HasSession) \/ StopBegin \/ StopCancel
    BY <2>1, RtSame DEF StartBegin, StartInsert, StopBegin, StopCancel
  <2>2. CASE (\E ok \in BOOLEAN : StartSend(ok)) \/ StartSpawn
    BY <2>2, RtSame DEF StartSend, StartSpawn
  <2> QED
    BY <2>1, <2>2
<1>5. rtCmd.at \in RtOther
  BY DEF StartBegin, StartInsert, StartSend, StartSpawn, StopBegin, StopCancel, RtIdle, RtOther
<1>6. RtCmdMove /\ RtCmdOK(rtCmd', rtGen)
  <2>1. CASE rtCmd' = CmdIdle
    BY <2>1, <1>5, RtStages, RtGoesIdle
  <2>2. CASE \E d \in 0 .. RtMaxDrivers, x \in {"start_insert", "stop_cancel"} : rtCmd' = [CmdIdle EXCEPT !.at = x, !.driver = d]
    <3>1. RtIsCmd(rtCmd') /\ rtCmd'.at \in RtOther /\ rtCmd'.gen = 0 /\ rtCmd'.driver \in 0 .. RtMaxDrivers
      BY <2>2 DEF CmdIdle, RtIsCmd, RtOther
    <3> QED
      BY <1>1, <1>5, <3>1, RtStages DEF RtCmdMove, RtCmdOK
  <2>3. CASE rtCmd' = [rtCmd EXCEPT !.at = "start_spawn"]
    <3>1. RtIsCmd(rtCmd') /\ rtCmd'.at \in RtOther /\ rtCmd'.gen = rtCmd.gen /\ rtCmd'.driver = rtCmd.driver
      BY <1>1, <2>3 DEF RtIsCmd, RtOther
    <3> QED
      BY <1>1, <1>5, <3>1, RtStages DEF RtCmdMove, RtCmdOK
  <2> QED
    BY <1>1, <1>2, <2>1, <2>2, <2>3 DEF StartBegin, StartInsert, StartSend, StartSpawn, StopBegin, StopCancel
<1> QED
  BY <1>3, <1>4, <1>6, RtLessInv

LEMMA RtTakeClaims ==
  TakeClaim /\ UNCHANGED rtFate => RtBindLess(rtBinding') /\ RtFateMore
BY DEF TakeClaim, RtBindLess, RtFateMore

LEMMA RtRejectInv ==
  ASSUME RtInv, RtTasks', RejectBegin(rtBinding.token) \/ RejectMark \/ RejectDone \/ Discard(rtBinding.token)
  PROVE  RtInv'
<1>1. RtIsCmd(rtCmd) /\ RtCmdOK(rtCmd, rtGen) /\ rtGen \in Nat /\ 0 \in 0 .. RtMaxDrivers
  BY RealtimeAssumption DEF RtInv, RtTyped, RtCmdOK
<1>2. RtIsBinding(rtBinding)
  BY DEF RtInv, RtTyped, RtBindingOK
<1>3. RtSessLess
  BY RtSame DEF RejectBegin, RejectMark, RejectDone, Discard
<1>4. RtOffersLess
  <2>1. CASE RejectBegin(rtBinding.token)
    BY <2>1, RtSame DEF RejectBegin
  <2>2. CASE RejectMark
    <3>1. rtBinding.state = "pending" => HasBinding
      BY RtPruned, RtBlank DEF HasBinding
    <3>2. RtBindLess(rtBinding')
      BY <1>2, <2>2, <3>1 DEF RejectMark, RtBindLess, RtIsBinding
    <3> QED
      BY <2>2, <3>2, RtWithdraws DEF RejectMark, RtOffersLess, rtGhost, RtFateMore
  <2>3. CASE RejectDone
    <3>1. rtBinding.state = "claiming" => HasBinding
      BY RtPruned, RtBlank DEF HasBinding
    <3> QED
      BY <2>3, <3>1, RtWithdraws DEF RejectDone, RtOffersLess
  <2>4. CASE Discard(rtBinding.token)
    BY <2>4, RtWithdraws DEF Discard, RtOffersLess
  <2> QED
    BY <2>1, <2>2, <2>3, <2>4
<1>5. CASE Discard(rtBinding.token)
  <2>1. UNCHANGED rtCmd
    BY <1>5 DEF Discard
  <2> QED
    BY <2>1, <1>3, <1>4, RtQuiet
<1>6. ASSUME RejectBegin(rtBinding.token) \/ RejectMark \/ RejectDone PROVE RtCmdMove /\ RtCmdOK(rtCmd', rtGen)
  <2>1. rtCmd.at \in RtOther
    BY <1>6 DEF RejectBegin, RejectMark, RejectDone, RtIdle, RtOther
  <2>2. CASE rtCmd' = CmdIdle
    BY <2>1, <2>2, RtStages, RtGoesIdle
  <2>3. CASE rtCmd' = [CmdIdle EXCEPT !.at = "reject_mark", !.token = rtBinding.token, !.epoch = rtBinding.epoch]
    <3>1. RtIsCmd(rtCmd') /\ rtCmd'.at \in RtOther /\ rtCmd'.gen = 0 /\ rtCmd'.driver = 0
      BY <2>3 DEF CmdIdle, RtIsCmd, RtOther
    <3> QED
      BY <1>1, <2>1, <3>1, RtStages DEF RtCmdMove, RtCmdOK
  <2>4. CASE rtCmd' = [rtCmd EXCEPT !.at = "reject_done"]
    <3>1. RtIsCmd(rtCmd') /\ rtCmd'.at \in RtOther /\ rtCmd'.gen = rtCmd.gen /\ rtCmd'.driver = rtCmd.driver
      BY <1>1, <2>4 DEF RtIsCmd, RtOther
    <3> QED
      BY <1>1, <2>1, <3>1, RtStages DEF RtCmdMove, RtCmdOK
  <2> QED
    BY <1>6, <2>2, <2>3, <2>4 DEF RejectBegin, RejectMark, RejectDone
<1> QED
  BY <1>3, <1>4, <1>5, <1>6, RtLessInv

\* What ClaimApply does when it makes no session.
RtRefuses ==
  \/ rtDriver' = ShutDriver(rtCmd.driver) /\ rtCmd' = CmdIdle
  \/ rtCmd' = [rtCmd EXCEPT !.at = "claim_rollback", !.gen = rtSession.gen]

LEMMA RtClaimQuietInv ==
  ASSUME RtInv, RtTasks',
         \/ \E ok \in BOOLEAN, d \in RtDrivers : ClaimDriver(ok, d)
         \/ rtCmd.at = "claim_apply" /\ RtRefuses /\ UNCHANGED <<rtOffers, rtSession, rtGen, rtMedia>>
         \/ ClaimSpawn \/ (\E ok \in BOOLEAN : ClaimSend(ok)) \/ ClaimCancel \/ ClaimRollback
  PROVE  RtInv'
<1>1. RtIsCmd(rtCmd) /\ RtCmdOK(rtCmd, rtGen) /\ rtGen \in Nat /\ RtDrivers \subseteq 0 .. RtMaxDrivers
  BY RealtimeAssumption DEF RtInv, RtTyped, RtCmdOK, RtDrivers
<1>2. RtSessLess
  BY RtSame DEF ClaimDriver, ClaimSpawn, ClaimSend, ClaimCancel, ClaimRollback, DropResponder
<1>3. RtOffersLess
  <2>1. CASE (\E ok \in BOOLEAN, d \in RtDrivers : ClaimDriver(ok, d)) \/ ClaimRollback
    <3>1. TakeClaim \/ UNCHANGED rtBinding
      BY <2>1 DEF ClaimDriver, ClaimRollback
    <3>2. UNCHANGED <<rtRequest, rtEpoch, rtToken, rtReplay, rtPublished, rtFate, rtAccepted>>
      BY <2>1 DEF ClaimDriver, ClaimRollback, rtGhost
    <3> QED
      BY <3>1, <3>2, RtTakeClaims, RtWithdraws DEF RtOffersLess
  <2> QED
    BY <2>1, RtSame DEF ClaimSpawn, ClaimSend, ClaimCancel
<1>4. RtCmdMove /\ RtCmdOK(rtCmd', rtGen)
  <2>1. CASE \E ok \in BOOLEAN, d \in RtDrivers : ClaimDriver(ok, d)
    <3>1. PICK d \in RtDrivers : \E ok \in BOOLEAN : ClaimDriver(ok, d)
      BY <2>1
    <3>2. rtCmd.at = "claim_driver" /\ rtCmd.at \in RtClaiming /\ "claim_apply" \in RtClaiming
      BY <3>1 DEF ClaimDriver, RtClaiming
    <3>3. CASE rtCmd' = CmdIdle
      BY <3>2, <3>3, RtStages, RtGoesIdle
    <3>4. CASE rtCmd' = [rtCmd EXCEPT !.at = "claim_apply", !.driver = d]
      <4>1. /\ RtIsCmd(rtCmd') /\ rtCmd'.at = "claim_apply" /\ rtCmd'.gen = rtCmd.gen /\ rtCmd'.driver = d
            /\ rtCmd'.token = rtCmd.token /\ rtCmd'.ice = rtCmd.ice
        BY <1>1, <3>4 DEF RtIsCmd
      <4> QED
        BY <1>1, <3>2, <4>1 DEF RtCmdMove, RtCmdOK
    <3> QED
      BY <3>1, <3>3, <3>4 DEF ClaimDriver
  <2>2. CASE rtCmd.at = "claim_apply" /\ RtRefuses
    <3>1. CASE rtCmd' = CmdIdle
      BY <2>2, <3>1, RtStages, RtGoesIdle
    <3>2. CASE rtCmd' = [rtCmd EXCEPT !.at = "claim_rollback", !.gen = rtSession.gen]
      <4>1. RtIsCmd(rtCmd') /\ rtCmd'.at = "claim_rollback" /\ rtCmd'.gen = rtSession.gen /\ rtCmd'.driver = rtCmd.driver
        BY <1>1, <3>2 DEF RtIsCmd
      <4>2. rtSession.gen \in 0 .. rtGen
        BY DEF RtInv, RtTyped, RtSessionOK
      <4> QED
        BY <1>1, <2>2, <4>1, <4>2, RtStages DEF RtCmdMove, RtCmdOK
    <3> QED
      BY <2>2, <3>1, <3>2 DEF RtRefuses
  <2>3. CASE ClaimSpawn \/ (\E ok \in BOOLEAN : ClaimSend(ok)) \/ ClaimCancel
    <3>1. PICK x \in RtAfter : rtCmd' = [rtCmd EXCEPT !.at = x] /\ (x \in RtRunning => rtCmd.at \in RtRunning)
      BY <2>3 DEF ClaimSpawn, ClaimSend, ClaimCancel, RtAfter, RtRunning
    <3>2. rtCmd.at \in RtAfter
      BY <2>3 DEF ClaimSpawn, ClaimSend, ClaimCancel, RtAfter, RtRunning
    <3>3. RtIsCmd(rtCmd') /\ rtCmd'.at = x /\ rtCmd'.gen = rtCmd.gen /\ rtCmd'.driver = rtCmd.driver
      BY <1>1, <3>1 DEF RtIsCmd
    <3> QED
      BY <1>1, <3>1, <3>2, <3>3 DEF RtCmdMove, RtCmdOK
  <2>4. CASE ClaimRollback
    <3>1. RtCmdMove
      BY <2>4 DEF ClaimRollback, RtCmdMove, DropResponder, DropSession
    <3>2. rtCmd' = CmdIdle
      BY <2>4 DEF ClaimRollback
    <3> QED
      BY <1>1, <3>1, <3>2, RtBlank, RtStages, RealtimeAssumption DEF RtCmdOK
  <2> QED
    BY <2>1, <2>2, <2>3, <2>4
<1> QED
  BY <1>2, <1>3, <1>4, RtLessInv

-----------------------------------------------------------------------------
(* Realtime: the session                                                   *)

\* The offers, and what is remembered of them, stay.
RtOffersStay == UNCHANGED <<rtBinding, rtRequest, rtEpoch, rtToken, rtReplay, rtPublished, rtFate>>

LEMMA RtOffersAreKept ==
  ASSUME RtInv, RtOffersStay
  PROVE  /\ rtToken' \in Nat /\ rtEpoch' \in Nat
         /\ RtBindingOK(rtBinding', rtToken', rtEpoch') /\ RtRequestOK(rtRequest', rtEpoch')
         /\ ~(HasBinding /\ HasRequest)' /\ RtReplayOK(rtReplay')
         /\ rtFate' \in [committed : SUBSET (1 .. rtToken'), withdrawn : SUBSET (1 .. rtToken')]
         /\ rtPublished' \in [RtOps -> Nat] /\ RtFateOK' /\ RtShown'
<1>1. RtTyped /\ RtFateOK /\ RtShown
  BY DEF RtInv
<1>2. RtFateOK'
  BY <1>1 DEF RtFateOK, RtOffersStay, HasBinding
<1>3. RtShown'
  BY <1>1 DEF RtShown, RtOffersStay, HasRequest
<1> QED
  BY <1>1, <1>2, <1>3 DEF RtTyped, RtOffersStay, HasBinding, HasRequest

\* A session that no claim made gets the id.
RtPlain ==
  /\ ~HasSession /\ rtGen' = rtGen + 1 /\ RtSessionOK(rtSession', rtGen') /\ rtSession'.gen = rtGen + 1
  /\ rtSession'.token = 0 /\ UNCHANGED <<rtMedia, rtAccepted>>
RtCmdStays == UNCHANGED rtCmd \/ (rtCmd'.at \in RtOther /\ RtCmdOK(rtCmd', rtGen))

LEMMA RtPlainInv ==
  ASSUME RtInv, RtTasks', RtPlain, RtOffersStay, RtCmdStays
  PROVE  RtInv'
<1>1. RtTyped /\ RtMediaOK /\ RtOwned /\ RtQueued
  BY DEF RtInv
<1>2. rtGen \in Nat /\ rtGen' = rtGen + 1 /\ rtCmd.gen \in 0 .. rtGen /\ RtCmdOK(rtCmd, rtGen)
  BY <1>1 DEF RtTyped, RtCmdOK, RtPlain
<1>3. RtCmdOK(rtCmd', rtGen')
  <2>1. RtCmdOK(rtCmd', rtGen)
    BY <1>2 DEF RtCmdStays
  <2> QED
    BY <1>2, <2>1 DEF RtCmdOK
<1>4. rtMedia' = {}
  BY <1>1 DEF RtMediaOK, RtPlain, HasSession
<1>5. rtCmd'.at \in RtRunning => UNCHANGED rtCmd /\ rtSession'.gen # rtCmd'.gen
  BY <1>2, RtStages DEF RtPlain, RtCmdStays
<1>6. RtOwned'
  BY <1>1, <1>5 DEF RtOwned, RtPlain
<1>7. RtQueued'
  <2>1. HasBinding' <=> HasBinding
    BY DEF HasBinding, RtOffersStay
  <2>2. rtCmd'.at \in RtClaiming => UNCHANGED rtCmd
    BY RtStages DEF RtCmdStays
  <2>3. UNCHANGED <<rtBinding, rtAccepted>>
    BY DEF RtOffersStay, RtPlain
  <2> QED
    BY <1>1, <1>5, <2>1, <2>2, <2>3 DEF RtQueued, RtAcceptedFor
<1>8. RtApplied'
  <2>1. 0 \notin rtFate'.committed
    BY <1>1 DEF RtOffersStay, RtTyped
  <2> QED
    BY <2>1 DEF RtApplied, RtPlain
<1>9. RtTyped'
  <2>1. rtAccepted' \subseteq (1 .. rtToken') \X RtCands /\ rtGen' \in Nat
    BY <1>1, <1>2 DEF RtTyped, RtPlain, RtOffersStay
  <2> QED
    BY <1>3, <2>1, RtOffersAreKept DEF RtTyped, RtPlain
<1> QED
  BY <1>4, <1>6, <1>7, <1>8, <1>9, RtOffersAreKept DEF RtInv, RtMediaOK

\* The session of the id goes on: it has taken more candidates, or lost those of its offer.
RtGoesOn ==
  /\ HasSession /\ RtIsSession(rtSession') /\ rtSession'.gen = rtSession.gen /\ rtSession'.shared = rtSession.shared
  /\ rtSession'.driver = rtSession.driver /\ rtSession'.token = rtSession.token
  /\ rtAccepted' \subseteq rtAccepted /\ UNCHANGED <<rtGen, rtMedia, rtCmd>>
  /\ rtSession.seen \subseteq rtSession'.seen \/ \A a \in rtAccepted' : a[1] # rtSession.token

LEMMA RtGoesOnInv ==
  ASSUME RtInv, RtTasks', RtGoesOn, RtOffersStay
  PROVE  RtInv'
<1>1. RtTyped /\ RtMediaOK /\ RtOwned /\ RtQueued /\ RtApplied
  BY DEF RtInv
<1>2. \A t : RtAcceptedFor(t)' \subseteq RtAcceptedFor(t)
  BY DEF RtAcceptedFor, RtGoesOn
<1>3. rtSession.seen \subseteq rtSession'.seen \/ RtAcceptedFor(rtSession.token)' = {}
  <2>1. CASE rtSession.seen \subseteq rtSession'.seen
    BY <2>1
  <2>2. CASE \A a \in rtAccepted' : a[1] # rtSession.token
    <3>1. rtSession'.token = rtSession.token
      BY DEF RtGoesOn
    <3> QED
      BY <2>2, <3>1 DEF RtAcceptedFor
  <2> QED
    BY <2>1, <2>2 DEF RtGoesOn
<1>4. /\ rtSession'.token = rtSession.token /\ rtSession'.gen = rtSession.gen /\ rtSession'.shared = rtSession.shared
      /\ rtSession'.driver = rtSession.driver /\ UNCHANGED <<rtGen, rtMedia, rtCmd, rtBinding, rtFate, rtToken>>
  BY DEF RtGoesOn, RtOffersStay
<1>5. RtMediaOK'
  BY <1>1, <1>4 DEF RtMediaOK
<1>6. RtOwned'
  BY <1>1, <1>4 DEF RtOwned, ExactResponder, HasSession
<1>7. RtApplied'
  BY <1>1, <1>2, <1>3, <1>4 DEF RtApplied
<1>8. RtQueued'
  <2>1. HasBinding' <=> HasBinding
    BY <1>4 DEF HasBinding
  <2>2. RtAcceptedFor(rtBinding.token)' \subseteq RtAcceptedFor(rtBinding.token)
    BY <1>2, <1>4
  <2>3. rtCmd.at \in RtRunning /\ rtSession.gen = rtCmd.gen /\ rtBinding.token = rtCmd.token =>
          rtSession.seen \subseteq rtSession'.seen \/ RtAcceptedFor(rtBinding.token)' = {}
    BY <1>1, <1>3, <1>4 DEF RtOwned
  <2> QED
    BY <1>1, <1>4, <2>1, <2>2, <2>3 DEF RtQueued
<1>9. RtTyped'
  <2>1. RtSessionOK(rtSession', rtGen')
    <3>1. RtSessionOK(rtSession, rtGen) /\ rtSession.gen # 0
      BY <1>1 DEF RtTyped, RtGoesOn, HasSession
    <3>2. RtIsSession(rtSession')
      BY DEF RtGoesOn
    <3> QED
      BY <1>4, <3>1, <3>2 DEF RtSessionOK
  <2>2. rtAccepted' \subseteq (1 .. rtToken') \X RtCands /\ rtGen' \in Nat /\ RtCmdOK(rtCmd', rtGen')
    BY <1>1, <1>4 DEF RtTyped, RtGoesOn
  <2> QED
    BY <2>1, <2>2, RtOffersAreKept DEF RtTyped
<1> QED
  BY <1>5, <1>6, <1>7, <1>8, <1>9, RtOffersAreKept DEF RtInv

LEMMA RtEndpointInv ==
  ASSUME RtInv, RtTasks', NEW dir, CreateEndpoint(dir)
  PROVE  RtInv'
<1>1. UNCHANGED <<rtSession, rtGen, rtCmd, rtAccepted>> /\ RtOffersStay
  BY DEF CreateEndpoint, rtOffers, rtGhost, RtOffersStay
<1>2. RtMediaOK'
  BY <1>1 DEF CreateEndpoint, LiveEndpoints, RtMediaOK, HasSession
<1>3. RtOwned' /\ RtApplied'
  BY <1>1 DEF RtInv, RtOwned, RtApplied, RtOffersStay, RtAcceptedFor, ExactResponder, HasSession
<1>4. RtQueued'
  BY <1>1 DEF RtInv, RtQueued, RtOffersStay, RtAcceptedFor, HasBinding
<1>5. RtTyped'
  BY <1>1, RtOffersAreKept DEF RtInv, RtTyped, RtOffersStay
<1> QED
  BY <1>1, <1>2, <1>3, <1>4, <1>5, RtOffersAreKept DEF RtInv

LEMMA RtStartInsertInv ==
  ASSUME RtInv, RtTasks', StartInsert, ~HasSession
  PROVE  RtInv'
<1>1. RtIsCmd(rtCmd) /\ RtCmdOK(rtCmd, rtGen) /\ rtGen \in Nat
  BY DEF RtInv, RtTyped, RtCmdOK
<1>2. RtOffersStay /\ UNCHANGED <<rtMedia, rtAccepted>>
  BY DEF StartInsert, rtOffers, rtGhost, RtOffersStay
<1>3. PICK c, r : /\ InsertSession([NoRtSession EXCEPT !.shared = rtCmd.driver, !.driver = rtCmd.driver,
                                      !.conn = c, !.rev = r, !.iceRev = r])
                  /\ rtCmd' = [rtCmd EXCEPT !.at = "start_send"]
  BY DEF StartInsert
<1>4. /\ RtIsSession(rtSession') /\ rtSession'.gen = rtGen + 1 /\ rtSession'.token = 0 /\ rtSession'.driver = rtCmd.driver
      /\ rtGen' = rtGen + 1
  BY <1>3 DEF InsertSession, NoRtSession, RtIsSession
<1>5. RtPlain
  BY <1>1, <1>2, <1>4 DEF RtPlain, RtSessionOK, RtCmdOK
<1>6. RtIsCmd(rtCmd') /\ rtCmd'.at = "start_send" /\ rtCmd'.gen = rtCmd.gen /\ rtCmd'.driver = rtCmd.driver
  BY <1>1, <1>3 DEF RtIsCmd
<1>7. RtCmdStays
  BY <1>1, <1>6 DEF RtCmdStays, RtCmdOK, RtOther
<1> QED
  BY <1>2, <1>5, <1>7, RtPlainInv

LEMMA RtApplyInv ==
  ASSUME RtInv, RtTasks', SigApply
  PROVE  RtInv'
<1> DEFINE g == rtSig.sig
<1> DEFINE d == rtSession.driver
<1>1. RtOffersStay /\ UNCHANGED <<rtMedia, rtCmd>>
  BY DEF SigApply, RtOffersStay
<1>2. RtIsSession(rtSession) /\ rtGen \in Nat
  BY DEF RtInv, RtTyped, RtSessionOK
<1>3. CASE /\ HasSession /\ rtSession' = [rtSession EXCEPT !.seen = @ \cup {g.cand}] /\ UNCHANGED <<rtGen, rtAccepted>>
  <2>1. /\ RtIsSession(rtSession') /\ rtSession'.gen = rtSession.gen /\ rtSession'.shared = rtSession.shared
        /\ rtSession'.driver = rtSession.driver /\ rtSession'.token = rtSession.token
        /\ rtSession.seen \subseteq rtSession'.seen
    BY <1>2, <1>3 DEF RtIsSession
  <2>2. RtGoesOn
    BY <1>1, <1>3, <2>1 DEF RtGoesOn
  <2> QED
    BY <1>1, <2>2, RtGoesOnInv
<1>4. CASE /\ HasSession /\ rtSession' = Negotiated(g, DriverAfter(g, rtDriver[d])) /\ UNCHANGED rtGen
           /\ rtAccepted' = IF g.kind = "answer" THEN rtAccepted ELSE {a \in rtAccepted : a[1] # rtSession.token}
  <2>1. PICK r, q, i : rtSession' = [rtSession EXCEPT !.rev = r, !.remoteRev = q, !.iceRev = i,
                                       !.seen = IF g.kind = "answer" THEN @ ELSE {}]
    BY <1>4 DEF Negotiated
  <2>2. /\ RtIsSession(rtSession') /\ rtSession'.gen = rtSession.gen /\ rtSession'.shared = rtSession.shared
        /\ rtSession'.driver = rtSession.driver /\ rtSession'.token = rtSession.token
        /\ g.kind = "answer" => rtSession.seen \subseteq rtSession'.seen
    BY <1>2, <2>1 DEF RtIsSession
  <2>3. RtGoesOn
    BY <1>1, <1>4, <2>2 DEF RtGoesOn
  <2> QED
    BY <1>1, <2>3, RtGoesOnInv
<1>5. CASE /\ ~HasSession /\ InsertSession(Responder(g.shared, rtSig.driver, g.rev, {}, 0)) /\ UNCHANGED rtAccepted
  <2>1. /\ RtIsSession(rtSession') /\ rtSession'.gen = rtGen + 1 /\ rtSession'.token = 0 /\ rtSession'.driver = rtSig.driver
        /\ rtGen' = rtGen + 1
    BY <1>5 DEF InsertSession, Responder, NoRtSession, RtIsSession
  <2>2. rtSig.driver \in 0 .. RtMaxDrivers
    BY DEF RtInv, RtTasks
  <2>3. RtPlain
    BY <1>1, <1>2, <1>5, <2>1, <2>2 DEF RtPlain, RtSessionOK
  <2> QED
    BY <1>1, <2>3, RtPlainInv DEF RtCmdStays
<1>6. CASE UNCHANGED <<rtSession, rtGen, rtAccepted>>
  <2>1. RtSessLess /\ RtOffersLess
    BY <1>1, <1>6, RtSame, RtWithdraws DEF RtOffersLess, RtOffersStay
  <2> QED
    BY <1>1, <2>1, RtQuiet
<1> QED
  BY <1>3, <1>4, <1>5, <1>6 DEF SigApply

-----------------------------------------------------------------------------
(* Realtime: the offers                                                    *)

LEMMA RtAround ==
  ASSUME RtInv, UNCHANGED <<rtSession, rtGen, rtMedia, rtCmd>>, rtFate'.committed = rtFate.committed
  PROVE  RtMediaOK' /\ RtOwned' /\ RtSessionOK(rtSession', rtGen') /\ RtCmdOK(rtCmd', rtGen') /\ rtGen' \in Nat
<1>1. RtMediaOK' /\ RtOwned'
  BY DEF RtInv, RtMediaOK, RtOwned, ExactResponder, HasSession
<1> QED
  BY <1>1 DEF RtInv, RtTyped

LEMMA RtPrunesFate ==
  ASSUME RtInv
  PROVE  /\ PrunedFate \in [committed : SUBSET (1 .. rtToken), withdrawn : SUBSET (1 .. rtToken)]
         /\ PrunedFate.committed = rtFate.committed /\ PrunedFate.committed \cap PrunedFate.withdrawn = {}
<1>1. rtFate \in [committed : SUBSET (1 .. rtToken), withdrawn : SUBSET (1 .. rtToken)] /\ rtToken \in Nat
  BY DEF RtInv, RtTyped
<1>2. rtFate.committed \cap rtFate.withdrawn = {} /\ (HasBinding => rtBinding.token \notin rtFate.committed)
  BY DEF RtInv, RtFateOK
<1>3. rtBinding.due => HasBinding
  BY RtPruned
<1>4. HasBinding => rtBinding.token \in 1 .. rtToken
  BY <1>1 DEF RtInv, RtTyped, RtBindingOK, HasBinding
<1> QED
  BY <1>1, <1>2, <1>3, <1>4 DEF PrunedFate

LEMMA RtPublishes ==
  ASSUME rtPublished \in [RtOps -> Nat], NEW op, Publish(op)
  PROVE  /\ rtPublished' \in [RtOps -> Nat]
         /\ \A o \in RtOps : rtPublished'[o] = IF o = op THEN rtPublished[o] + 1 ELSE rtPublished[o]
<1>1. CASE op \in RtOps
  BY <1>1 DEF Publish
<1>2. CASE op \notin RtOps
  <2>1. rtPublished' = rtPublished
    BY <1>2 DEF Publish
  <2> QED
    BY <1>2, <2>1
<1> QED
  BY <1>1, <1>2

LEMMA RtTakeOfferInv ==
  ASSUME RtInv, RtTasks', UNCHANGED <<rtFormal, rtCmd>>, NEW g, OfferFits(g), TakeOffer(g)
  PROVE  RtInv'
<1>1. UNCHANGED <<rtSession, rtGen, rtMedia, rtCmd, rtReplay, rtAccepted>> /\ rtFate' = PrunedFate /\ rtToken' = rtToken + 1
      /\ rtRequest' = NoRequest
  BY DEF rtFormal, TakeOffer, RequestTaken
<1>2. rtToken \in Nat /\ rtEpoch \in Nat /\ rtRequest.epoch \in 0 .. rtEpoch
  BY DEF RtInv, RtTyped, RtRequestOK
<1>3. PICK e \in Nat : /\ rtEpoch' = RtMaximum(rtEpoch, e) /\ e \in 0 .. rtEpoch + 1
                       /\ rtBinding' = [NoBinding EXCEPT !.token = rtToken + 1, !.epoch = e, !.shared = g.shared,
                                          !.rev = g.rev, !.op = PrunedRequest.op, !.state = "pending",
                                          !.published = (PrunedRequest # NoRequest)]
  <2> DEFINE e == IF PrunedRequest # NoRequest THEN rtRequest.epoch ELSE rtEpoch + 1
  <2>1. e \in Nat /\ e \in 0 .. rtEpoch + 1
    BY <1>2
  <2>2. /\ rtEpoch' = RtMaximum(rtEpoch, e)
        /\ rtBinding' = [NoBinding EXCEPT !.token = rtToken + 1, !.epoch = e, !.shared = g.shared,
                           !.rev = g.rev, !.op = PrunedRequest.op, !.state = "pending",
                           !.published = (PrunedRequest # NoRequest)]
    BY DEF TakeOffer
  <2> QED
    BY <2>1, <2>2
<1>4. rtEpoch' \in Nat /\ e \in 0 .. rtEpoch'
  BY <1>2, <1>3 DEF RtMaximum
<1>5. /\ RtIsBinding(rtBinding') /\ rtBinding'.token = rtToken + 1 /\ rtBinding'.epoch = e /\ rtBinding'.ice = <<>>
      /\ rtBinding'.state = "pending"
  BY <1>3 DEF NoBinding, RtIsBinding
<1>6. RtBindingOK(rtBinding', rtToken', rtEpoch')
  <2>1. <<>> \in Seq(RtCands) /\ Len(<<>>) = 0 /\ RtMaxIce \in Nat
    BY EmptySeq, RealtimeAssumption
  <2> QED
    BY <1>1, <1>2, <1>4, <1>5, <2>1 DEF RtBindingOK
<1>7. /\ PrunedFate \in [committed : SUBSET (1 .. rtToken), withdrawn : SUBSET (1 .. rtToken)]
      /\ PrunedFate.committed = rtFate.committed /\ PrunedFate.committed \cap PrunedFate.withdrawn = {}
  BY RtPrunesFate
<1>8. RtFateOK'
  <2>1. rtToken + 1 \notin 1 .. rtToken
    BY <1>2
  <2> QED
    BY <1>1, <1>5, <1>7, <2>1 DEF RtFateOK
<1>9. rtPublished' \in [RtOps -> Nat] /\ RtShown'
  <2>1. rtPublished \in [RtOps -> Nat] /\ RtShown
    BY DEF RtInv, RtTyped
  <2>2. ~HasRequest'
    BY <1>1, RtBlank DEF HasRequest
  <2>3. CASE UNCHANGED rtPublished
    BY <1>1, <2>1, <2>2, <2>3 DEF RtShown
  <2>4. CASE PrunedRequest # NoRequest /\ Publish(rtRequest.op)
    <3>1. HasRequest
      BY <2>4, RtPruned
    <3>2. RequestKey(rtRequest.op) \in rtReplay /\ (rtRequest.op \in RtOps => rtPublished[rtRequest.op] = 0)
      BY <2>1, <3>1 DEF RtShown
    <3>3. /\ rtPublished' \in [RtOps -> Nat]
          /\ \A o \in RtOps : rtPublished'[o] = IF o = rtRequest.op THEN rtPublished[o] + 1 ELSE rtPublished[o]
      BY <2>1, <2>4, RtPublishes
    <3> QED
      BY <1>1, <2>1, <2>2, <3>2, <3>3 DEF RtShown
  <2> QED
    BY <2>3, <2>4 DEF TakeOffer
<1>10. RtTyped'
  <2>1. rtAccepted' \subseteq (1 .. rtToken') \X RtCands
    <3>1. rtAccepted \subseteq (1 .. rtToken) \X RtCands /\ 1 .. rtToken \subseteq 1 .. rtToken'
      BY <1>1, <1>2 DEF RtInv, RtTyped
    <3> QED
      BY <1>1, <3>1
  <2>2. rtFate' \in [committed : SUBSET (1 .. rtToken'), withdrawn : SUBSET (1 .. rtToken')]
    <3>1. 1 .. rtToken \subseteq 1 .. rtToken'
      BY <1>1, <1>2
    <3> QED
      BY <1>1, <1>7, <3>1
  <2>3. RtRequestOK(rtRequest', rtEpoch') /\ ~(HasBinding /\ HasRequest)' /\ RtReplayOK(rtReplay') /\ rtToken' \in Nat
    BY <1>1, <1>2, <1>4, RtNothing, RtBlank DEF HasRequest, RtInv, RtTyped
  <2> QED
    BY <1>1, <1>4, <1>6, <1>7, <1>9, <2>1, <2>2, <2>3, RtAround DEF RtTyped
<1>11. RtQueued'
  <2>1. rtAccepted' \subseteq (1 .. rtToken) \X RtCands
    BY <1>1 DEF RtInv, RtTyped
  <2>2. \A a \in rtAccepted' : a[1] # rtBinding'.token
    BY <1>2, <1>5, <2>1
  <2>3. RtAcceptedFor(rtBinding.token)' = {}
    BY <2>2 DEF RtAcceptedFor
  <2> QED
    BY <2>3 DEF RtQueued
<1>12. RtApplied'
  BY <1>1, <1>7 DEF RtInv, RtApplied, RtAcceptedFor
<1> QED
  BY <1>1, <1>7, <1>8, <1>9, <1>10, <1>11, <1>12, RtAround DEF RtInv

LEMMA RtQueueIceInv ==
  ASSUME RtInv, RtTasks', UNCHANGED <<rtFormal, rtCmd>>, NEW g, g.cand \in RtCands, IceFits(g), QueueIce(g)
  PROVE  RtInv'
<1>1. /\ UNCHANGED <<rtSession, rtGen, rtMedia, rtCmd, rtReplay, rtEpoch, rtToken, rtPublished, rtFate>>
      /\ rtAccepted' = rtAccepted \cup {<<rtBinding.token, g.cand>>} /\ rtRequest' = PrunedRequest
      /\ rtBinding' = [rtBinding EXCEPT !.ice = Append(@, g.cand)]
  BY DEF rtFormal, QueueIce
<1>2. /\ rtToken \in Nat /\ rtEpoch \in Nat /\ RtIsBinding(rtBinding) /\ rtBinding.token \in 0 .. rtToken
      /\ rtBinding.ice \in Seq(RtCands) /\ RtBindingOK(rtBinding, rtToken, rtEpoch)
  BY DEF RtInv, RtTyped, RtBindingOK
<1>3. HasBinding /\ Len(rtBinding.ice) < RtMaxIce
  BY RtPruned DEF IceFits
<1>4. /\ RtIsBinding(rtBinding') /\ rtBinding'.token = rtBinding.token /\ rtBinding'.epoch = rtBinding.epoch
      /\ rtBinding'.state = rtBinding.state /\ rtBinding'.ice = Append(rtBinding.ice, g.cand)
  BY <1>1, <1>2 DEF RtIsBinding
<1>5. Append(rtBinding.ice, g.cand) \in Seq(RtCands) /\ Len(Append(rtBinding.ice, g.cand)) = Len(rtBinding.ice) + 1
  BY <1>2, AppendProperties
<1>6. RtIceOf(Append(rtBinding.ice, g.cand)) = RtIceOf(rtBinding.ice) \cup {g.cand}
  BY <1>2, AppendProperties DEF RtIceOf
<1>7. RtBindingOK(rtBinding', rtToken', rtEpoch')
  <2>1. Len(rtBinding.ice) \in Nat /\ RtMaxIce \in Nat
    BY <1>2, LenProperties, RealtimeAssumption
  <2>2. Len(rtBinding'.ice) <= RtMaxIce
    BY <1>3, <1>4, <1>5, <2>1
  <2> QED
    BY <1>1, <1>2, <1>3, <1>4, <1>5, <2>2 DEF RtBindingOK, HasBinding
<1>8. rtRequest' = rtRequest /\ ~HasRequest
  <2>1. ~HasRequest
    BY <1>3 DEF RtInv, RtTyped
  <2> QED
    BY <1>1, <2>1, RtPruned DEF HasRequest, PrunedRequest
<1>9. RtFateOK' /\ RtShown'
  <2>1. RtFateOK /\ RtShown
    BY DEF RtInv
  <2>2. RtFateOK'
    BY <1>1, <1>3, <1>4, <2>1 DEF RtFateOK
  <2>3. RtShown'
    BY <1>1, <1>8, <2>1 DEF RtShown, HasRequest
  <2> QED
    BY <2>2, <2>3
<1>10. RtTyped'
  <2>1. rtAccepted' \subseteq (1 .. rtToken') \X RtCands
    BY <1>1, <1>2, <1>3 DEF RtInv, RtTyped, HasBinding
  <2>2. RtRequestOK(rtRequest', rtEpoch') /\ ~(HasBinding /\ HasRequest)' /\ RtReplayOK(rtReplay')
        /\ rtFate' \in [committed : SUBSET (1 .. rtToken'), withdrawn : SUBSET (1 .. rtToken')]
        /\ rtPublished' \in [RtOps -> Nat]
    BY <1>1, <1>8 DEF RtInv, RtTyped, HasRequest
  <2> QED
    BY <1>1, <1>2, <1>7, <2>1, <2>2, RtAround DEF RtTyped
<1>11. \A t : t # rtBinding.token => RtAcceptedFor(t)' = RtAcceptedFor(t)
  BY <1>1 DEF RtAcceptedFor
<1>12. RtAcceptedFor(rtBinding.token)' \subseteq RtAcceptedFor(rtBinding.token) \cup {g.cand}
  <2>1. \A t : RtAcceptedFor(t)' \subseteq RtAcceptedFor(t) \cup {g.cand}
    <3>1. \A x \in rtAccepted' : x \in rtAccepted \/ x[2] = g.cand
      BY <1>1
    <3> QED
      BY <3>1 DEF RtAcceptedFor
  <2> QED
    BY <1>4, <2>1
<1>13. RtApplied'
  <2>1. RtApplied /\ rtBinding.token \notin rtFate.committed
    BY <1>3 DEF RtInv, RtFateOK
  <2> QED
    BY <1>1, <1>11, <2>1 DEF RtApplied
<1>14. RtQueued'
  <2>1. RtQueued
    BY DEF RtInv
  <2> QED
    BY <1>1, <1>3, <1>4, <1>6, <1>12, <2>1 DEF RtQueued
<1> QED
  BY <1>1, <1>9, <1>10, <1>13, <1>14, RtAround DEF RtInv

LEMMA RtTakeRequestInv ==
  ASSUME RtInv, RtTasks', UNCHANGED <<rtFormal, rtCmd>>, NEW g, RequestFits(g), TakeRequest(g)
  PROVE  RtInv'
<1>1. /\ UNCHANGED <<rtSession, rtGen, rtMedia, rtCmd, rtToken, rtAccepted>> /\ rtFate' = PrunedFate
      /\ rtReplay' = rtReplay \cup {RequestKey(g.op)} /\ RequestKey(g.op) \notin rtReplay
  BY DEF rtFormal, TakeRequest, RequestFits, CanRemember
<1>2. /\ rtToken \in Nat /\ rtEpoch \in Nat /\ RtIsBinding(rtBinding) /\ RtBindingOK(rtBinding, rtToken, rtEpoch)
      /\ rtPublished \in [RtOps -> Nat] /\ RtRequestOK(rtRequest, rtEpoch) /\ rtAccepted \subseteq (1 .. rtToken) \X RtCands
  BY DEF RtInv, RtTyped, RtBindingOK
<1>3. RtReplayOK(rtReplay')
  <2>1. RtReplayOK(rtReplay) /\ RtReplayMore
    BY <1>1 DEF RtInv, RtTyped, RtReplayMore, RequestFits
  <2> QED
    BY <2>1, RtReplayGrows
<1>4. RtShown /\ RtQueued /\ RtApplied
  BY DEF RtInv
<1>5. /\ PrunedFate \in [committed : SUBSET (1 .. rtToken), withdrawn : SUBSET (1 .. rtToken)]
      /\ PrunedFate.committed = rtFate.committed /\ PrunedFate.committed \cap PrunedFate.withdrawn = {}
  BY RtPrunesFate
<1>6. RtApplied'
  BY <1>1, <1>4, <1>5 DEF RtApplied, RtAcceptedFor
<1>7. \A o \in RtOps : o = g.op => rtPublished[o] = 0
  BY <1>1, <1>2, <1>4 DEF RtShown
<1>8. CASE PrunedBinding # NoBinding
  <2>1. HasBinding /\ PrunedFate = rtFate
    BY <1>8, RtPruned
  <2>2. ~HasRequest /\ rtRequest = NoRequest
    BY <2>1, RtPruned DEF RtInv, RtTyped, HasRequest
  <2>3. /\ rtBinding' = [rtBinding EXCEPT !.op = g.op, !.published = TRUE] /\ rtRequest' = rtRequest /\ rtEpoch' = rtEpoch
        /\ UNCHANGED rtPublished \/ Publish(g.op)
    BY <1>8, <2>2 DEF TakeRequest, PrunedRequest
  <2>4. /\ RtIsBinding(rtBinding') /\ rtBinding'.token = rtBinding.token /\ rtBinding'.epoch = rtBinding.epoch
        /\ rtBinding'.state = rtBinding.state /\ rtBinding'.ice = rtBinding.ice
    BY <1>2, <2>3 DEF RtIsBinding
  <2>5. RtBindingOK(rtBinding', rtToken', rtEpoch')
    BY <1>1, <1>2, <2>1, <2>3, <2>4 DEF RtBindingOK, HasBinding
  <2>6. RtFateOK'
    BY <1>1, <2>1, <2>4 DEF RtInv, RtFateOK
  <2>7. rtPublished' \in [RtOps -> Nat] /\ RtShown'
    <3>1. ~HasRequest'
      BY <2>2, <2>3 DEF HasRequest
    <3>2. CASE UNCHANGED rtPublished
      BY <1>1, <1>2, <1>4, <3>1, <3>2 DEF RtShown
    <3>3. CASE Publish(g.op)
      <4>1. /\ rtPublished' \in [RtOps -> Nat]
            /\ \A o \in RtOps : rtPublished'[o] = IF o = g.op THEN rtPublished[o] + 1 ELSE rtPublished[o]
        BY <1>2, <3>3, RtPublishes
      <4> QED
        BY <1>1, <1>4, <1>7, <3>1, <4>1 DEF RtShown
    <3> QED
      BY <2>3, <3>2, <3>3
  <2>8. RtQueued'
    BY <1>1, <1>4, <2>4 DEF RtQueued, RtAcceptedFor, HasBinding
  <2>9. RtTyped'
    <3>1. RtRequestOK(rtRequest', rtEpoch') /\ ~(HasBinding /\ HasRequest)'
      BY <1>2, <2>2, <2>3 DEF HasRequest
    <3> QED
      BY <1>1, <1>2, <1>3, <1>5, <2>3, <2>5, <2>7, <3>1, RtAround DEF RtTyped
  <2> QED
    BY <1>1, <1>5, <1>6, <2>6, <2>7, <2>8, <2>9, RtAround DEF RtInv
<1>9. CASE PrunedBinding = NoBinding
  <2>1. /\ rtBinding' = NoBinding /\ rtEpoch' = rtEpoch + 1 /\ UNCHANGED rtPublished
        /\ rtRequest' = [NoRequest EXCEPT !.epoch = rtEpoch + 1, !.shared = g.shared, !.op = g.op]
    BY <1>9 DEF TakeRequest
  <2>2. RtIsRequest(rtRequest') /\ rtRequest'.epoch = rtEpoch + 1 /\ rtRequest'.op = g.op /\ ~HasBinding'
    BY <2>1, RtBlank DEF NoRequest, RtIsRequest, HasBinding
  <2>3. RtRequestOK(rtRequest', rtEpoch') /\ RtBindingOK(rtBinding', rtToken', rtEpoch') /\ rtEpoch' \in Nat
    BY <1>1, <1>2, <2>1, <2>2, RtNothing DEF RtRequestOK
  <2>4. RtFateOK' /\ RtQueued'
    BY <1>1, <1>5, <2>2 DEF RtFateOK, RtQueued
  <2>5. RtShown'
    <3>1. \A o \in RtOps : rtPublished'[o] <= 1 /\ (rtPublished'[o] # 0 => RequestKey(o) \in rtReplay')
      BY <1>1, <1>4, <2>1 DEF RtShown
    <3>2. RequestKey(rtRequest'.op) \in rtReplay' /\ (rtRequest'.op \in RtOps => rtPublished'[rtRequest'.op] = 0)
      BY <1>1, <1>7, <2>1, <2>2
    <3> QED
      BY <3>1, <3>2 DEF RtShown, RequestKey
  <2>6. RtTyped'
    BY <1>1, <1>2, <1>3, <1>5, <2>1, <2>2, <2>3, RtAround DEF RtTyped
  <2> QED
    BY <1>1, <1>5, <1>6, <2>4, <2>5, <2>6, RtAround DEF RtInv
<1> QED
  BY <1>8, <1>9

LEMMA RtProvisionalInv ==
  ASSUME RtInv, RtTasks', SigProvisional
  PROVE  RtInv'
<1> DEFINE g == rtSig.sig
<1>1. UNCHANGED <<rtFormal, rtCmd>>
  BY DEF SigProvisional
<1>2. g.cand \in RtCands
  BY DEF RtInv, RtTasks, RtCands, NoSignal
<1>3. CASE OfferFits(g) /\ TakeOffer(g)
  BY <1>1, <1>3, RtTakeOfferInv
<1>4. CASE IceFits(g) /\ QueueIce(g)
  BY <1>1, <1>2, <1>4, RtQueueIceInv
<1>5. CASE RequestFits(g) /\ TakeRequest(g)
  BY <1>1, <1>5, RtTakeRequestInv
<1>6. CASE (CancelFits(g) /\ TakeCancel(g)) \/ (CloseFits(g) /\ TakeClose(g)) \/ OnlyPrune
  BY <1>1, <1>6, RtTakesInv
<1> QED
  BY <1>3, <1>4, <1>5, <1>6 DEF SigProvisional

-----------------------------------------------------------------------------
(* Realtime: the claim                                                     *)

LEMMA RtClaimBeginInv ==
  ASSUME RtInv, RtTasks', ClaimBegin(rtBinding.token)
  PROVE  RtInv'
<1>1. /\ UNCHANGED <<rtSession, rtGen, rtMedia, rtRequest, rtEpoch, rtToken, rtReplay, rtPublished, rtFate, rtAccepted>>
      /\ rtCmd.at = "idle" /\ rtBinding.state = "pending"
      /\ rtBinding' = [rtBinding EXCEPT !.state = "claiming", !.ice = <<>>]
      /\ rtCmd' = [CmdIdle EXCEPT !.at = "claim_driver", !.token = rtBinding.token, !.epoch = rtBinding.epoch,
                     !.shared = rtBinding.shared, !.rev = rtBinding.rev, !.ice = rtBinding.ice]
  BY DEF ClaimBegin, rtFormal, rtGhost, RtIdle, CanClaim
<1>2. /\ rtToken \in Nat /\ rtEpoch \in Nat /\ rtGen \in Nat /\ RtIsBinding(rtBinding)
      /\ RtBindingOK(rtBinding, rtToken, rtEpoch)
  BY DEF RtInv, RtTyped, RtBindingOK
<1>3. HasBinding
  BY <1>1, RtPruned, RtBlank DEF HasBinding
<1>4. /\ RtIsBinding(rtBinding') /\ rtBinding'.token = rtBinding.token /\ rtBinding'.epoch = rtBinding.epoch
      /\ rtBinding'.state = "claiming" /\ rtBinding'.ice = <<>>
  BY <1>1, <1>2 DEF RtIsBinding
<1>5. /\ RtIsCmd(rtCmd') /\ rtCmd'.at = "claim_driver" /\ rtCmd'.token = rtBinding.token /\ rtCmd'.ice = rtBinding.ice
      /\ rtCmd'.gen = 0 /\ rtCmd'.driver = 0
  BY <1>1 DEF CmdIdle, RtIsCmd
<1>6. rtCmd'.at \notin RtAfter /\ rtCmd'.at \notin RtRunning /\ rtCmd.at \notin RtAfter /\ rtCmd'.at \in RtClaiming
  BY <1>1, <1>5 DEF RtAfter, RtRunning, RtClaiming
<1>7. RtTyped'
  <2>1. RtBindingOK(rtBinding', rtToken', rtEpoch')
    <3>1. <<>> \in Seq(RtCands) /\ Len(<<>>) = 0 /\ RtMaxIce \in Nat
      BY EmptySeq, RealtimeAssumption
    <3> QED
      BY <1>1, <1>2, <1>3, <1>4, <3>1 DEF RtBindingOK, HasBinding
  <2>2. RtCmdOK(rtCmd', rtGen')
    BY <1>1, <1>2, <1>5, <1>6, RealtimeAssumption DEF RtCmdOK
  <2>3. ~HasRequest'
    BY <1>1, <1>3 DEF RtInv, RtTyped, HasRequest
  <2> QED
    BY <1>1, <2>1, <2>2, <2>3 DEF RtInv, RtTyped
<1>8. RtMediaOK' /\ RtFateOK' /\ RtShown'
  BY <1>1, <1>3, <1>4 DEF RtInv, RtMediaOK, RtFateOK, RtShown, HasRequest
<1>9. RtOwned' /\ RtApplied'
  BY <1>1, <1>6 DEF RtInv, RtOwned, RtApplied, RtAcceptedFor
<1>10. RtQueued'
  <2>1. RtAcceptedFor(rtBinding.token) \subseteq RtIceOf(rtBinding.ice)
    BY <1>1, <1>3 DEF RtInv, RtQueued
  <2>2. RtAcceptedFor(rtBinding.token)' = RtAcceptedFor(rtBinding.token)
    BY <1>1, <1>4 DEF RtAcceptedFor
  <2> QED
    BY <1>4, <1>5, <1>6, <2>1, <2>2 DEF RtQueued
<1> QED
  BY <1>7, <1>8, <1>9, <1>10 DEF RtInv

\* The claim makes its session.
RtClaims(x) ==
  /\ ExactClaiming /\ ~HasSession
  /\ InsertSession(Responder(rtCmd.shared, rtCmd.driver, rtCmd.rev, {rtCmd.ice[i] : i \in DOMAIN rtCmd.ice}, rtCmd.token))
  /\ \E r : rtCmd' = [rtCmd EXCEPT !.at = x, !.gen = rtGen + 1, !.rev = r]
  /\ UNCHANGED <<rtMedia, rtAccepted>> /\ RtOffersStay

LEMMA RtClaimsInv ==
  ASSUME RtInv, RtTasks', rtCmd.at = "claim_apply", NEW x \in {"claim_spawn", "claim_rollback"}, RtClaims(x)
  PROVE  RtInv'
<1>1. RtIsCmd(rtCmd) /\ RtCmdOK(rtCmd, rtGen) /\ rtGen \in Nat /\ rtCmd.driver \in 0 .. RtMaxDrivers
  BY DEF RtInv, RtTyped, RtCmdOK
<1>2. /\ RtIsSession(rtSession') /\ rtSession'.gen = rtGen + 1 /\ rtSession'.token = rtCmd.token
      /\ rtSession'.driver = rtCmd.driver /\ rtSession'.shared = rtCmd.shared /\ rtSession'.seen = RtIceOf(rtCmd.ice)
      /\ rtGen' = rtGen + 1
  BY DEF RtClaims, InsertSession, Responder, NoRtSession, RtIsSession, RtIceOf
<1>3. /\ RtIsCmd(rtCmd') /\ rtCmd'.at = x /\ rtCmd'.gen = rtGen + 1 /\ rtCmd'.token = rtCmd.token
      /\ rtCmd'.driver = rtCmd.driver /\ rtCmd'.shared = rtCmd.shared
  BY <1>1 DEF RtClaims, RtIsCmd
<1>4. rtCmd'.at \in RtAfter /\ rtCmd'.at \notin RtClaiming /\ rtCmd.at \in RtClaiming
  BY <1>3 DEF RtAfter, RtRunning, RtClaiming
<1>5. rtMedia' = {} /\ UNCHANGED <<rtBinding, rtAccepted, rtFate>>
  BY DEF RtInv, RtMediaOK, RtClaims, HasSession, RtOffersStay
<1>6. HasBinding /\ rtBinding.token = rtCmd.token /\ rtBinding.state = "claiming" /\ RtOffersStay
  BY DEF RtClaims, ExactClaiming
<1>7. RtTyped'
  <2>1. RtSessionOK(rtSession', rtGen') /\ RtCmdOK(rtCmd', rtGen') /\ rtGen' \in Nat
    BY <1>1, <1>2, <1>3, <1>4 DEF RtSessionOK, RtCmdOK
  <2>2. rtAccepted' \subseteq (1 .. rtToken') \X RtCands
    BY <1>5, <1>6 DEF RtInv, RtTyped, RtOffersStay
  <2> QED
    BY <1>6, <2>1, <2>2, RtOffersAreKept DEF RtTyped
<1>8. RtOwned'
  BY <1>1, <1>2, <1>3, <1>4 DEF RtOwned, ExactResponder, HasSession
<1>9. RtApplied'
  <2>1. rtBinding.token \notin rtFate.committed
    BY <1>6 DEF RtInv, RtFateOK
  <2> QED
    BY <1>2, <1>5, <1>6, <2>1 DEF RtApplied
<1>10. RtQueued'
  <2>1. RtAcceptedFor(rtBinding.token) \subseteq RtIceOf(rtBinding.ice) \cup RtIceOf(rtCmd.ice)
    BY <1>4, <1>6 DEF RtInv, RtQueued
  <2>2. RtAcceptedFor(rtBinding.token)' = RtAcceptedFor(rtBinding.token)
    BY <1>5 DEF RtAcceptedFor
  <2> QED
    BY <1>2, <1>4, <1>5, <1>6, <2>1, <2>2 DEF RtQueued
<1> QED
  BY <1>5, <1>6, <1>7, <1>8, <1>9, <1>10, RtOffersAreKept DEF RtInv, RtMediaOK

LEMMA RtClaimApplyInv ==
  ASSUME RtInv, RtTasks', NEW o \in {"ok", "bad_offer", "bad_ice"}, ClaimApply(o)
  PROVE  RtInv'
<1>1. rtCmd.at = "claim_apply" /\ UNCHANGED <<rtMedia, rtOffers>>
  BY DEF ClaimApply
<1>2. RtOffersStay /\ UNCHANGED rtAccepted
  BY <1>1 DEF RtOffersStay, rtOffers, rtGhost
<1>3. CASE RtRefuses /\ UNCHANGED <<rtSession, rtGen>>
  BY <1>1, <1>3, RtClaimQuietInv
<1>4. ASSUME ~(RtRefuses /\ UNCHANGED <<rtSession, rtGen>>)
      PROVE  \E x \in {"claim_spawn", "claim_rollback"} : RtClaims(x)
  BY <1>1, <1>2, <1>4 DEF ClaimApply, RtRefuses, RtClaims
<1> QED
  BY <1>1, <1>3, <1>4, RtClaimsInv

LEMMA RtCommitInv ==
  ASSUME RtInv, RtTasks', ClaimCommit, CanCommit
  PROVE  RtInv'
<1>1. /\ rtSession' = [rtSession EXCEPT !.seen = @ \cup QueuedIce] /\ rtBinding' = NoBinding /\ rtCmd' = CmdIdle
      /\ rtFate' = [rtFate EXCEPT !.committed = @ \cup {rtCmd.token}] /\ rtCmd.at = "claim_commit"
      /\ UNCHANGED <<rtGen, rtMedia, rtRequest, rtEpoch, rtToken, rtReplay, rtPublished, rtAccepted>>
  BY DEF ClaimCommit
<1>2. HasBinding /\ rtBinding.token = rtCmd.token /\ HasSession /\ rtSession.gen = rtCmd.gen
  BY DEF CanCommit, ExactClaiming, ExactResponder
<1>3. RtIsSession(rtSession) /\ RtSessionOK(rtSession, rtGen) /\ rtGen \in Nat /\ rtToken \in Nat /\ rtEpoch \in Nat
      /\ rtFate \in [committed : SUBSET (1 .. rtToken), withdrawn : SUBSET (1 .. rtToken)]
  BY DEF RtInv, RtTyped, RtSessionOK
<1>4. rtCmd.at \in RtRunning /\ rtSession.token = rtCmd.token
  <2>1. rtCmd.at \in RtRunning
    BY <1>1 DEF RtRunning
  <2> QED
    BY <1>2, <2>1 DEF RtInv, RtOwned
<1>5. /\ RtIsSession(rtSession') /\ rtSession'.gen = rtSession.gen /\ rtSession'.driver = rtSession.driver
      /\ rtSession'.token = rtSession.token /\ rtSession'.seen = rtSession.seen \cup RtIceOf(rtBinding.ice)
  BY <1>1, <1>3 DEF RtIsSession, QueuedIce, RtIceOf
<1>6. rtFate'.committed = rtFate.committed \cup {rtCmd.token} /\ rtFate'.withdrawn = rtFate.withdrawn
  BY <1>1, <1>3
<1>7. rtBinding.token \notin rtFate.withdrawn /\ rtFate.committed \cap rtFate.withdrawn = {} /\ rtBinding.token \in 1 .. rtToken
  BY <1>2, <1>3 DEF RtInv, RtFateOK, RtTyped, RtBindingOK, HasBinding
<1>8. ~HasBinding' /\ rtCmd'.at \notin RtRunning
  BY <1>1, RtBlank, RtStages DEF HasBinding
<1>9. RtFateOK'
  BY <1>2, <1>6, <1>7, <1>8 DEF RtFateOK
<1>10. RtTyped'
  <2>1. RtSessionOK(rtSession', rtGen')
    BY <1>1, <1>2, <1>3, <1>5 DEF RtSessionOK, HasSession
  <2>2. RtCmdOK(rtCmd', rtGen')
    BY <1>1, <1>3, RtBlank, RtStages, RealtimeAssumption DEF RtCmdOK
  <2>3. RtBindingOK(rtBinding', rtToken', rtEpoch')
    BY <1>1, <1>3, RtNothing
  <2>4. rtFate' \in [committed : SUBSET (1 .. rtToken'), withdrawn : SUBSET (1 .. rtToken')]
    BY <1>1, <1>2, <1>3, <1>7
  <2> QED
    BY <1>1, <1>8, <2>1, <2>2, <2>3, <2>4 DEF RtInv, RtTyped
<1>11. RtMediaOK' /\ RtShown'
  BY <1>1, <1>5 DEF RtInv, RtMediaOK, RtShown, HasRequest
<1>12. RtOwned' /\ RtQueued'
  BY <1>4, <1>5, <1>6, <1>8 DEF RtOwned, RtQueued
<1>13. RtApplied'
  <2>1. RtAcceptedFor(rtBinding.token) \subseteq RtIceOf(rtBinding.ice) \cup rtSession.seen
    BY <1>2, <1>4 DEF RtInv, RtQueued
  <2>2. \A t : RtAcceptedFor(t)' = RtAcceptedFor(t)
    BY <1>1 DEF RtAcceptedFor
  <2>3. RtAcceptedFor(rtSession.token)' = RtAcceptedFor(rtBinding.token)
    BY <1>2, <1>4, <1>5, <2>2
  <2> QED
    BY <1>5, <2>1, <2>3 DEF RtApplied
<1> QED
  BY <1>9, <1>10, <1>11, <1>12, <1>13 DEF RtInv

LEMMA RtNoCommitInv ==
  ASSUME RtInv, RtTasks', ClaimCommit, ~CanCommit
  PROVE  RtInv'
<1>1. /\ rtCmd' = [rtCmd EXCEPT !.at = "claim_cancel"] /\ rtCmd.at = "claim_commit"
      /\ rtBinding' = IF ExactClaiming /\ ExactResponder THEN [rtBinding EXCEPT !.ice = <<>>] ELSE rtBinding
      /\ ExactResponder => \E r : rtSession' = [rtSession EXCEPT !.rev = r]
      /\ ~ExactResponder => rtSession' = rtSession
      /\ UNCHANGED <<rtGen, rtMedia, rtRequest, rtEpoch, rtToken, rtReplay, rtPublished, rtAccepted, rtFate>>
  BY DEF ClaimCommit
<1>2. /\ RtIsCmd(rtCmd) /\ RtCmdOK(rtCmd, rtGen) /\ RtIsSession(rtSession) /\ RtSessionOK(rtSession, rtGen)
      /\ RtIsBinding(rtBinding) /\ RtBindingOK(rtBinding, rtToken, rtEpoch) /\ rtToken \in Nat
  BY DEF RtInv, RtTyped, RtCmdOK, RtSessionOK, RtBindingOK
<1>3. /\ RtIsCmd(rtCmd') /\ rtCmd'.at = "claim_cancel" /\ rtCmd'.gen = rtCmd.gen /\ rtCmd'.token = rtCmd.token
      /\ rtCmd'.shared = rtCmd.shared /\ rtCmd'.driver = rtCmd.driver
  BY <1>1, <1>2 DEF RtIsCmd
<1>4. /\ RtIsSession(rtSession') /\ rtSession'.gen = rtSession.gen /\ rtSession'.shared = rtSession.shared
      /\ rtSession'.driver = rtSession.driver /\ rtSession'.token = rtSession.token /\ rtSession'.seen = rtSession.seen
      /\ rtSession.gen = 0 => rtSession' = rtSession
  BY <1>1, <1>2 DEF RtIsSession, ExactResponder, HasSession
<1>5. /\ RtIsBinding(rtBinding') /\ rtBinding'.token = rtBinding.token /\ rtBinding'.epoch = rtBinding.epoch
      /\ rtBinding'.state = rtBinding.state
      /\ rtBinding' = rtBinding \/ (rtBinding.state = "claiming" /\ HasBinding /\ rtBinding'.ice = <<>>)
  BY <1>1, <1>2 DEF RtIsBinding, ExactClaiming
<1>6. rtCmd'.at \in RtAfter /\ rtCmd'.at \notin RtRunning /\ rtCmd'.at \notin RtClaiming
  BY <1>3 DEF RtAfter, RtRunning, RtClaiming
<1>7. RtTyped'
  <2>1. RtSessionOK(rtSession', rtGen')
    BY <1>1, <1>2, <1>4 DEF RtSessionOK
  <2>2. RtCmdOK(rtCmd', rtGen')
    BY <1>1, <1>2, <1>3, <1>6 DEF RtCmdOK
  <2>3. RtBindingOK(rtBinding', rtToken', rtEpoch')
    <3>1. <<>> \in Seq(RtCands) /\ Len(<<>>) = 0 /\ RtMaxIce \in Nat
      BY EmptySeq, RealtimeAssumption
    <3> QED
      BY <1>1, <1>2, <1>5, <3>1 DEF RtBindingOK, HasBinding
  <2>4. ~(HasBinding /\ HasRequest)'
    BY <1>1, <1>5 DEF RtInv, RtTyped, HasBinding, HasRequest
  <2> QED
    BY <1>1, <2>1, <2>2, <2>3, <2>4 DEF RtInv, RtTyped
<1>8. RtMediaOK' /\ RtFateOK' /\ RtShown'
  BY <1>1, <1>4, <1>5 DEF RtInv, RtMediaOK, RtFateOK, RtShown, HasRequest, HasBinding
<1>9. RtOwned'
  BY <1>1, <1>3, <1>4, <1>6 DEF RtInv, RtOwned, ExactResponder, HasSession
<1>10. RtApplied'
  BY <1>1, <1>4 DEF RtInv, RtApplied, RtAcceptedFor
<1>11. RtQueued'
  <2>1. RtQueued
    BY DEF RtInv
  <2>2. RtAcceptedFor(rtBinding.token)' = RtAcceptedFor(rtBinding.token)
    BY <1>1, <1>5 DEF RtAcceptedFor
  <2> QED
    BY <1>5, <1>6, <2>1, <2>2 DEF RtQueued, HasBinding
<1> QED
  BY <1>7, <1>8, <1>9, <1>10, <1>11 DEF RtInv

-----------------------------------------------------------------------------
(* Realtime: the theorems                                                  *)

LEMMA RtInitInv == RealtimeInit => RtInv
<1> SUFFICES ASSUME RealtimeInit PROVE RtInv
  OBVIOUS
<1>1. RtTyped
  <2>1. RtReplayOK({})
    BY FS_EmptySet, RealtimeAssumption DEF RtReplayOK
  <2>2. RtBindingOK(rtBinding, 0, 0) /\ RtRequestOK(rtRequest, 0) /\ RtSessionOK(rtSession, 0)
    BY RtNothing DEF RealtimeInit
  <2>3. RtCmdOK(rtCmd, 0)
    BY RtBlank, RtStages, RealtimeAssumption DEF RealtimeInit, RtCmdOK
  <2> QED
    BY <2>1, <2>2, <2>3, RtBlank DEF RealtimeInit, RtTyped, HasBinding
<1>2. RtTasks
  BY RtBlank, RealtimeAssumption DEF RealtimeInit, RtTasks
<1>3. RtMediaOK /\ RtFateOK /\ RtOwned /\ RtQueued /\ RtApplied
  BY RtBlank, RtStages DEF RealtimeInit, RtMediaOK, RtFateOK, RtOwned, RtQueued, RtApplied, HasBinding
<1>4. RtShown
  BY RtBlank DEF RealtimeInit, RtShown, HasRequest
<1> QED
  BY <1>1, <1>2, <1>3, <1>4 DEF RtInv

LEMMA RtStep == RtInv /\ [RealtimeNext]_rtVars => RtInv'
<1> SUFFICES ASSUME RtInv, [RealtimeNext]_rtVars PROVE RtInv'
  OBVIOUS
<1>1. CASE RtCmdStep
  <2>1. RtTasks'
    BY <1>1, RtCmdTasks
  <2>2. CASE ClaimCommit
    BY <2>1, <2>2, RtCommitInv, RtNoCommitInv
  <2>3. CASE StartInsert
    BY <2>1, <2>3, RtStartInsertInv, RtStartInv
  <2>4. CASE \E o \in {"ok", "bad_offer", "bad_ice"} : ClaimApply(o)
    BY <2>1, <2>4, RtClaimApplyInv
  <2> QED
    BY <1>1, <2>1, <2>2, <2>3, <2>4, RtStartInv, RtRejectInv, RtClaimQuietInv, RtClaimBeginInv DEF RtCmdStep
<1>2. CASE RtSigStep
  <2>1. RtTasks'
    BY <1>2, RtSigTasks
  <2> QED
    BY <1>2, <2>1, RtSigQuietInv, RtProvisionalInv, RtApplyInv DEF RtSigStep
<1>3. CASE \/ \E d \in RtDrivers : IoFails(d) \/ IoRemoves(d)
           \/ ConnectionLost \/ ConnectionCancel \/ Elapse \/ ExpiryLooks \/ ExpiryWakes \/ ExpiryFires
           \/ (\E dir \in {"send", "receive"} : CreateEndpoint(dir)) \/ (\E e \in rtMedia : ReleaseEndpoint(e))
           \/ RtShutdown \/ RtCloseAll
  <2>1. RtTasks'
    BY <1>3, RtEnvTasks
  <2> QED
    BY <1>3, <2>1, RtEnvInv, RtEndpointInv
<1>4. CASE UNCHANGED rtVars
  <2>1. RtTasks' /\ UNCHANGED <<rtSession, rtGen, rtMedia, rtCmd>> /\ UNCHANGED rtOffers
    BY <1>4 DEF rtVars, rtOffers, rtGhost, RtInv, RtTasks
  <2> QED
    BY <2>1, RtSame, RtQuiet
<1> QED
  BY <1>1, <1>2, <1>3, <1>4 DEF RealtimeNext

LEMMA RtInvHolds == RealtimeSpec => []RtInv
BY RtInitInv, RtStep, PTL DEF RealtimeSpec

LEMMA RtInvSound == RtInv => ClaimSound
<1> SUFFICES ASSUME RtInv PROVE ClaimSound
  OBVIOUS
<1>1. RealtimeTypeOK
  BY DEF RtInv, RtTyped, RtTasks, RtSessionOK, RtBindingOK, RtRequestOK, RtReplayOK, RealtimeTypeOK
<1>2. MediaFollowsSession /\ ShownOnce
  BY DEF RtInv, RtMediaOK, RtShown, MediaFollowsSession, ShownOnce
<1>3. ClaimIsAtomic
  BY RtStages DEF RtInv, RtFateOK, RtOwned, ClaimIsAtomic
<1>4. QueuedIceIsApplied
  <2>1. rtSession.token \in rtFate.committed => RtAcceptedFor(rtSession.token) \subseteq rtSession.seen
    BY DEF RtInv, RtApplied
  <2>2. \A a \in rtAccepted : a[1] = rtSession.token => a[2] \in RtAcceptedFor(rtSession.token)
    BY DEF RtAcceptedFor
  <2> QED
    BY <2>1, <2>2 DEF QueuedIceIsApplied
<1> QED
  BY <1>1, <1>2, <1>3, <1>4 DEF ClaimSound

\* An incoming call is shown to the application once, claimed wholly or not at all and with every
\* candidate queued for it, and no endpoint outlives its session: for any signals, in any order
\* and number, and whatever fails or is torn down between two locks of the manager.
THEOREM ClaimsStaySound == RealtimeSpec => []ClaimSound
BY RtInvHolds, RtInvSound, PTL

\* What ClaimTouchesOwn says of one step.
RtTouchesOwn ==
  rtCmd.at \in {"claim_apply", "claim_commit", "claim_rollback", "reject_mark", "reject_done"} /\ rtCmd' # rtCmd
    => /\ rtBinding' # rtBinding => rtBinding.token = rtCmd.token
       /\ rtSession' # rtSession /\ HasSession => rtSession.driver = rtCmd.driver

LEMMA RtTouchStep == RealtimeNext => RtTouchesOwn
<1> SUFFICES ASSUME RealtimeNext, rtCmd' # rtCmd,
                    rtCmd.at \in {"claim_apply", "claim_commit", "claim_rollback", "reject_mark", "reject_done"}
             PROVE  /\ rtBinding' # rtBinding => rtBinding.token = rtCmd.token
                    /\ rtSession' # rtSession /\ HasSession => rtSession.driver = rtCmd.driver
  BY DEF RtTouchesOwn
<1>1. ClaimCommit \/ ClaimRollback \/ RejectMark \/ RejectDone \/ \E o \in {"ok", "bad_offer", "bad_ice"} : ClaimApply(o)
  <2>1. RtCmdStep
    BY DEF RealtimeNext, RtSigStep, SigArrives, SigControl, SigLookup, SigProvisional, SigFormal, SigCancel, SigApply,
           SigSpawn, SigSend, SigUndoCancel, SigUndo, IoFails, IoRemoves, ConnectionLost, ConnectionCancel, Elapse,
           ExpiryLooks, ExpiryWakes, ExpiryFires, CreateEndpoint, ReleaseEndpoint, RtShutdown, RtCloseAll
  <2> QED
    BY <2>1 DEF RtCmdStep, StartBegin, StartInsert, StartSend, StartSpawn, StopBegin, StopCancel, RtIdle, ClaimBegin,
                ClaimDriver, ClaimSpawn, ClaimSend, ClaimCancel, RejectBegin, Discard
<1>2. CASE ClaimCommit
  BY <1>2 DEF ClaimCommit, CanCommit, ExactClaiming, ExactResponder
<1>3. CASE ClaimRollback
  BY <1>3 DEF ClaimRollback, TakeClaim, OwnClaim, DropResponder, ExactResponder
<1>4. CASE RejectMark \/ RejectDone
  BY <1>4 DEF RejectMark, RejectDone, rtFormal
<1>5. CASE \E o \in {"ok", "bad_offer", "bad_ice"} : ClaimApply(o)
  BY <1>5 DEF ClaimApply, rtOffers
<1> QED
  BY <1>1, <1>2, <1>3, <1>4, <1>5

\* A claim or rejection in progress takes out only the binding of its own token and the session on
\* its own driver, whatever took the id while it was away.
THEOREM ClaimsTouchTheirOwn == RealtimeSpec => ClaimTouchesOwn
<1>1. [RealtimeNext]_rtVars => [RtTouchesOwn]_rtVars
  BY RtTouchStep
<1>2. RealtimeSpec => [][RtTouchesOwn]_rtVars
  BY <1>1, PTL DEF RealtimeSpec
<1> QED
  BY <1>2 DEF ClaimTouchesOwn, RtTouchesOwn

-----------------------------------------------------------------------------
(* Transfers: the inductive invariant                                      *)

TrEntries == [st : States \cup {"absent"}, off : 0 .. TrChunks, tok : Attempts \cup {0}]
TrEntryOK(e) == e \in TrEntries /\ (e.st # "absent" => e.tok \in Attempts)
TrAttempts ==
  [route : {"none", "quic", "relay"}, pc : {"idle", "offer", "decision", "accept", "stream", "verify", "complete", "done"},
   off : 0 .. TrChunks, tok : Nat, got : {"none", "accept", "reject", "ack", "nack"}]
TrReceives ==
  [pc : {"idle", "wait", "recv", "moved", "done"}, off : 0 .. TrChunks, tok : Attempts \cup {0}, ino : Nat,
   dec : {"none", "accept", "refuse"}]
TrRequests ==
  [k : {"offer", "complete", "cancel"}, n : {0}] \cup [k : {"chunk"}, n : 0 .. TrChunks, src : {0, 1}]
TrAnswers ==
  {m \in [k : {"decision", "completion", "accept", "ack", "cancel", "drop"}, n : 0 .. TrChunks + 1] :
     m.k = "accept" => m.n \in 0 .. TrChunks}
TrSlot == Attempts \cup {0}
TrErrors == {"network", "source", "protocol", "rejected", "cancelled"}

TrSTyped ==
  /\ TrEntryOK(trS) /\ trAtt \in [Attempts -> TrAttempts] /\ trAcc \in TrSlot /\ trComp \in TrSlot /\ trSrc \in {0, 1}
  /\ \A a \in Attempts : trAtt[a].got = "accept" => trAtt[a].tok \in 0 .. TrChunks
TrRTyped ==
  /\ TrEntryOK(trR) /\ trRecv \in [Attempts -> TrReceives] /\ trDec \in TrSlot /\ trPend \in TrSlot
  /\ trAct \in [a : TrSlot, data : Seq({0, 1}), ino : Nat, done : BOOLEAN] /\ trTimer \subseteq Attempts
TrFiles ==
  /\ trPart \in [ino : Nat, data : Seq({0, 1})] /\ Len(trPart.data) <= TrChunks
  /\ \/ trFinal \in {NoFile, Other}
     \/ trFinal \in Seq({0, 1}) /\ Len(trFinal) <= TrChunks
TrWires == trToR \in [Attempts -> Seq(TrRequests)] /\ trToS \in [Attempts -> Seq(TrAnswers)]
TrReports ==
  /\ trCan \subseteq Attempts /\ trDone \in [s : Nat, r : Nat]
  /\ trErr \subseteq TrErrors
TrTyped == TrSTyped /\ TrRTyped /\ TrFiles /\ TrWires /\ TrReports

\* A path that is down carries nothing, only its session is torn down, and an aborted attempt is done.
TrPathsOK ==
  /\ trUp \in [Attempts -> BOOLEAN] /\ trEnd \in [Attempts -> SUBSET {"s", "r", "sx", "rx"}]
  /\ \A a \in Attempts :
       /\ trAtt[a].pc = "idle" => trUp[a]
       /\ trUp[a] => trEnd[a] = {}
       /\ ~trUp[a] => trToS[a] = <<>>
       /\ "sx" \in trEnd[a] => trAtt[a].pc = "done"

\* A registered waiter belongs to an attempt that waits, and whose session is not torn down.
TrWaiters ==
  /\ \A a \in Attempts :
       /\ trAtt[a].pc \in {"accept", "complete"} => trAtt[a].route = "relay"
       /\ trAtt[a].got \in {"accept", "reject"} => trAtt[a].pc = "accept"
       /\ trAtt[a].got \in {"ack", "nack"} => trAtt[a].pc = "complete"
  /\ trAcc # 0 => trAtt[trAcc].pc = "accept" /\ "s" \notin trEnd[trAcc]
  /\ trComp # 0 => trAtt[trComp].pc = "complete" /\ "s" \notin trEnd[trComp]

\* An attempt in one of the stages pcs that the teardown of its own session will not end.
TrKept(pcs) == \E a \in Attempts : trAtt[a].pc \in pcs /\ "s" \notin trEnd[a]
TrAsking == {"offer", "decision", "accept"}
TrSenderOwned ==
  /\ trS.st \in {"absent", "offering", "resuming", "transferring", "verifying", "paused"}
  /\ trS.st = "offering" => TrKept(TrAsking)
  /\ trS.st = "resuming" => TornDown \/ TrKept(TrAsking)
  /\ trS.st = "transferring" => TrKept(TrAsking \cup {"stream", "complete"})
  /\ trS.st = "verifying" => TrKept({"verify"})

TrReceiverOwned ==
  /\ trR.st \in {"absent", "waiting", "resuming", "transferring", "paused"}
  /\ trR.st = "transferring" =>
       trAct.a # 0 \/ \E a \in Attempts : trRecv[a].pc \in {"wait", "recv", "moved"} /\ "r" \notin trEnd[a]

TrQuiet(q) == \A i \in 1 .. Len(q) : q[i].k \notin {"completion", "ack"}
\* Whatever leads to a report of completion comes after the rename.
TrStored ==
  Stored \/ /\ trDone.s = 0 /\ trDone.r = 0 /\ ~trAct.done
            /\ \A a \in Attempts :
                 /\ trAtt[a].got # "ack" /\ trRecv[a].pc # "moved"
                 /\ TrQuiet(trToS[a])

TrInv == TrTyped /\ TrPathsOK /\ TrWaiters /\ TrSenderOwned /\ TrReceiverOwned /\ TrStored

-----------------------------------------------------------------------------
(* Transfers: queues, records and what a step leaves alone                 *)

LEMMA LTrConst ==
  /\ TrChunks \in Nat /\ TrChunks > 0 /\ TrMaxAttempts \in Nat /\ Attempts \subseteq Nat /\ 0 \notin Attempts
  /\ TrRoutes \subseteq {"quic", "relay"}
BY TransferAssumption DEF Attempts

LEMMA LTrQueue ==
  ASSUME NEW S, NEW q \in Seq(S), q # <<>>
  PROVE  Head(q) \in S /\ Tail(q) \in Seq(S) /\ (TrQuiet(q) => TrQuiet(Tail(q)))
BY HeadTailProperties DEF TrQuiet

LEMMA LTrAppend ==
  ASSUME NEW S, NEW q \in Seq(S), NEW m \in S
  PROVE  Append(q, m) \in Seq(S) /\ (TrQuiet(q) /\ m.k \notin {"completion", "ack"} => TrQuiet(Append(q, m)))
BY AppendProperties DEF TrQuiet

LEMMA LTrMsg ==
  /\ \A k \in {"offer", "complete", "cancel"} : Msg(k) \in TrRequests
  /\ \A k \in {"completion", "ack", "cancel", "drop"} : Msg(k) \in TrAnswers /\ Msg(k).k = k
BY LTrConst DEF Msg, TrRequests, TrAnswers

\* Sending keeps the wires typed, and a path that is down empty.
LEMMA LTrToReceiver ==
  ASSUME trToR \in [Attempts -> Seq(TrRequests)], NEW a \in Attempts, NEW m \in TrRequests, ToReceiver(a, m)
  PROVE  trToR' \in [Attempts -> Seq(TrRequests)]
<1>1. Append(trToR[a], m) \in Seq(TrRequests)
  BY LTrAppend
<1> QED
  BY <1>1 DEF ToReceiver

LEMMA LTrToSender ==
  ASSUME trToS \in [Attempts -> Seq(TrAnswers)], NEW a \in Attempts, NEW m \in TrAnswers, ToSender(a, m)
  PROVE  /\ trToS' \in [Attempts -> Seq(TrAnswers)]
         /\ \A b \in Attempts : ~trUp[b] => trToS'[b] = trToS[b]
         /\ m.k \notin {"completion", "ack"} => \A b \in Attempts : TrQuiet(trToS[b]) => TrQuiet(trToS'[b])
<1>1. Append(trToS[a], m) \in Seq(TrAnswers)
      /\ (TrQuiet(trToS[a]) /\ m.k \notin {"completion", "ack"} => TrQuiet(Append(trToS[a], m)))
  BY LTrAppend
<1>2. trToS' \in [Attempts -> Seq(TrAnswers)]
  BY <1>1 DEF ToSender
<1>3. ASSUME NEW b \in Attempts PROVE trToS'[b] = trToS[b] \/ (b = a /\ trUp[a] /\ trToS'[b] = Append(trToS[a], m))
  BY DEF ToSender
<1> QED
  BY <1>1, <1>2, <1>3

\* What a step of the sender leaves alone.
LEMMA LTrReceiverFrame ==
  ASSUME TrRTyped, TrFiles, TrReceiverOwned, UNCHANGED trReceiver,
         \A a \in Attempts : "r" \in trEnd'[a] => "r" \in trEnd[a]
  PROVE  TrRTyped' /\ TrFiles' /\ TrReceiverOwned'
<1>1. TrRTyped' /\ TrFiles'
  BY DEF TrRTyped, TrFiles, trReceiver, TrEntryOK, TrEntries
<1>2. TrReceiverOwned'
  BY DEF TrReceiverOwned, trReceiver
<1> QED
  BY <1>1, <1>2

\* What a step of the receiver leaves alone.
LEMMA LTrSenderFrame ==
  ASSUME TrSTyped, TrWaiters, TrSenderOwned, UNCHANGED trSender,
         \A a \in Attempts : ("s" \in trEnd'[a] <=> "s" \in trEnd[a]) /\ ("sx" \in trEnd'[a] <=> "sx" \in trEnd[a])
  PROVE  TrSTyped' /\ TrWaiters' /\ TrSenderOwned'
<1>1. TrSTyped'
  BY DEF TrSTyped, trSender, TrEntryOK, TrEntries
<1>2. TrWaiters'
  BY DEF TrWaiters, trSender, TrSTyped, TrSlot
<1>3. TrSenderOwned'
  BY DEF TrSenderOwned, TrKept, TornDown, trSender
<1> QED
  BY <1>1, <1>2, <1>3

-----------------------------------------------------------------------------
(* Transfers: the sender                                                   *)

LEMMA LTrSetAttempt ==
  ASSUME TrSTyped, NEW a \in Attempts, NEW r \in TrAttempts, SetAttempt(a, r)
  PROVE  trAtt' \in [Attempts -> TrAttempts] /\ trAtt'[a] = r /\ \A b \in Attempts \ {a} : trAtt'[b] = trAtt[b]
BY DEF SetAttempt, TrSTyped

LEMMA LTrEndAttempt ==
  ASSUME TrSTyped, NEW a \in Attempts, EndAttempt(a)
  PROVE  /\ trAtt' \in [Attempts -> TrAttempts] /\ trAtt'[a].pc = "done" /\ trAtt'[a].got = "none"
         /\ \A b \in Attempts \ {a} : trAtt'[b] = trAtt[b]
<1> DEFINE r == [trAtt[a] EXCEPT !.pc = "done", !.got = "none"]
<1>1. r \in TrAttempts /\ r.pc = "done" /\ r.got = "none"
  BY DEF TrSTyped, TrAttempts
<1> QED
  BY <1>1, LTrSetAttempt DEF EndAttempt

\* Failing leaves no entry, losing an attempt at most a paused one.
LEMMA LTrFail ==
  ASSUME TrSTyped, TrReports, TrSenderOwned, NEW why \in TrErrors, FailEntry(why)
  PROVE  TrEntryOK(trS') /\ trS'.st = "absent" /\ trErr' \subseteq TrErrors
<1>1. CASE CanFail(trS)
  <2>1. trS' = NoTransfer /\ trErr' = trErr \cup {why}
    BY <1>1 DEF FailEntry
  <2> QED
    BY <2>1, LTrConst DEF NoTransfer, TrReports, TrEntryOK, TrEntries
<1>2. CASE ~CanFail(trS)
  <2>1. UNCHANGED <<trS, trErr>>
    BY <1>2 DEF FailEntry
  <2>2. trS.st = "absent"
    BY <1>2 DEF CanFail, Running, TrSenderOwned
  <2> QED
    BY <2>1, <2>2 DEF TrSTyped, TrReports
<1> QED
  BY <1>1, <1>2

LEMMA LTrLose ==
  ASSUME TrSTyped, TrReports, TrSenderOwned, NEW a \in Attempts, LoseAttempt(a)
  PROVE  TrEntryOK(trS') /\ trS'.st \in {"absent", "paused"} /\ trErr' \subseteq TrErrors
<1>1. CASE trS.st \in Running
  BY <1>1 DEF LoseAttempt, Pause, To, Running, TrSTyped, TrReports, TrEntryOK, TrEntries, States
<1>2. CASE trS.st \notin Running
  BY <1>2, LTrFail DEF LoseAttempt, TrErrors
<1> QED
  BY <1>1, <1>2

\* The end of an attempt together with its entry.
LEMMA LTrAttemptEnds ==
  ASSUME TrSTyped, TrWaiters, NEW a \in Attempts, EndAttempt(a), UNCHANGED <<trEnd, trSrc>>,
         TrEntryOK(trS'), trS'.st \in {"absent", "paused"}, trAcc' \in {0, trAcc}, trComp' \in {0, trComp},
         trAtt[a].pc = "accept" => trAcc' = 0, trAtt[a].pc = "complete" => trComp' = 0
  PROVE  TrSTyped' /\ TrWaiters' /\ TrSenderOwned'
<1>1. /\ trAtt' \in [Attempts -> TrAttempts] /\ trAtt'[a].pc = "done" /\ trAtt'[a].got = "none"
      /\ \A b \in Attempts \ {a} : trAtt'[b] = trAtt[b]
  BY LTrEndAttempt
<1>2. TrSTyped'
  BY <1>1 DEF TrSTyped, TrSlot
<1>3. TrWaiters'
  BY <1>1 DEF TrWaiters, TrSTyped, TrSlot
<1>4. TrSenderOwned'
  BY DEF TrSenderOwned
<1> QED
  BY <1>2, <1>3, <1>4

\* What is left to show of a step of the sender.
LEMMA LTrSenderStep ==
  ASSUME TrInv, UNCHANGED <<trReceiver, trUp, trEnd>>, TrSTyped', TrWaiters', TrSenderOwned', TrWires', TrReports',
         \A b \in Attempts : /\ trAtt'[b].pc = "idle" => trAtt[b].pc = "idle"
                             /\ trAtt[b].pc = "done" => trAtt'[b].pc = "done"
                             /\ ~trUp[b] => trToS'[b] = <<>>
                             /\ trAtt'[b].got = "ack" => Stored \/ trAtt[b].got = "ack"
                             /\ Stored \/ (TrQuiet(trToS[b]) => TrQuiet(trToS'[b])),
         trDone' = trDone \/ Stored
  PROVE  TrInv'
<1>1. TrRTyped' /\ TrFiles' /\ TrReceiverOwned'
  BY LTrReceiverFrame DEF TrInv, TrTyped
<1>2. TrPathsOK'
  <2>1. trUp' = trUp /\ trEnd' = trEnd /\ TrPathsOK
    BY DEF TrInv
  <2>2. ASSUME NEW b \in Attempts
        PROVE  /\ trAtt'[b].pc = "idle" => trUp[b]
               /\ trUp[b] => trEnd[b] = {}
               /\ ~trUp[b] => trToS'[b] = <<>>
               /\ "sx" \in trEnd[b] => trAtt'[b].pc = "done"
    BY <2>1 DEF TrPathsOK
  <2> QED
    BY <2>1, <2>2 DEF TrPathsOK
<1>3. trFinal' = trFinal /\ trAct' = trAct /\ trRecv' = trRecv
  BY DEF trReceiver
<1>4. TrStored'
  <2>1. CASE Stored
    BY <1>3, <2>1 DEF TrStored, Stored
  <2>2. CASE ~Stored
    <3>1. /\ trDone.s = 0 /\ trDone.r = 0 /\ ~trAct.done
          /\ \A a \in Attempts : trAtt[a].got # "ack" /\ trRecv[a].pc # "moved" /\ TrQuiet(trToS[a])
      BY <2>2 DEF TrInv, TrStored
    <3>2. \A a \in Attempts : trAtt'[a].got # "ack" /\ trRecv'[a].pc # "moved" /\ TrQuiet(trToS'[a])
      BY <1>3, <2>2, <3>1
    <3>3. trDone' = trDone /\ trAct'.done = trAct.done
      BY <1>3, <2>2
    <3> QED
      BY <3>1, <3>2, <3>3 DEF TrStored, TrQuiet
  <2> QED
    BY <2>1, <2>2
<1> QED
  BY <1>1, <1>2, <1>4 DEF TrInv, TrTyped

\* An attempt that goes on: what its new record has to satisfy.
LEMMA LTrAttemptMoves ==
  ASSUME TrSTyped, TrWaiters, NEW a \in Attempts, NEW r \in TrAttempts, SetAttempt(a, r), UNCHANGED <<trEnd, trSrc>>,
         TrEntryOK(trS'), r.got = "none", r.pc \in {"accept", "complete"} => r.route = "relay" /\ "s" \notin trEnd[a],
         trAcc' = IF r.pc = "accept" THEN a ELSE IF trAtt[a].pc = "accept" THEN 0 ELSE trAcc,
         trComp' = IF r.pc = "complete" THEN a ELSE IF trAtt[a].pc = "complete" THEN 0 ELSE trComp
  PROVE  TrSTyped' /\ TrWaiters'
<1>1. trAtt' \in [Attempts -> TrAttempts] /\ trAtt'[a] = r /\ \A b \in Attempts \ {a} : trAtt'[b] = trAtt[b]
  BY LTrSetAttempt
<1>2. trAcc' \in TrSlot /\ trComp' \in TrSlot
  BY DEF TrSTyped, TrSlot
<1>3. TrSTyped'
  BY <1>1, <1>2 DEF TrSTyped
<1>4. ASSUME NEW b \in Attempts
      PROVE  /\ trAtt'[b].pc \in {"accept", "complete"} => trAtt'[b].route = "relay"
             /\ trAtt'[b].got \in {"accept", "reject"} => trAtt'[b].pc = "accept"
             /\ trAtt'[b].got \in {"ack", "nack"} => trAtt'[b].pc = "complete"
  BY <1>1 DEF TrWaiters
<1>5. trAcc' # 0 => trAtt'[trAcc'].pc = "accept" /\ "s" \notin trEnd[trAcc']
  BY <1>1, <1>2, LTrConst DEF TrWaiters, TrSTyped, TrSlot
<1>6. trComp' # 0 => trAtt'[trComp'].pc = "complete" /\ "s" \notin trEnd[trComp']
  BY <1>1, <1>2, LTrConst DEF TrWaiters, TrSTyped, TrSlot
<1>7. TrWaiters'
  BY <1>4, <1>5, <1>6 DEF TrWaiters
<1> QED
  BY <1>3, <1>7

\* What FailAttempt does to the sender.
LEMMA LTrFailAttempt ==
  ASSUME TrInv, NEW a \in Attempts, NEW why \in TrErrors, FailAttempt(a, why), UNCHANGED <<trEnd, trSrc>>,
         trAcc' \in {0, trAcc}, trComp' \in {0, trComp},
         trAtt[a].pc = "accept" => trAcc' = 0, trAtt[a].pc = "complete" => trComp' = 0
  PROVE  /\ TrSTyped' /\ TrWaiters' /\ TrSenderOwned' /\ trErr' \subseteq TrErrors
         /\ trToR' \in [Attempts -> Seq(TrRequests)]
         /\ trAtt'[a].pc = "done" /\ trAtt'[a].got = "none" /\ \A b \in Attempts \ {a} : trAtt'[b] = trAtt[b]
<1>1. EndAttempt(a) /\ FailEntry(why)
  BY DEF FailAttempt
<1>2. TrEntryOK(trS') /\ trS'.st = "absent" /\ trErr' \subseteq TrErrors
  BY <1>1, LTrFail DEF TrInv, TrTyped
<1>3. TrSTyped' /\ TrWaiters' /\ TrSenderOwned'
  BY <1>1, <1>2, LTrAttemptEnds DEF TrInv, TrTyped
<1>4. trToR' \in [Attempts -> Seq(TrRequests)]
  BY LTrToReceiver, LTrMsg DEF FailAttempt, TrInv, TrTyped, TrWires
<1> QED
  BY <1>1, <1>2, <1>3, <1>4, LTrEndAttempt DEF TrInv, TrTyped

\* At most the answer at the head is taken.
TrTakes(a) == trToS' = trToS \/ (trToS[a] # <<>> /\ trToS' = [trToS EXCEPT ![a] = Tail(@)])
LEMMA LTrTakes ==
  ASSUME TrInv, NEW a \in Attempts, TrTakes(a)
  PROVE  /\ trToS' \in [Attempts -> Seq(TrAnswers)]
         /\ \A b \in Attempts : (~trUp[b] => trToS'[b] = <<>>) /\ (TrQuiet(trToS[b]) => TrQuiet(trToS'[b]))
<1>1. trToS \in [Attempts -> Seq(TrAnswers)] /\ \A b \in Attempts : ~trUp[b] => trToS[b] = <<>>
  BY DEF TrInv, TrTyped, TrWires, TrPathsOK
<1>2. CASE trToS' = trToS
  BY <1>1, <1>2
<1>3. CASE trToS[a] # <<>> /\ trToS' = [trToS EXCEPT ![a] = Tail(@)]
  <2>1. Tail(trToS[a]) \in Seq(TrAnswers) /\ (TrQuiet(trToS[a]) => TrQuiet(Tail(trToS[a])))
    BY <1>1, <1>3, LTrQueue
  <2>2. trToS' \in [Attempts -> Seq(TrAnswers)]
    BY <1>1, <1>3, <2>1
  <2>3. ASSUME NEW b \in Attempts PROVE trToS'[b] = IF b = a THEN Tail(trToS[a]) ELSE trToS[b]
    BY <1>1, <1>3
  <2> QED
    BY <1>1, <1>3, <2>1, <2>2, <2>3
<1> QED
  BY <1>2, <1>3 DEF TrTakes

\* A step of the sender that ends the attempt.
LEMMA LTrEndStep ==
  ASSUME TrInv, NEW a \in Attempts, UNCHANGED <<trReceiver, trUp, trEnd>>, trCan' = trCan, TrTakes(a),
         trDone' = trDone \/ (Stored /\ trDone' \in [s : Nat, r : Nat]), TrSTyped', TrWaiters', TrSenderOwned', trErr' \subseteq TrErrors,
         trToR' \in [Attempts -> Seq(TrRequests)],
         trAtt'[a].pc = "done", trAtt'[a].got = "none", \A b \in Attempts \ {a} : trAtt'[b] = trAtt[b]
  PROVE  TrInv'
<1>1. TrWires' /\ TrReports'
  BY LTrTakes DEF TrInv, TrTyped, TrWires, TrReports
<1>2. ASSUME NEW b \in Attempts
      PROVE  /\ trAtt'[b].pc = "idle" => trAtt[b].pc = "idle"
             /\ trAtt[b].pc = "done" => trAtt'[b].pc = "done"
             /\ ~trUp[b] => trToS'[b] = <<>>
             /\ trAtt'[b].got = "ack" => trAtt[b].got = "ack"
             /\ TrQuiet(trToS[b]) => TrQuiet(trToS'[b])
  BY LTrTakes
<1> QED
  BY <1>1, <1>2, LTrSenderStep

\* A step of the sender in which one attempt goes on.
LEMMA LTrMoveStep ==
  ASSUME TrInv, NEW a \in Attempts, NEW r \in TrAttempts, SetAttempt(a, r), UNCHANGED <<trReceiver, trUp, trEnd>>,
         UNCHANGED <<trCan, trDone, trErr>>, TrTakes(a), TrSTyped', TrWaiters', TrSenderOwned',
         trToR' \in [Attempts -> Seq(TrRequests)], r.pc # "idle", trAtt[a].pc # "done", r.got = "none"
  PROVE  TrInv'
<1>1. TrWires' /\ TrReports'
  BY LTrTakes DEF TrInv, TrTyped, TrWires, TrReports
<1>2. trAtt' \in [Attempts -> TrAttempts] /\ trAtt'[a] = r /\ \A b \in Attempts \ {a} : trAtt'[b] = trAtt[b]
  BY LTrSetAttempt DEF TrInv, TrTyped
<1>3. ASSUME NEW b \in Attempts
      PROVE  /\ trAtt'[b].pc = "idle" => trAtt[b].pc = "idle"
             /\ trAtt[b].pc = "done" => trAtt'[b].pc = "done"
             /\ ~trUp[b] => trToS'[b] = <<>>
             /\ trAtt'[b].got = "ack" => trAtt[b].got = "ack"
             /\ TrQuiet(trToS[b]) => TrQuiet(trToS'[b])
  BY <1>2, LTrTakes
<1> QED
  BY <1>1, <1>3, LTrSenderStep

\* Who keeps the entry when one attempt goes on.
LEMMA LTrKept ==
  ASSUME TrSTyped, NEW a \in Attempts, NEW r \in TrAttempts, SetAttempt(a, r), UNCHANGED trEnd, NEW P, TrKept(P),
         NEW Q, P \subseteq Q, trAtt[a].pc \in P => r.pc \in Q
  PROVE  TrKept(Q)'
BY LTrSetAttempt DEF TrKept

LEMMA LTrDispatch ==
  ASSUME TrInv, NEW a \in Attempts, NEW route \in SelectRoutes, NEW off \in 0 .. TrChunks, NextAttempt(a), Dispatch(a, route, off),
         UNCHANGED <<trReceiver, trUp, trEnd>>, UNCHANGED <<trCan, trDone, trErr, trToS>>, UNCHANGED <<trToR, trAcc, trComp, trSrc>>,
         TrEntryOK(trS'), trS'.st \in {"offering", "resuming"}
  PROVE  TrInv'
<1> DEFINE r == [NoAttempt EXCEPT !.route = route, !.pc = "offer", !.off = off]
<1>1. r \in TrAttempts /\ r.pc = "offer" /\ r.got = "none"
  BY LTrConst DEF NoAttempt, TrAttempts, SelectRoutes
<1>2. SetAttempt(a, r) /\ trAtt[a].pc = "idle"
  BY DEF Dispatch, NextAttempt
<1> HIDE DEF r
<1>3. "s" \notin trEnd[a]
  BY <1>2 DEF TrInv, TrPathsOK
<1>4. TrSTyped /\ TrWaiters
  BY DEF TrInv, TrTyped
<1>5. TrSTyped' /\ TrWaiters'
  BY <1>1, <1>2, <1>4, LTrAttemptMoves
<1>6. trAtt'[a].pc = "offer" /\ "s" \notin trEnd'[a]
  BY <1>1, <1>2, <1>3, <1>4, LTrSetAttempt
<1>7. TrKept(TrAsking)'
  BY <1>6 DEF TrKept, TrAsking
<1>8. TrSenderOwned'
  BY <1>7 DEF TrSenderOwned
<1>9. trToR' \in [Attempts -> Seq(TrRequests)]
  BY DEF TrInv, TrTyped, TrWires
<1> QED
  BY <1>1, <1>2, <1>5, <1>8, <1>9, LTrMoveStep DEF TrTakes

LEMMA LTrSendFile ==
  ASSUME TrInv, NEW a \in Attempts, NEW route \in SelectRoutes, SendFile(a, route)
  PROVE  TrInv'
<1>1. TrEntryOK(trS') /\ trS'.st \in {"offering", "resuming"}
  BY LTrConst DEF SendFile, NewTransfer, TrEntryOK, TrEntries, States
<1> QED
  BY <1>1, LTrDispatch, LTrConst DEF SendFile, trOutcome

LEMMA LTrResumeTransfer ==
  ASSUME TrInv, NEW a \in Attempts, NEW route \in SelectRoutes, ResumeTransfer(a, route)
  PROVE  TrInv'
<1>1. TrEntryOK(trS') /\ trS'.st \in {"offering", "resuming"} /\ trS.off \in 0 .. TrChunks
  BY LTrConst DEF ResumeTransfer, CanResume, To, TrInv, TrTyped, TrSTyped, TrEntryOK, TrEntries, States
<1> QED
  BY <1>1, LTrDispatch DEF ResumeTransfer, trOutcome

LEMMA LTrResumeRefused ==
  ASSUME TrInv, ResumeRefused
  PROVE  TrInv'
<1>1. TrEntryOK(trS') /\ trS'.st = "resuming"
  BY LTrConst DEF ResumeRefused, CanResume, To, TrInv, TrTyped, TrSTyped, TrEntryOK, TrEntries, States
<1>2. UNCHANGED <<trReceiver, trUp, trEnd>> /\ UNCHANGED <<trAtt, trAcc, trComp, trSrc>> /\ UNCHANGED <<trToR, trToS, trCan, trDone, trErr>>
  BY DEF ResumeRefused, trOutcome
<1>3. TrSTyped' /\ TrWaiters'
  BY <1>1, <1>2 DEF TrInv, TrTyped, TrSTyped, TrWaiters
<1>4. TornDown'
  BY <1>2 DEF ResumeRefused, TornDown
<1>5. TrSenderOwned'
  BY <1>1, <1>4 DEF TrSenderOwned
<1>6. TrWires' /\ TrReports'
  BY <1>2 DEF TrInv, TrTyped, TrWires, TrReports
<1>7. \A b \in Attempts : ~trUp[b] => trToS[b] = <<>>
  BY DEF TrInv, TrPathsOK
<1> QED
  BY <1>2, <1>3, <1>5, <1>6, <1>7, LTrSenderStep

LEMMA LTrSourceChanges ==
  ASSUME TrInv, SourceChanges
  PROVE  TrInv'
<1>2. UNCHANGED <<trReceiver, trUp, trEnd>> /\ UNCHANGED <<trS, trAtt, trAcc, trComp>> /\ UNCHANGED <<trToR, trToS, trCan, trDone, trErr>>
      /\ trSrc' = 1
  BY DEF SourceChanges, trOutcome
<1>3. TrSTyped' /\ TrWaiters'
  BY <1>2 DEF TrInv, TrTyped, TrSTyped, TrWaiters
<1>5. TrSenderOwned'
  BY <1>2 DEF TrInv, TrSenderOwned, TrKept, TornDown
<1>6. TrWires' /\ TrReports'
  BY <1>2 DEF TrInv, TrTyped, TrWires, TrReports
<1>7. \A b \in Attempts : ~trUp[b] => trToS[b] = <<>>
  BY DEF TrInv, TrPathsOK
<1> QED
  BY <1>2, <1>3, <1>5, <1>6, <1>7, LTrSenderStep

\* An attempt with a path that is up is not being torn down.
LEMMA LTrUp ==
  ASSUME TrInv, NEW a \in Attempts, trUp[a]
  PROVE  "s" \notin trEnd[a] /\ "r" \notin trEnd[a]
BY DEF TrInv, TrPathsOK

\* The entry keeps its owner when an attempt moves between stages that can own it.
LEMMA LTrSameOwner ==
  ASSUME TrInv, NEW a \in Attempts, NEW r \in TrAttempts, SetAttempt(a, r), UNCHANGED trEnd, trS'.st = trS.st,
         \/ trAtt[a].pc \in TrAsking /\ r.pc \in TrAsking
         \/ trAtt[a].pc = "stream" /\ r.pc \in {"stream", "complete"}
  PROVE  TrSenderOwned'
<1>1. \A P \in {TrAsking, TrAsking \cup {"stream", "complete"}, {"verify"}} : TrKept(P) => TrKept(P)'
  <2>1. \A P \in {TrAsking, TrAsking \cup {"stream", "complete"}, {"verify"}} : trAtt[a].pc \in P => r.pc \in P
    BY DEF TrAsking
  <2> QED
    BY <2>1, LTrKept DEF TrInv, TrTyped
<1>2. TornDown' <=> TornDown
  BY DEF TornDown
<1> QED
  BY <1>1, <1>2 DEF TrSenderOwned, TrInv

LEMMA LTrOfferOverQuic ==
  ASSUME TrInv, NEW a \in Attempts, OfferOverQuic(a)
  PROVE  TrInv'
<1>1. /\ trAtt[a].pc = "offer" /\ trAtt[a].route = "quic" /\ trUp[a]
      /\ UNCHANGED <<trReceiver, trUp, trEnd>> /\ UNCHANGED <<trCan, trDone, trToS>> /\ UNCHANGED <<trAcc, trComp, trSrc>>
  BY DEF OfferOverQuic, SenderMoves
<1>2. TrSTyped /\ TrWaiters /\ TrEntryOK(trS) /\ trAtt[a] \in TrAttempts
  BY DEF TrInv, TrTyped, TrSTyped
<1>3. CASE trSrc # 0
  <2>1. FailAttempt(a, "source")
    BY <1>3 DEF OfferOverQuic
  <2> QED
    BY <1>1, <2>1, LTrFailAttempt, LTrEndStep DEF TrErrors, TrTakes
<1>4. CASE trSrc = 0
  <2> DEFINE r == [trAtt[a] EXCEPT !.pc = "decision"]
  <2>1. ToReceiver(a, Msg("offer")) /\ UNCHANGED <<trS, trErr>> /\ SetAttempt(a, r)
    BY <1>4 DEF OfferOverQuic
  <2>2. r \in TrAttempts /\ r.pc = "decision" /\ r.got = trAtt[a].got
    BY <1>2 DEF TrAttempts
  <2>3. r.got = "none"
    BY <1>1, <1>2, <2>2 DEF TrWaiters, TrAttempts
  <2> HIDE DEF r
  <2>4. TrSTyped' /\ TrWaiters'
    BY <1>1, <1>2, <2>1, <2>2, <2>3, LTrAttemptMoves
  <2>5. TrSenderOwned'
    BY <1>1, <2>1, <2>2, LTrSameOwner DEF TrAsking
  <2>6. trToR' \in [Attempts -> Seq(TrRequests)]
    BY <2>1, LTrToReceiver, LTrMsg DEF TrInv, TrTyped, TrWires
  <2> QED
    BY <1>1, <2>1, <2>2, <2>3, <2>4, <2>5, <2>6, LTrMoveStep DEF TrTakes
<1> QED
  BY <1>3, <1>4

LEMMA LTrOfferOverRelay ==
  ASSUME TrInv, NEW a \in Attempts, OfferOverRelay(a)
  PROVE  TrInv'
<1>1. /\ trAtt[a].pc = "offer" /\ trAtt[a].route = "relay" /\ trUp[a]
      /\ UNCHANGED <<trReceiver, trUp, trEnd>> /\ UNCHANGED <<trCan, trDone, trToS>> /\ UNCHANGED <<trComp, trSrc>>
  BY DEF OfferOverRelay, SenderMoves
<1>2. TrSTyped /\ TrWaiters /\ TrEntryOK(trS) /\ trAtt[a] \in TrAttempts
  BY DEF TrInv, TrTyped, TrSTyped
<1>3. CASE trSrc # 0
  <2>1. FailAttempt(a, "source") /\ trAcc' = trAcc
    BY <1>3 DEF OfferOverRelay
  <2> QED
    BY <1>1, <2>1, LTrFailAttempt, LTrEndStep DEF TrErrors, TrTakes
<1>4. CASE trSrc = 0
  <2> DEFINE r == [trAtt[a] EXCEPT !.pc = "accept"]
  <2>1. ToReceiver(a, Msg("offer")) /\ UNCHANGED <<trS, trErr>> /\ SetAttempt(a, r) /\ trAcc' = a
    BY <1>4 DEF OfferOverRelay
  <2>2. r \in TrAttempts /\ r.pc = "accept" /\ r.got = trAtt[a].got /\ r.route = "relay"
    BY <1>1, <1>2 DEF TrAttempts
  <2>3. r.got = "none"
    BY <1>1, <1>2, <2>2 DEF TrWaiters, TrAttempts
  <2> HIDE DEF r
  <2>4. TrSTyped' /\ TrWaiters'
    BY <1>1, <1>2, <2>1, <2>2, <2>3, LTrAttemptMoves, LTrUp
  <2>5. TrSenderOwned'
    BY <1>1, <2>1, <2>2, LTrSameOwner DEF TrAsking
  <2>6. trToR' \in [Attempts -> Seq(TrRequests)]
    BY <2>1, LTrToReceiver, LTrMsg DEF TrInv, TrTyped, TrWires
  <2> QED
    BY <1>1, <2>1, <2>2, <2>3, <2>4, <2>5, <2>6, LTrMoveStep DEF TrTakes
<1> QED
  BY <1>3, <1>4

LEMMA LTrBeginStream ==
  ASSUME TrInv, NEW a \in Attempts, NEW off \in 0 .. TrChunks, trAtt[a].pc \in TrAsking, CanMarkTransferring(trS), BeginStream(a, off),
         UNCHANGED <<trReceiver, trUp, trEnd>>, UNCHANGED <<trCan, trDone, trErr>>, TrTakes(a), UNCHANGED <<trToR, trSrc>>,
         trAcc' = IF trAtt[a].pc = "accept" THEN 0 ELSE trAcc, trComp' = trComp
  PROVE  TrInv'
<1> DEFINE r == [trAtt[a] EXCEPT !.pc = "stream", !.off = off, !.tok = trS.tok, !.got = "none"]
<1>1. TrSTyped /\ TrWaiters /\ TrEntryOK(trS) /\ trAtt[a] \in TrAttempts
  BY DEF TrInv, TrTyped, TrSTyped
<1>2. trS' = [trS EXCEPT !.st = "transferring", !.off = off] /\ SetAttempt(a, r)
  BY <1>1 DEF BeginStream, Progress, To, Running, TrEntryOK, TrEntries
<1>3. TrEntryOK(trS') /\ trS'.st = "transferring"
  BY <1>1, <1>2 DEF CanMarkTransferring, TrEntryOK, TrEntries, States
<1>0. trS.tok \in Nat
  <2>1. trS.tok \in Attempts \cup {0}
    BY <1>1 DEF TrEntryOK, TrEntries
  <2> QED
    BY <2>1, TransferAssumption DEF Attempts
<1>4. r \in TrAttempts /\ r.pc = "stream" /\ r.got = "none"
  BY <1>0, <1>1 DEF TrAttempts
<1> HIDE DEF r
<1>5. TrSTyped' /\ TrWaiters'
  BY <1>1, <1>2, <1>3, <1>4, LTrAttemptMoves DEF TrAsking
<1>6. TrKept(TrAsking \cup {"stream", "complete"})'
  <2>1. CASE "s" \notin trEnd[a]
    <3>1. trAtt'[a].pc = "stream" /\ "s" \notin trEnd'[a]
      BY <1>1, <1>2, <1>4, <2>1, LTrSetAttempt
    <3> QED
      BY <3>1 DEF TrKept
  <2>2. CASE "s" \in trEnd[a]
    <3>1. ~TornDown
      BY <2>2 DEF TornDown, TrInv, TrPathsOK, TrAsking
    <3>2. TrKept(TrAsking)
      BY <3>1 DEF TrInv, TrSenderOwned, CanMarkTransferring
    <3> QED
      BY <1>1, <1>2, <1>4, <3>2, LTrKept DEF TrAsking
  <2> QED
    BY <2>1, <2>2
<1>7. TrSenderOwned'
  BY <1>3, <1>6 DEF TrSenderOwned
<1>8. trToR' \in [Attempts -> Seq(TrRequests)]
  BY DEF TrInv, TrTyped, TrWires
<1> QED
  BY <1>2, <1>4, <1>5, <1>7, <1>8, LTrMoveStep DEF TrAsking

LEMMA LTrReadDecision ==
  ASSUME TrInv, NEW a \in Attempts, ReadDecision(a)
  PROVE  TrInv'
<1>1. /\ trAtt[a].pc = "decision" /\ TrTakes(a)
      /\ UNCHANGED <<trReceiver, trUp, trEnd>> /\ UNCHANGED <<trCan, trDone>> /\ UNCHANGED <<trAcc, trComp, trSrc>>
  BY DEF ReadDecision, SenderMoves, TrTakes, HeadIs
<1> DEFINE d == Head(trToS[a])
<1>2. d.n \in 0 .. TrChunks + 1
  <2>1. trToS[a] \in Seq(TrAnswers) /\ trToS[a] # <<>>
    BY DEF ReadDecision, HeadIs, TrInv, TrTyped, TrWires
  <2> QED
    BY <2>1, LTrQueue DEF TrAnswers
<1>3. CASE d.n = 0 \/ ~CanMarkTransferring(trS)
  <2>1. PICK why \in TrErrors : FailAttempt(a, why)
    BY <1>3 DEF ReadDecision, TrErrors
  <2> QED
    BY <1>1, <2>1, LTrFailAttempt, LTrEndStep
<1>4. CASE ~(d.n = 0 \/ ~CanMarkTransferring(trS))
  <2>1. BeginStream(a, d.n - 1) /\ UNCHANGED <<trErr, trToR>>
    BY <1>4 DEF ReadDecision
  <2>2. d.n - 1 \in 0 .. TrChunks
    BY <1>2, <1>4, LTrConst
  <2> QED
    BY <1>1, <1>4, <2>1, <2>2, LTrBeginStream DEF TrAsking
<1> QED
  BY <1>3, <1>4

LEMMA LTrChunk ==
  ASSUME TrInv, NEW a \in Attempts
  PROVE  Chunk(a) \in TrRequests
BY DEF Chunk, TrRequests, TrInv, TrTyped, TrSTyped, TrAttempts

\* An attempt that streams goes on streaming, or to wait for the acknowledgement over a relay.
LEMMA LTrStreams ==
  ASSUME TrInv, NEW a \in Attempts, NEW r \in TrAttempts, SetAttempt(a, r), trAtt[a].pc = "stream", trUp[a],
         r.pc = "stream" \/ (r.pc = "complete" /\ trAtt[a].route = "relay"), r.got = trAtt[a].got, r.route = trAtt[a].route,
         UNCHANGED <<trReceiver, trUp, trEnd>>, UNCHANGED <<trCan, trDone, trErr>>, UNCHANGED <<trToS, trSrc, trAcc>>,
         trComp' = IF r.pc = "complete" THEN a ELSE trComp, TrEntryOK(trS'), trS'.st = trS.st,
         NEW m \in TrRequests, ToReceiver(a, m)
  PROVE  TrInv'
<1>1. TrSTyped /\ TrWaiters /\ trAtt[a] \in TrAttempts
  BY DEF TrInv, TrTyped, TrSTyped
<1>2. r.got = "none"
  BY <1>1 DEF TrWaiters, TrAttempts
<1>3. TrSTyped' /\ TrWaiters'
  BY <1>1, <1>2, LTrAttemptMoves, LTrUp
<1>4. TrSenderOwned'
  BY LTrSameOwner
<1>5. trToR' \in [Attempts -> Seq(TrRequests)]
  BY LTrToReceiver DEF TrInv, TrTyped, TrWires
<1> QED
  BY <1>2, <1>3, <1>4, <1>5, LTrMoveStep DEF TrTakes

LEMMA LTrChunkOverQuic ==
  ASSUME TrInv, NEW a \in Attempts, ChunkOverQuic(a)
  PROVE  TrInv'
<1>1. /\ trAtt[a].pc = "stream" /\ trUp[a] /\ trAtt[a].off < TrChunks
      /\ UNCHANGED <<trReceiver, trUp, trEnd>> /\ UNCHANGED <<trCan, trDone, trToS>> /\ UNCHANGED <<trAcc, trComp, trSrc>>
  BY DEF ChunkOverQuic, Streaming, SenderMoves
<1>3. CASE Cancelled(trAtt[a])
  <2>1. FailAttempt(a, "cancelled")
    BY <1>3 DEF ChunkOverQuic
  <2> QED
    BY <1>1, <2>1, LTrFailAttempt, LTrEndStep DEF TrErrors, TrTakes
<1>4. CASE ~Cancelled(trAtt[a])
  <2> DEFINE r == [trAtt[a] EXCEPT !.off = @ + 1]
  <2>1. ToReceiver(a, Chunk(a)) /\ UNCHANGED <<trS, trErr>> /\ SetAttempt(a, r)
    BY <1>4 DEF ChunkOverQuic
  <2>2. r \in TrAttempts /\ r.pc = "stream" /\ r.got = trAtt[a].got /\ r.route = trAtt[a].route
    BY <1>1, LTrConst DEF TrAttempts, TrInv, TrTyped, TrSTyped
  <2>3. TrEntryOK(trS')
    BY <2>1 DEF TrInv, TrTyped, TrSTyped
  <2> HIDE DEF r
  <2> QED
    BY <1>1, <2>1, <2>2, <2>3, LTrChunk, LTrStreams
<1> QED
  BY <1>3, <1>4

LEMMA LTrChunkOverRelay ==
  ASSUME TrInv, NEW a \in Attempts, ChunkOverRelay(a)
  PROVE  TrInv'
<1>1. /\ trAtt[a].pc = "stream" /\ trUp[a] /\ trAtt[a].off < TrChunks
      /\ UNCHANGED <<trReceiver, trUp, trEnd>> /\ UNCHANGED <<trCan, trDone, trToS>> /\ UNCHANGED <<trAcc, trComp, trSrc>>
  BY DEF ChunkOverRelay, Streaming, SenderMoves
<1>3. CASE Cancelled(trAtt[a])
  <2>1. FailAttempt(a, "cancelled")
    BY <1>3 DEF ChunkOverRelay
  <2> QED
    BY <1>1, <2>1, LTrFailAttempt, LTrEndStep DEF TrErrors, TrTakes
<1>4. CASE ~Cancelled(trAtt[a])
  <2> DEFINE r == [trAtt[a] EXCEPT !.off = @ + 1]
  <2>1. ToReceiver(a, Chunk(a)) /\ UNCHANGED trErr /\ SetAttempt(a, r) /\ trS' = Progress(trS, trAtt[a].off + 1)
    BY <1>4 DEF ChunkOverRelay
  <2>2. r \in TrAttempts /\ r.pc = "stream" /\ r.got = trAtt[a].got /\ r.route = trAtt[a].route
        /\ trAtt[a].off + 1 \in 0 .. TrChunks
    BY <1>1, LTrConst DEF TrAttempts, TrInv, TrTyped, TrSTyped
  <2>3. TrEntryOK(trS') /\ trS'.st = trS.st
    BY <2>1, <2>2 DEF Progress, TrInv, TrTyped, TrSTyped, TrEntryOK, TrEntries
  <2> HIDE DEF r
  <2> QED
    BY <1>1, <2>1, <2>2, <2>3, LTrChunk, LTrStreams
<1> QED
  BY <1>3, <1>4

LEMMA LTrEndOverRelay ==
  ASSUME TrInv, NEW a \in Attempts, EndOverRelay(a)
  PROVE  TrInv'
<1>1. /\ trAtt[a].pc = "stream" /\ trAtt[a].route = "relay" /\ trUp[a]
      /\ UNCHANGED <<trReceiver, trUp, trEnd>> /\ UNCHANGED <<trCan, trDone, trToS>> /\ UNCHANGED <<trAcc, trSrc>>
  BY DEF EndOverRelay, Streaming, SenderMoves
<1>3. CASE Cancelled(trAtt[a])
  <2>1. FailAttempt(a, "cancelled") /\ trComp' = trComp
    BY <1>3 DEF EndOverRelay
  <2> QED
    BY <1>1, <2>1, LTrFailAttempt, LTrEndStep DEF TrErrors, TrTakes
<1>4. CASE ~Cancelled(trAtt[a])
  <2> DEFINE r == [trAtt[a] EXCEPT !.pc = "complete"]
  <2>1. ToReceiver(a, Msg("complete")) /\ UNCHANGED <<trS, trErr>> /\ SetAttempt(a, r) /\ trComp' = a
    BY <1>4 DEF EndOverRelay
  <2>2. r \in TrAttempts /\ r.pc = "complete" /\ r.got = trAtt[a].got /\ r.route = trAtt[a].route
    BY <1>1, LTrConst DEF TrAttempts, TrInv, TrTyped, TrSTyped
  <2>3. TrEntryOK(trS')
    BY <2>1 DEF TrInv, TrTyped, TrSTyped
  <2> HIDE DEF r
  <2> QED
    BY <1>1, <2>1, <2>2, <2>3, LTrMsg, LTrStreams
<1> QED
  BY <1>3, <1>4

LEMMA LTrEndOverQuic ==
  ASSUME TrInv, NEW a \in Attempts, EndOverQuic(a)
  PROVE  TrInv'
<1>1. /\ trAtt[a].pc = "stream" /\ trUp[a]
      /\ UNCHANGED <<trReceiver, trUp, trEnd>> /\ UNCHANGED <<trCan, trDone, trToS>> /\ UNCHANGED <<trAcc, trComp, trSrc>>
  BY DEF EndOverQuic, Streaming, SenderMoves
<1>2. TrSTyped /\ TrWaiters /\ TrEntryOK(trS) /\ trAtt[a] \in TrAttempts
  BY DEF TrInv, TrTyped, TrSTyped
<1>3. CASE Cancelled(trAtt[a])
  <2>1. FailAttempt(a, "cancelled")
    BY <1>3 DEF EndOverQuic
  <2> QED
    BY <1>1, <2>1, LTrFailAttempt, LTrEndStep DEF TrErrors, TrTakes
<1>4. CASE ~Cancelled(trAtt[a]) /\ CanMarkVerifying(trS)
  <2> DEFINE r == [trAtt[a] EXCEPT !.pc = "verify"]
  <2>1. UNCHANGED <<trErr, trToR>> /\ trS' = To(trS, "verifying") /\ SetAttempt(a, r)
    BY <1>4 DEF EndOverQuic
  <2>2. r \in TrAttempts /\ r.pc = "verify" /\ r.got = trAtt[a].got
    BY <1>2 DEF TrAttempts
  <2>3. r.got = "none"
    BY <1>1, <1>2, <2>2 DEF TrWaiters, TrAttempts
  <2> HIDE DEF r
  <2>4. TrEntryOK(trS') /\ trS'.st = "verifying"
    BY <1>2, <1>4, <2>1 DEF To, CanMarkVerifying, TrEntryOK, TrEntries, States
  <2>5. TrSTyped' /\ TrWaiters'
    BY <1>1, <1>2, <2>1, <2>2, <2>3, <2>4, LTrAttemptMoves
  <2>6. trAtt'[a].pc = "verify" /\ "s" \notin trEnd'[a]
    BY <1>1, <1>2, <2>1, <2>2, LTrSetAttempt, LTrUp
  <2>7. TrSenderOwned'
    BY <2>4, <2>6 DEF TrSenderOwned, TrKept
  <2>8. trToR' \in [Attempts -> Seq(TrRequests)]
    BY <2>1 DEF TrInv, TrTyped, TrWires
  <2> QED
    BY <1>1, <2>1, <2>2, <2>3, <2>5, <2>7, <2>8, LTrMoveStep DEF TrTakes
<1>5. CASE ~Cancelled(trAtt[a]) /\ ~CanMarkVerifying(trS)
  <2>1. UNCHANGED <<trErr, trToR>> /\ EndAttempt(a) /\ trS' = trS
    BY <1>5 DEF EndOverQuic
  <2>2. /\ trAtt' \in [Attempts -> TrAttempts] /\ trAtt'[a].pc = "done" /\ trAtt'[a].got = "none"
        /\ \A b \in Attempts \ {a} : trAtt'[b] = trAtt[b]
    BY <1>2, <2>1, LTrEndAttempt
  <2>3. TrSTyped'
    BY <1>1, <2>1, <2>2 DEF TrInv, TrTyped, TrSTyped
  <2>4. TrWaiters'
    BY <1>1, <2>2 DEF TrInv, TrTyped, TrSTyped, TrSlot, TrWaiters
  <2>5. TrKept(TrAsking) => TrKept(TrAsking)'
    BY <1>1, <2>2 DEF TrKept, TrAsking
  <2>6. TrKept({"verify"}) => TrKept({"verify"})'
    BY <1>1, <2>2 DEF TrKept
  <2>7. TornDown' <=> TornDown
    BY <1>1 DEF TornDown
  <2>8. TrSenderOwned'
    BY <1>5, <2>1, <2>5, <2>6, <2>7 DEF TrSenderOwned, TrInv, CanMarkVerifying
  <2>9. trToR' \in [Attempts -> Seq(TrRequests)] /\ trErr' \subseteq TrErrors
    BY <2>1 DEF TrInv, TrTyped, TrWires, TrReports
  <2> QED
    BY <1>1, <2>2, <2>3, <2>4, <2>8, <2>9, LTrEndStep DEF TrTakes
<1> QED
  BY <1>3, <1>4, <1>5

LEMMA LTrClaim ==
  ASSUME TrInv, NEW a \in Attempts, trToS[a] # <<>>, Head(trToS[a]).k \in {"completion", "ack"}
  PROVE  Stored
<1>1. trToS[a] \in Seq(TrAnswers)
  BY DEF TrInv, TrTyped, TrWires
<1>2. 1 \in 1 .. Len(trToS[a]) /\ Head(trToS[a]) = trToS[a][1]
  BY <1>1, HeadTailProperties, EmptySeq
<1>3. ~TrQuiet(trToS[a])
  BY <1>2 DEF TrQuiet
<1> QED
  BY <1>3 DEF TrInv, TrStored

LEMMA LTrReadCompletion ==
  ASSUME TrInv, NEW a \in Attempts, ReadCompletion(a)
  PROVE  TrInv'
<1>1. /\ trAtt[a].pc = "verify" /\ TrTakes(a) /\ Stored
      /\ UNCHANGED <<trReceiver, trUp, trEnd>> /\ trCan' = trCan /\ UNCHANGED <<trAcc, trComp, trSrc, trToR>>
  BY LTrClaim DEF ReadCompletion, TrTakes, HeadIs
<1>2. TrSTyped /\ TrWaiters /\ TrEntryOK(trS) /\ EndAttempt(a) /\ trErr' = trErr
  BY DEF TrInv, TrTyped, TrSTyped, ReadCompletion, CompleteAttempt, StaleAttempt
<1>3. /\ trAtt' \in [Attempts -> TrAttempts] /\ trAtt'[a].pc = "done" /\ trAtt'[a].got = "none"
      /\ \A b \in Attempts \ {a} : trAtt'[b] = trAtt[b]
  BY <1>2, LTrEndAttempt
<1>4. trDone' \in [s : Nat, r : Nat]
  BY DEF ReadCompletion, CompleteAttempt, StaleAttempt, TrInv, TrTyped, TrReports
<1>5. trToR' \in [Attempts -> Seq(TrRequests)] /\ trErr' \subseteq TrErrors
  BY <1>1, <1>2 DEF TrInv, TrTyped, TrWires, TrReports
<1>6. CASE CanMarkCompleted(trS)
  <2>1. trS' = NoTransfer
    BY <1>6 DEF ReadCompletion, CompleteAttempt
  <2>2. TrEntryOK(trS') /\ trS'.st = "absent"
    BY <2>1, LTrConst DEF NoTransfer, TrEntryOK, TrEntries
  <2>3. TrSTyped' /\ TrWaiters' /\ TrSenderOwned'
    BY <1>1, <1>2, <2>2, LTrAttemptEnds
  <2> QED
    BY <1>1, <1>3, <1>4, <1>5, <2>3, LTrEndStep
<1>7. CASE ~CanMarkCompleted(trS)
  <2>1. trS' = trS
    BY <1>7 DEF ReadCompletion, StaleAttempt
  <2>2. TrSTyped'
    BY <1>1, <1>3, <2>1 DEF TrInv, TrTyped, TrSTyped
  <2>3. TrWaiters'
    BY <1>1, <1>3 DEF TrInv, TrTyped, TrSTyped, TrSlot, TrWaiters
  <2>4. TrKept(TrAsking) => TrKept(TrAsking)'
    BY <1>1, <1>3 DEF TrKept, TrAsking
  <2>5. TornDown' <=> TornDown
    BY <1>1 DEF TornDown
  <2>6. TrSenderOwned'
    BY <1>7, <2>1, <2>4, <2>5 DEF TrSenderOwned, TrInv, CanMarkCompleted
  <2> QED
    BY <1>1, <1>3, <1>4, <1>5, <2>2, <2>3, <2>6, LTrEndStep
<1> QED
  BY <1>6, <1>7

LEMMA LTrAttemptLost ==
  ASSUME TrInv, NEW a \in Attempts, AttemptLost(a)
  PROVE  TrInv'
<1>1. /\ LoseAttempt(a) /\ EndAttempt(a) /\ LeaveWait(a) /\ UNCHANGED <<trReceiver, trUp, trEnd>> /\ UNCHANGED <<trCan, trDone, trSrc>>
      /\ UNCHANGED <<trToR, trToS>>
  BY DEF AttemptLost, LoseAttempt, SenderMoves
<1>2. TrSTyped /\ TrWaiters /\ TrReports /\ TrSenderOwned
  BY DEF TrInv, TrTyped
<1>3. TrEntryOK(trS') /\ trS'.st \in {"absent", "paused"} /\ trErr' \subseteq TrErrors
  BY <1>1, <1>2, LTrLose
<1>4. TrSTyped' /\ TrWaiters' /\ TrSenderOwned'
  BY <1>1, <1>2, <1>3, LTrAttemptEnds DEF LeaveWait
<1>5. trToR' \in [Attempts -> Seq(TrRequests)]
  BY <1>1 DEF TrInv, TrTyped, TrWires
<1> QED
  BY <1>1, <1>2, <1>3, <1>4, <1>5, LTrEndAttempt, LTrEndStep DEF TrTakes

LEMMA LTrRelayAccepted ==
  ASSUME TrInv, NEW a \in Attempts, RelayAccepted(a)
  PROVE  TrInv'
<1>1. /\ LeaveWait(a) /\ UNCHANGED <<trReceiver, trUp, trEnd>> /\ UNCHANGED <<trCan, trDone, trSrc>> /\ trToS' = trToS
  BY DEF RelayAccepted, SenderMoves
<1>2. trAtt[a].pc = "accept" /\ (trAtt[a].got = "accept" => trAtt[a].tok \in 0 .. TrChunks)
  BY DEF RelayAccepted, TrInv, TrWaiters, TrTyped, TrSTyped
<1>3. CASE trAtt[a].got = "accept" /\ trAtt[a].tok >= trAtt[a].off /\ CanMarkTransferring(trS)
  <2>1. BeginStream(a, trAtt[a].tok) /\ UNCHANGED <<trErr, trToR>>
    BY <1>3 DEF RelayAccepted
  <2> QED
    BY <1>1, <1>2, <1>3, <2>1, LTrBeginStream DEF LeaveWait, TrAsking, TrTakes
<1>4. CASE ~(trAtt[a].got = "accept" /\ trAtt[a].tok >= trAtt[a].off /\ CanMarkTransferring(trS))
  <2>1. PICK why \in TrErrors : FailAttempt(a, why)
    BY <1>4 DEF RelayAccepted, TrErrors
  <2> QED
    BY <1>1, <1>2, <2>1, LTrFailAttempt, LTrEndStep DEF LeaveWait, TrTakes
<1> QED
  BY <1>3, <1>4

LEMMA LTrRelayCompleted ==
  ASSUME TrInv, NEW a \in Attempts, RelayCompleted(a)
  PROVE  TrInv'
<1>1. /\ LeaveWait(a) /\ UNCHANGED <<trReceiver, trUp, trEnd>> /\ UNCHANGED <<trCan, trSrc>> /\ UNCHANGED <<trToR, trToS>>
      /\ EndAttempt(a)
  BY DEF RelayCompleted, SenderMoves, LoseAttempt, CompleteAttempt
<1>2. TrSTyped /\ TrWaiters /\ TrReports /\ TrSenderOwned /\ trAtt[a].pc = "complete"
  BY DEF TrInv, TrTyped, TrWaiters, RelayCompleted
<1>3. TrEntryOK(trS') /\ trS'.st \in {"absent", "paused"} /\ trErr' \subseteq TrErrors
  <2>1. CASE LoseAttempt(a)
    BY <1>2, <2>1, LTrLose
  <2>2. CASE trS' = NoTransfer /\ trErr' = trErr
    BY <1>2, <2>2, LTrConst DEF NoTransfer, TrEntryOK, TrEntries, TrReports
  <2> QED
    BY <2>1, <2>2 DEF RelayCompleted, CompleteAttempt
<1>4. trDone' = trDone \/ (Stored /\ trDone' \in [s : Nat, r : Nat])
  <2>1. trAtt[a].got = "ack" => Stored
    BY DEF TrInv, TrStored
  <2>2. trDone' = trDone \/ (trAtt[a].got = "ack" /\ trDone' = [trDone EXCEPT !.s = @ + 1])
    BY DEF RelayCompleted, CompleteAttempt
  <2> QED
    BY <1>2, <2>1, <2>2 DEF TrReports
<1>5. TrSTyped' /\ TrWaiters' /\ TrSenderOwned'
  BY <1>1, <1>2, <1>3, LTrAttemptEnds DEF LeaveWait
<1>6. trToR' \in [Attempts -> Seq(TrRequests)]
  BY <1>1 DEF TrInv, TrTyped, TrWires
<1> QED
  BY <1>1, <1>2, <1>3, <1>4, <1>5, <1>6, LTrEndAttempt, LTrEndStep DEF TrTakes

\* Waiting attempts are told something: their stages stay.
TrTold ==
  /\ trAtt' \in [Attempts -> TrAttempts]
  /\ \A b \in Attempts :
       /\ trAtt'[b].pc = trAtt[b].pc /\ trAtt'[b].route = trAtt[b].route
       /\ \/ trAtt'[b] = trAtt[b]
          \/ b = trAcc /\ trAtt'[b].got = "reject"
          \/ b = trAcc /\ trAtt'[b].got = "accept" /\ trAtt'[b].tok \in 0 .. TrChunks
          \/ b = trComp /\ trAtt'[b].got = "nack"
          \/ b = trComp /\ trAtt'[b].got = "ack" /\ Stored
LEMMA LTrTold ==
  ASSUME TrInv, TrTold, UNCHANGED <<trReceiver, trUp, trEnd>>, UNCHANGED <<trDone, trErr, trSrc, trToR>>,
         trS' = trS \/ trS' = NoTransfer, trCan' \subseteq Attempts, trAcc' \in {0, trAcc}, trComp' \in {0, trComp},
         trToS' \in [Attempts -> Seq(TrAnswers)],
         \A b \in Attempts : (~trUp[b] => trToS'[b] = <<>>) /\ (TrQuiet(trToS[b]) => TrQuiet(trToS'[b]))
  PROVE  TrInv'
<1>1. TrEntryOK(trS')
  BY LTrConst DEF NoTransfer, TrEntryOK, TrEntries, TrInv, TrTyped, TrSTyped
<1>2. TrSTyped'
  BY <1>1 DEF TrInv, TrTyped, TrSTyped, TrSlot, TrTold
<1>3. TrWaiters'
  <2>1. ASSUME NEW b \in Attempts
        PROVE  /\ trAtt'[b].pc \in {"accept", "complete"} => trAtt'[b].route = "relay"
               /\ trAtt'[b].got \in {"accept", "reject"} => trAtt'[b].pc = "accept"
               /\ trAtt'[b].got \in {"ack", "nack"} => trAtt'[b].pc = "complete"
    BY LTrConst DEF TrInv, TrWaiters, TrTold
  <2>2. trAcc' # 0 => trAtt'[trAcc'].pc = "accept" /\ "s" \notin trEnd'[trAcc']
    BY DEF TrInv, TrWaiters, TrTold, TrTyped, TrSTyped, TrSlot
  <2>3. trComp' # 0 => trAtt'[trComp'].pc = "complete" /\ "s" \notin trEnd'[trComp']
    BY DEF TrInv, TrWaiters, TrTold, TrTyped, TrSTyped, TrSlot
  <2> QED
    BY <2>1, <2>2, <2>3 DEF TrWaiters
<1>4. TrSenderOwned'
  <2>1. CASE trS' = NoTransfer
    BY <2>1 DEF TrSenderOwned, NoTransfer
  <2>2. CASE trS' = trS
    <3>1. \A P \in {TrAsking, TrAsking \cup {"stream", "complete"}, {"verify"}} : TrKept(P) => TrKept(P)'
      BY DEF TrKept, TrTold
    <3>2. TornDown' <=> TornDown
      BY DEF TornDown
    <3> QED
      BY <2>2, <3>1, <3>2 DEF TrInv, TrSenderOwned
  <2> QED
    BY <2>1, <2>2
<1>5. TrWires' /\ TrReports'
  BY DEF TrInv, TrTyped, TrWires, TrReports
<1>6. ASSUME NEW b \in Attempts
      PROVE  /\ trAtt'[b].pc = "idle" => trAtt[b].pc = "idle"
             /\ trAtt[b].pc = "done" => trAtt'[b].pc = "done"
             /\ trAtt'[b].got = "ack" => Stored \/ trAtt[b].got = "ack"
  BY DEF TrTold
<1> QED
  BY <1>2, <1>3, <1>4, <1>5, <1>6, LTrSenderStep

LEMMA LTrRelayAnswer ==
  ASSUME TrInv, NEW a \in Attempts, RelayAnswer(a)
  PROVE  TrInv'
<1> DEFINE m == Head(trToS[a])
<1>1. /\ trToS[a] # <<>> /\ trUp[a] /\ UNCHANGED <<trReceiver, trUp, trEnd>> /\ UNCHANGED <<trDone, trErr, trSrc, trToR>>
  BY DEF RelayAnswer, trOutcome
<1>2. /\ trToS \in [Attempts -> Seq(TrAnswers)] /\ trAtt \in [Attempts -> TrAttempts] /\ trAcc \in TrSlot /\ trComp \in TrSlot
      /\ trCan \subseteq Attempts /\ TrEntryOK(trS) /\ 0 \notin Attempts
  BY LTrConst DEF TrInv, TrTyped, TrWires, TrSTyped, TrReports
<1>3. m \in TrAnswers /\ Tail(trToS[a]) \in Seq(TrAnswers)
  BY <1>1, <1>2, LTrQueue
<1>4. CASE m.k = "accept" /\ trAcc' = 0 /\ trToS' = [trToS EXCEPT ![a] = Tail(@)]
           /\ trAtt' = (IF trAcc = 0 THEN trAtt ELSE [trAtt EXCEPT ![trAcc].got = "accept", ![trAcc].tok = m.n])
           /\ UNCHANGED <<trS, trComp, trCan>>
  <2>1. m.n \in 0 .. TrChunks /\ m.n \in Nat
    BY <1>3, <1>4, LTrConst DEF TrAnswers
  <2>4. TrTold
    <3>2. CASE trAcc = 0
      BY <1>2, <1>4, <3>2 DEF TrTold
    <3>3. CASE trAcc # 0
      <4> DEFINE r == [trAtt[trAcc] EXCEPT !.got = "accept", !.tok = m.n]
      <4>1. trAcc \in Attempts
        BY <1>2, <3>3 DEF TrSlot
      <4>2. r \in TrAttempts /\ r.got = "accept" /\ r.tok = m.n /\ r.pc = trAtt[trAcc].pc /\ r.route = trAtt[trAcc].route
        BY <1>2, <2>1, <4>1 DEF TrAttempts
      <4>3. trAtt' = [trAtt EXCEPT ![trAcc] = r]
        BY <1>2, <1>4, <3>3, <4>1
      <4> HIDE DEF r, m
      <4> QED
        BY <1>2, <2>1, <4>1, <4>2, <4>3 DEF TrTold
    <3> QED
      BY <3>2, <3>3
  <2> QED
    BY <1>1, <1>2, <1>4, <2>4, LTrTold, LTrTakes DEF TrTakes
<1>5. CASE m.k = "ack" /\ trComp' = 0 /\ trToS' = [trToS EXCEPT ![a] = Tail(@)]
           /\ trAtt' = (IF trComp = 0 THEN trAtt ELSE [trAtt EXCEPT ![trComp].got = "ack"])
           /\ UNCHANGED <<trS, trAcc, trCan>>
  <2>1. Stored
    BY <1>1, <1>5, LTrClaim
  <2>4. TrTold
    <3>2. CASE trComp = 0
      BY <1>2, <1>5, <3>2 DEF TrTold
    <3>3. CASE trComp # 0
      <4> DEFINE r == [trAtt[trComp] EXCEPT !.got = "ack"]
      <4>1. trComp \in Attempts
        BY <1>2, <3>3 DEF TrSlot
      <4>2. r \in TrAttempts /\ r.got = "ack" /\ r.pc = trAtt[trComp].pc /\ r.route = trAtt[trComp].route
        BY <1>2, <4>1 DEF TrAttempts
      <4>3. trAtt' = [trAtt EXCEPT ![trComp] = r]
        BY <1>2, <1>5, <3>3, <4>1
      <4> HIDE DEF r, m
      <4> QED
        BY <1>2, <2>1, <4>1, <4>2, <4>3 DEF TrTold
    <3> QED
      BY <3>2, <3>3
  <2> QED
    BY <1>1, <1>2, <1>5, <2>4, LTrTold, LTrTakes DEF TrTakes
<1>6. CASE m.k = "cancel" /\ trAcc' = 0 /\ trComp' = 0
           /\ trAtt' = [b \in Attempts |-> IF b # 0 /\ b \in {trAcc, trComp}
                                             THEN [trAtt[b] EXCEPT !.got = IF b = trAcc THEN "reject" ELSE "nack"]
                                             ELSE trAtt[b]]
           /\ trToS' = [trToS EXCEPT ![a] = <<Msg("drop")>> \o Tail(@)] /\ UNCHANGED <<trS, trCan>>
  <2>1. ASSUME NEW b \in Attempts
        PROVE  /\ trAtt'[b] \in TrAttempts /\ trAtt'[b].pc = trAtt[b].pc /\ trAtt'[b].route = trAtt[b].route
               /\ trAtt'[b] = trAtt[b] \/ (b = trAcc /\ trAtt'[b].got = "reject") \/ (b = trComp /\ trAtt'[b].got = "nack")
    BY <1>2, <1>6 DEF TrAttempts
  <2>2. DOMAIN trAtt' = Attempts /\ trAtt' = [b \in Attempts |-> trAtt'[b]]
    BY <1>6
  <2>3. trAtt' \in [Attempts -> TrAttempts]
    BY <2>1, <2>2
  <2>4. TrTold
    BY <2>1, <2>3 DEF TrTold
  <2> DEFINE q == <<Msg("drop")>> \o Tail(trToS[a])
  <2>5. q \in Seq(TrAnswers) /\ Len(q) = 1 + Len(Tail(trToS[a]))
        /\ \A i \in 1 .. Len(q) : q[i] = IF i = 1 THEN Msg("drop") ELSE Tail(trToS[a])[i - 1]
    BY <1>3, LTrMsg
  <2>6. TrQuiet(trToS[a]) => TrQuiet(q)
    <3>1. TrQuiet(trToS[a]) => TrQuiet(Tail(trToS[a]))
      BY <1>1, <1>2, LTrQueue
    <3>2. Len(Tail(trToS[a])) \in Nat
      BY <1>3
    <3>3. Msg("drop").k = "drop"
      BY DEF Msg
    <3> QED
      BY <2>5, <3>1, <3>2, <3>3 DEF TrQuiet
  <2> HIDE DEF q
  <2>7. trToS' \in [Attempts -> Seq(TrAnswers)] /\ \A b \in Attempts : trToS'[b] = IF b = a THEN q ELSE trToS[b]
    BY <1>2, <1>6, <2>5 DEF q
  <2>8. \A b \in Attempts : (~trUp[b] => trToS'[b] = <<>>) /\ (TrQuiet(trToS[b]) => TrQuiet(trToS'[b]))
    BY <1>1, <2>6, <2>7 DEF TrInv, TrPathsOK
  <2> QED
    BY <1>1, <1>2, <1>6, <2>4, <2>7, <2>8, LTrTold
<1>7. CASE m.k = "drop" /\ trToS' = [trToS EXCEPT ![a] = Tail(@)]
           /\ trS' = NoTransfer /\ trCan' = (IF CanFail(trS) THEN trCan \cup {trS.tok} ELSE trCan)
           /\ UNCHANGED <<trAtt, trAcc, trComp>>
  <2>1. TrTold
    BY <1>2, <1>7 DEF TrTold
  <2>2. trCan' \subseteq Attempts
    BY <1>2, <1>7 DEF TrEntryOK, CanFail, Running
  <2> QED
    BY <1>1, <1>7, <2>1, <2>2, LTrTold, LTrTakes DEF TrTakes
<1> QED
  BY <1>4, <1>5, <1>6, <1>7 DEF RelayAnswer

LEMMA LTrCancelAtSender ==
  ASSUME TrInv, CancelAtSender
  PROVE  TrInv'
<1>1. /\ UNCHANGED <<trReceiver, trUp, trEnd>> /\ UNCHANGED <<trDone, trErr, trSrc, trToS, trAtt>>
      /\ trS' = NoTransfer /\ trAcc' = 0 /\ trComp' = 0
      /\ CanFail(trS) /\ trCan' = trCan \cup {trS.tok} /\ TellCancel(trToR)
  BY DEF CancelAtSender, trOutcome
<1>2. TrEntryOK(trS') /\ trS'.st = "absent"
  BY <1>1, LTrConst DEF NoTransfer, TrEntryOK, TrEntries
<1>3. TrSTyped' /\ TrWaiters'
  BY <1>1, <1>2 DEF TrInv, TrTyped, TrSTyped, TrSlot, TrWaiters
<1>4. TrSenderOwned'
  BY <1>2 DEF TrSenderOwned
<1>5. trCan' \subseteq Attempts
  BY <1>1 DEF TrInv, TrTyped, TrSTyped, TrReports, TrEntryOK, CanFail, Running
<1>6. trToR' \in [Attempts -> Seq(TrRequests)]
  <2>1. trToR \in [Attempts -> Seq(TrRequests)] /\ Msg("cancel") \in TrRequests
    BY LTrMsg DEF TrInv, TrTyped, TrWires
  <2>2. CASE trToR' = trToR
    BY <2>1, <2>2
  <2>3. ASSUME NEW a \in Attempts, trToR' = [trToR EXCEPT ![a] = Append(@, Msg("cancel"))]
        PROVE  trToR' \in [Attempts -> Seq(TrRequests)]
    <3>1. Append(trToR[a], Msg("cancel")) \in Seq(TrRequests)
      BY <2>1, LTrAppend
    <3> QED
      BY <2>1, <2>3, <3>1
  <2> QED
    BY <1>1, <2>2, <2>3 DEF TellCancel
<1>7. TrWires' /\ TrReports'
  BY <1>1, <1>5, <1>6 DEF TrInv, TrTyped, TrWires, TrReports
<1>8. \A b \in Attempts : ~trUp[b] => trToS[b] = <<>>
  BY DEF TrInv, TrPathsOK
<1> QED
  BY <1>1, <1>3, <1>4, <1>7, <1>8, LTrSenderStep

-----------------------------------------------------------------------------
(* Transfers: loss of a path and teardown                                  *)

\* One side notes how far its teardown of one session is.
TrNoted(a, x) == ~trUp[a] /\ trUp' = trUp /\ trEnd' = [trEnd EXCEPT ![a] = @ \cup {x}]
LEMMA LTrNoted ==
  ASSUME TrInv, NEW a \in Attempts, NEW x \in {"s", "r", "sx", "rx"}, TrNoted(a, x), trToS' = trToS,
         \A b \in Attempts : /\ trAtt'[b].pc = "idle" => trAtt[b].pc = "idle"
                             /\ trAtt[b].pc = "done" => trAtt'[b].pc = "done",
         x = "sx" => trAtt'[a].pc = "done"
  PROVE  /\ TrPathsOK' /\ trEnd'[a] = trEnd[a] \cup {x} /\ \A b \in Attempts \ {a} : trEnd'[b] = trEnd[b]
<1>1. TrPathsOK
  BY DEF TrInv
<1>2. trEnd'[a] = trEnd[a] \cup {x} /\ \A b \in Attempts \ {a} : trEnd'[b] = trEnd[b]
  BY <1>1 DEF TrPathsOK, TrNoted
<1>3. trEnd' \in [Attempts -> SUBSET {"s", "r", "sx", "rx"}]
  BY <1>1 DEF TrPathsOK, TrNoted
<1>4. ASSUME NEW b \in Attempts
      PROVE  /\ trAtt'[b].pc = "idle" => trUp[b]
             /\ trUp[b] => trEnd'[b] = {}
             /\ ~trUp[b] => trToS'[b] = <<>>
             /\ "sx" \in trEnd'[b] => trAtt'[b].pc = "done"
  <2>1. CASE b = a
    BY <1>1, <1>2, <2>1 DEF TrPathsOK, TrNoted
  <2>2. CASE b # a
    <3>1. trEnd'[b] = trEnd[b]
      BY <1>2, <2>2
    <3> QED
      BY <1>1, <3>1 DEF TrPathsOK
  <2> QED
    BY <2>1, <2>2
<1>5. TrPathsOK'
  BY <1>1, <1>3, <1>4 DEF TrPathsOK, TrNoted
<1> QED
  BY <1>2, <1>5

\* What was reported of completion is not touched.
LEMMA LTrSameReports ==
  ASSUME TrStored, UNCHANGED <<trFinal, trDone, trToS>>,
         trAct'.done = trAct.done \/ ~trAct'.done,
         \A b \in Attempts : /\ trAtt'[b].got = "ack" => trAtt[b].got = "ack"
                             /\ trRecv'[b].pc = "moved" => trRecv[b].pc = "moved"
  PROVE  TrStored'
<1>1. CASE Stored
  BY <1>1 DEF TrStored, Stored
<1>2. CASE ~Stored
  BY <1>2 DEF TrStored, TrQuiet
<1> QED
  BY <1>1, <1>2

LEMMA LTrSenderPauses ==
  ASSUME TrInv, NEW a \in Attempts, SenderPauses(a)
  PROVE  TrInv'
<1>1. /\ TrNoted(a, "s") /\ trS' = Pause(trS) /\ UNCHANGED trReceiver /\ UNCHANGED <<trDone, trErr, trCan>>
      /\ UNCHANGED <<trAtt, trToR, trToS, trSrc>>
      /\ (trAtt[a].route = "relay" /\ trAcc' = 0 /\ trComp' = 0) \/ (trAtt[a].route # "relay" /\ UNCHANGED <<trAcc, trComp>>)
  BY DEF SenderPauses, TrNoted, trOutcome
<1>2. TrPathsOK' /\ trEnd'[a] = trEnd[a] \cup {"s"} /\ \A b \in Attempts \ {a} : trEnd'[b] = trEnd[b]
  BY <1>1, LTrNoted
<1>3. TrEntryOK(trS') /\ trS'.st \in {"absent", "paused"}
  BY <1>1 DEF Pause, To, Running, TrInv, TrTyped, TrSTyped, TrSenderOwned, TrEntryOK, TrEntries, States
<1>4. TrSTyped'
  BY <1>1, <1>3 DEF TrInv, TrTyped, TrSTyped, TrSlot
<1>5. TrWaiters'
  <2>1. trAcc' # 0 => trAcc' = trAcc /\ trAcc \in Attempts \ {a} /\ trAtt[trAcc].pc = "accept" /\ "s" \notin trEnd[trAcc]
    BY <1>1 DEF TrInv, TrWaiters, TrTyped, TrSTyped, TrSlot
  <2>2. trComp' # 0 => trComp' = trComp /\ trComp \in Attempts \ {a} /\ trAtt[trComp].pc = "complete" /\ "s" \notin trEnd[trComp]
    BY <1>1 DEF TrInv, TrWaiters, TrTyped, TrSTyped, TrSlot
  <2> QED
    BY <1>1, <1>2, <2>1, <2>2 DEF TrInv, TrWaiters
<1>6. TrSenderOwned'
  BY <1>3 DEF TrSenderOwned
<1>7. TrRTyped' /\ TrFiles' /\ TrReceiverOwned'
  BY <1>1, <1>2, LTrReceiverFrame DEF TrInv, TrTyped
<1>8. TrStored'
  BY <1>1, LTrSameReports DEF TrInv, trReceiver
<1>9. TrWires' /\ TrReports'
  BY <1>1 DEF TrInv, TrTyped, TrWires, TrReports
<1> QED
  BY <1>2, <1>4, <1>5, <1>6, <1>7, <1>8, <1>9 DEF TrInv, TrTyped

LEMMA LTrSenderAborts ==
  ASSUME TrInv, NEW a \in Attempts, SenderAborts(a)
  PROVE  TrInv'
<1>1. /\ "s" \in trEnd[a] /\ "sx" \notin trEnd[a] /\ EndAttempt(a) /\ UNCHANGED trReceiver /\ UNCHANGED <<trDone, trErr, trCan>>
      /\ UNCHANGED <<trS, trToR, trToS, trSrc, trAcc, trComp>>
  BY DEF SenderAborts, trOutcome
<1>2. TrNoted(a, "sx")
  BY <1>1 DEF SenderAborts, TrNoted, TrInv, TrPathsOK
<1>3. /\ trAtt' \in [Attempts -> TrAttempts] /\ trAtt'[a].pc = "done" /\ trAtt'[a].got = "none"
      /\ \A b \in Attempts \ {a} : trAtt'[b] = trAtt[b]
  BY <1>1, LTrEndAttempt DEF TrInv, TrTyped
<1>4. TrPathsOK' /\ trEnd'[a] = trEnd[a] \cup {"sx"} /\ \A b \in Attempts \ {a} : trEnd'[b] = trEnd[b]
  BY <1>1, <1>2, <1>3, LTrNoted
<1>5. TrSTyped'
  BY <1>1, <1>3 DEF TrInv, TrTyped, TrSTyped
<1>6. TrWaiters'
  <2>1. trAcc # 0 => trAcc \in Attempts \ {a} /\ trAtt[trAcc].pc = "accept" /\ "s" \notin trEnd[trAcc]
    BY <1>1 DEF TrInv, TrWaiters, TrTyped, TrSTyped, TrSlot
  <2>2. trComp # 0 => trComp \in Attempts \ {a} /\ trAtt[trComp].pc = "complete" /\ "s" \notin trEnd[trComp]
    BY <1>1 DEF TrInv, TrWaiters, TrTyped, TrSTyped, TrSlot
  <2>3. ASSUME NEW b \in Attempts
        PROVE  /\ trAtt'[b].pc \in {"accept", "complete"} => trAtt'[b].route = "relay"
               /\ trAtt'[b].got \in {"accept", "reject"} => trAtt'[b].pc = "accept"
               /\ trAtt'[b].got \in {"ack", "nack"} => trAtt'[b].pc = "complete"
    BY <1>3 DEF TrInv, TrWaiters
  <2> QED
    BY <1>1, <1>3, <1>4, <2>1, <2>2, <2>3 DEF TrWaiters
<1>7. TrSenderOwned'
  <2>1. \A P \in {TrAsking, TrAsking \cup {"stream", "complete"}, {"verify"}} : TrKept(P) => TrKept(P)'
    BY <1>1, <1>3, <1>4 DEF TrKept
  <2>2. ~TornDown
    BY <1>1 DEF TornDown
  <2> QED
    BY <1>1, <2>1, <2>2 DEF TrInv, TrSenderOwned
<1>8. TrRTyped' /\ TrFiles' /\ TrReceiverOwned'
  BY <1>1, <1>4, LTrReceiverFrame DEF TrInv, TrTyped
<1>9. TrStored'
  BY <1>1, <1>3, LTrSameReports DEF TrInv, trReceiver
<1>10. TrWires' /\ TrReports'
  BY <1>1 DEF TrInv, TrTyped, TrWires, TrReports
<1> QED
  BY <1>4, <1>5, <1>6, <1>7, <1>8, <1>9, <1>10 DEF TrInv, TrTyped

LEMMA LTrPathLost ==
  ASSUME TrInv, NEW a \in Attempts, AttemptPathLost(a)
  PROVE  TrInv'
<1>1. /\ trAtt[a].pc # "idle" /\ trUp' = [trUp EXCEPT ![a] = FALSE] /\ trToR' = [trToR EXCEPT ![a] = <<>>]
      /\ trToS' = [trToS EXCEPT ![a] = <<>>] /\ UNCHANGED <<trSender, trReceiver, trOutcome>> /\ UNCHANGED <<trEnd, trCan>>
  BY DEF AttemptPathLost
<1>2. TrSTyped' /\ TrWaiters' /\ TrSenderOwned'
  BY <1>1, LTrSenderFrame DEF TrInv, TrTyped
<1>3. TrRTyped' /\ TrFiles' /\ TrReceiverOwned'
  BY <1>1, LTrReceiverFrame DEF TrInv, TrTyped
<1>4. TrWires'
  <2>1. <<>> \in Seq(TrRequests) /\ <<>> \in Seq(TrAnswers)
    OBVIOUS
  <2> QED
    BY <1>1, <2>1 DEF TrInv, TrTyped, TrWires
<1>5. TrReports'
  BY <1>1 DEF TrInv, TrTyped, TrReports, trOutcome
<1>6. /\ trUp'[a] = FALSE /\ trToS'[a] = <<>> /\ trAtt' = trAtt /\ trEnd' = trEnd
      /\ \A b \in Attempts \ {a} : trUp'[b] = trUp[b] /\ trToS'[b] = trToS[b]
  BY <1>1 DEF TrInv, TrPathsOK, TrTyped, TrWires, trSender
<1>7. TrPathsOK'
  <2>1. TrPathsOK
    BY DEF TrInv
  <2>2. trUp' \in [Attempts -> BOOLEAN]
    BY <1>1, <2>1 DEF TrPathsOK
  <2>3. ASSUME NEW b \in Attempts
        PROVE  /\ trAtt'[b].pc = "idle" => trUp'[b]
               /\ trUp'[b] => trEnd'[b] = {}
               /\ ~trUp'[b] => trToS'[b] = <<>>
               /\ "sx" \in trEnd'[b] => trAtt'[b].pc = "done"
    BY <1>1, <1>6, <2>1 DEF TrPathsOK
  <2> QED
    BY <1>6, <2>1, <2>2, <2>3 DEF TrPathsOK
<1>8. TrStored'
  <2>1. \A b \in Attempts : TrQuiet(trToS[b]) => TrQuiet(trToS'[b])
    BY <1>6 DEF TrQuiet
  <2>2. UNCHANGED <<trFinal, trDone, trAct, trRecv, trAtt>>
    BY <1>1 DEF trReceiver, trOutcome, trSender
  <2>3. CASE Stored
    BY <2>2, <2>3 DEF TrStored, Stored
  <2>4. CASE ~Stored
    BY <2>1, <2>2, <2>4 DEF TrInv, TrStored
  <2> QED
    BY <2>3, <2>4
<1> QED
  BY <1>2, <1>3, <1>4, <1>5, <1>7, <1>8 DEF TrInv, TrTyped

-----------------------------------------------------------------------------
(* Transfers: the receiver                                                 *)

LEMMA LTrWhole ==
  /\ AlreadyStored => Stored
  /\ \A d \in Seq({0, 1}) : d \notin {NoFile, Other}
<1>1. Whole[1] = 0 /\ NoFile[1] = 2 /\ Other[1] = 3
  BY LTrConst DEF Whole, NoFile, Other
<1>2. AlreadyStored => Stored
  BY <1>1 DEF AlreadyStored, Stored
<1>3. ASSUME NEW d \in Seq({0, 1}), d \in {NoFile, Other} PROVE FALSE
  <2>1. Len(d) = 1
    BY <1>3 DEF NoFile, Other
  <2>2. d[1] \in {0, 1}
    BY <2>1, ElementOfSeq
  <2> QED
    BY <1>1, <1>3, <2>2
<1> QED
  BY <1>2, <1>3

LEMMA LTrReceiverStep ==
  ASSUME TrInv, UNCHANGED trSender, UNCHANGED <<trUp, trEnd>>, TrRTyped', TrFiles', TrReceiverOwned', TrWires', TrReports', TrStored',
         \A b \in Attempts : ~trUp[b] => trToS'[b] = trToS[b]
  PROVE  TrInv'
<1>1. TrSTyped' /\ TrWaiters' /\ TrSenderOwned'
  BY LTrSenderFrame DEF TrInv, TrTyped
<1>2. TrPathsOK'
  <2>1. TrPathsOK /\ trAtt' = trAtt
    BY DEF TrInv, trSender
  <2>2. ASSUME NEW b \in Attempts
        PROVE  /\ trAtt'[b].pc = "idle" => trUp'[b]
               /\ trUp'[b] => trEnd'[b] = {}
               /\ ~trUp'[b] => trToS'[b] = <<>>
               /\ "sx" \in trEnd'[b] => trAtt'[b].pc = "done"
    BY <2>1 DEF TrPathsOK
  <2> QED
    BY <2>1, <2>2 DEF TrPathsOK
<1> QED
  BY <1>1, <1>2 DEF TrInv, TrTyped

\* Nothing that is stored goes, and nothing is reported that is not stored.
LEMMA LTrStoredStep ==
  ASSUME TrStored, trAtt' = trAtt, trFinal' = trFinal \/ Stored',
         \/ Stored'
         \/ /\ trDone' = trDone /\ (trAct'.done => trAct.done)
            /\ \A b \in Attempts : /\ trRecv'[b].pc = "moved" => trRecv[b].pc = "moved"
                                   /\ TrQuiet(trToS[b]) => TrQuiet(trToS'[b])
  PROVE  TrStored'
<1>1. CASE Stored'
  BY <1>1 DEF TrStored
<1>2. CASE ~Stored'
  <2>1. ~Stored
    BY <1>2 DEF Stored
  <2>2. /\ trDone.s = 0 /\ trDone.r = 0 /\ ~trAct.done
        /\ \A b \in Attempts : trAtt[b].got # "ack" /\ trRecv[b].pc # "moved" /\ TrQuiet(trToS[b])
    BY <2>1 DEF TrStored
  <2>3. /\ trDone'.s = 0 /\ trDone'.r = 0 /\ ~trAct'.done
        /\ \A b \in Attempts : trAtt'[b].got # "ack" /\ trRecv'[b].pc # "moved" /\ TrQuiet(trToS'[b])
    BY <1>2, <2>2
  <2> QED
    BY <2>3 DEF TrStored, TrQuiet
<1> QED
  BY <1>1, <1>2

LEMMA LTrSetRecv ==
  ASSUME TrRTyped, NEW a \in Attempts, NEW r \in TrReceives, SetRecv(a, r)
  PROVE  trRecv' \in [Attempts -> TrReceives] /\ trRecv'[a] = r /\ \A b \in Attempts \ {a} : trRecv'[b] = trRecv[b]
BY DEF SetRecv, TrRTyped

LEMMA LTrEndRecv ==
  ASSUME TrRTyped, NEW a \in Attempts, EndRecv(a)
  PROVE  /\ trRecv' \in [Attempts -> TrReceives] /\ trRecv'[a].pc = "done"
         /\ \A b \in Attempts \ {a} : trRecv'[b] = trRecv[b]
<1> DEFINE r == [NoReceive EXCEPT !.pc = "done"]
<1>1. r \in TrReceives /\ r.pc = "done"
  BY LTrConst DEF NoReceive, TrReceives
<1> QED
  BY <1>1, LTrSetRecv DEF EndRecv

LEMMA LTrEntries ==
  /\ TrEntryOK(NoTransfer) /\ NoTransfer.st = "absent"
  /\ \A a \in Attempts : TrEntryOK(NewTransfer("waiting", a)) /\ NewTransfer("waiting", a).st = "waiting"
<1>1. TrEntryOK(NoTransfer) /\ NoTransfer.st = "absent"
  BY LTrConst DEF NoTransfer, TrEntryOK, TrEntries
<1>2. ASSUME NEW a \in Attempts PROVE TrEntryOK(NewTransfer("waiting", a)) /\ NewTransfer("waiting", a).st = "waiting"
  BY LTrConst DEF NewTransfer, TrEntryOK, TrEntries, States
<1> QED
  BY <1>1, <1>2

LEMMA LTrFileNone ==
  /\ NoPart \in [ino : Nat, data : Seq({0, 1})] /\ Len(NoPart.data) <= TrChunks
  /\ Inactive \in [a : TrSlot, data : Seq({0, 1}), ino : Nat, done : BOOLEAN] /\ Inactive.a = 0 /\ ~Inactive.done
BY LTrConst DEF NoPart, Inactive, TrSlot

\* Pausing leaves nothing that moves.
LEMMA LTrPause ==
  ASSUME TrRTyped, TrReceiverOwned
  PROVE  TrEntryOK(Pause(trR)) /\ Pause(trR).st \in {"absent", "paused"}
BY DEF Pause, To, Running, TrRTyped, TrReceiverOwned, TrEntryOK, TrEntries, States

\* An entry that does not move is nobody's.
LEMMA LTrResting ==
  ASSUME trR'.st \in {"absent", "waiting", "resuming", "paused"}
  PROVE  TrReceiverOwned'
BY DEF TrReceiverOwned

\* The steps that end a receiving task and its entry: a failure or a loss.
LEMMA LTrRecvEnds ==
  ASSUME TrInv, NEW a \in Attempts, EndRecv(a), TrEntryOK(trR'), trR'.st \in {"absent", "paused"}, trPart' \in {trPart, NoPart},
         trDec' \in TrSlot, UNCHANGED <<trPend, trAct, trTimer, trFinal>>
  PROVE  /\ TrRTyped' /\ TrFiles' /\ TrReceiverOwned'
         /\ \A b \in Attempts : trRecv'[b].pc = "moved" => trRecv[b].pc = "moved"
<1>1. /\ trRecv' \in [Attempts -> TrReceives] /\ trRecv'[a].pc = "done"
      /\ \A b \in Attempts \ {a} : trRecv'[b] = trRecv[b]
  BY LTrEndRecv DEF TrInv, TrTyped
<1>2. TrRTyped'
  BY <1>1 DEF TrInv, TrTyped, TrRTyped
<1>3. TrFiles'
  BY LTrFileNone DEF TrInv, TrTyped, TrFiles
<1>4. TrReceiverOwned'
  BY LTrResting
<1> QED
  BY <1>1, <1>2, <1>3, <1>4

\* DiscardRecv and LoseRecv are such steps.
LEMMA LTrDiscard ==
  ASSUME TrInv, NEW a \in Attempts, DiscardRecv(a) \/ LoseRecv(a)
  PROVE  EndRecv(a) /\ TrEntryOK(trR') /\ trR'.st \in {"absent", "paused"} /\ trPart' \in {trPart, NoPart}
<1>1. CASE DiscardRecv(a)
  BY <1>1, LTrEntries DEF DiscardRecv
<1>2. CASE LoseRecv(a)
  BY <1>2, LTrPause DEF LoseRecv, TrInv, TrTyped
<1> QED
  BY <1>1, <1>2

LEMMA LTrTakeRequest ==
  ASSUME TrInv, NEW a \in Attempts, trToR[a] # <<>>, trToR' = [trToR EXCEPT ![a] = Tail(@)]
  PROVE  trToR' \in [Attempts -> Seq(TrRequests)] /\ Head(trToR[a]) \in TrRequests
<1>1. trToR \in [Attempts -> Seq(TrRequests)]
  BY DEF TrInv, TrTyped, TrWires
<1>2. Tail(trToR[a]) \in Seq(TrRequests) /\ Head(trToR[a]) \in TrRequests
  BY <1>1, LTrQueue
<1> QED
  BY <1>1, <1>2

LEMMA LTrReceiveOffer ==
  ASSUME TrInv, NEW a \in Attempts, ReceiveOffer(a)
  PROVE  TrInv'
<1>1. /\ trRecv[a].pc = "idle" /\ trToR[a] # <<>> /\ trToR' = [trToR EXCEPT ![a] = Tail(@)]
      /\ UNCHANGED trSender /\ UNCHANGED <<trUp, trEnd>> /\ UNCHANGED <<trDone, trErr, trCan>> /\ trToS' = trToS
      /\ UNCHANGED <<trPend, trAct, trTimer, trFinal>>
  BY DEF ReceiveOffer, HeadIs, trOutcome
<1>2. TrRTyped /\ TrFiles /\ TrStored /\ TrEntryOK(trR) /\ trDec \in TrSlot /\ 0 \in TrSlot /\ a \in TrSlot
  BY DEF TrInv, TrTyped, TrRTyped, TrSlot
<1>3. TrWires' /\ TrReports'
  BY <1>1, LTrTakeRequest DEF TrInv, TrTyped, TrWires, TrReports
<1>4. TrRTyped' /\ TrFiles' /\ TrReceiverOwned' /\ \A b \in Attempts : trRecv'[b].pc = "moved" => trRecv[b].pc = "moved"
  <2>1. CASE EndRecv(a) /\ UNCHANGED <<trR, trPart, trDec>>
    <3>1. /\ trRecv' \in [Attempts -> TrReceives] /\ trRecv'[a].pc = "done"
          /\ \A b \in Attempts \ {a} : trRecv'[b] = trRecv[b]
      BY <1>2, <2>1, LTrEndRecv
    <3>2. TrRTyped' /\ TrFiles'
      BY <1>1, <1>2, <2>1, <3>1 DEF TrRTyped, TrFiles
    <3>3. TrReceiverOwned'
      BY <1>1, <2>1, <3>1 DEF TrInv, TrReceiverOwned
    <3> QED
      BY <3>1, <3>2, <3>3
  <2>2. CASE CanRegisterIncoming(trR) /\ trPart' = trPart /\ trR' = RegisterIncoming(trR, a) /\ trDec' = a
             /\ SetRecv(a, [NoReceive EXCEPT !.pc = "wait"])
    <3> DEFINE r == [NoReceive EXCEPT !.pc = "wait"]
    <3>1. r \in TrReceives /\ r.pc = "wait"
      BY LTrConst DEF NoReceive, TrReceives
    <3>2. trRecv' \in [Attempts -> TrReceives] /\ trRecv'[a] = r /\ \A b \in Attempts \ {a} : trRecv'[b] = trRecv[b]
      BY <1>2, <2>2, <3>1, LTrSetRecv
    <3> HIDE DEF r
    <3>3. TrEntryOK(trR') /\ trR'.st = "waiting"
      <4>1. CASE trR.st = "paused"
        BY <1>2, <2>2, <4>1 DEF RegisterIncoming, TrEntryOK, TrEntries, States
      <4>2. CASE trR.st # "paused"
        BY <2>2, <4>2, LTrEntries DEF RegisterIncoming
      <4> QED
        BY <4>1, <4>2
    <3>4. TrRTyped' /\ TrFiles'
      BY <1>1, <1>2, <2>2, <3>2, <3>3 DEF TrRTyped, TrFiles
    <3> QED
      BY <3>1, <3>2, <3>3, <3>4, LTrResting
  <2>3. CASE trDec' = 0 /\ DiscardRecv(a)
    BY <1>1, <1>2, <2>3, LTrDiscard, LTrRecvEnds
  <2> QED
    BY <2>1, <2>2, <2>3 DEF ReceiveOffer
<1>5. TrStored'
  BY <1>1, <1>2, <1>4, LTrStoredStep DEF trSender
<1> QED
  BY <1>1, <1>3, <1>4, <1>5, LTrReceiverStep

\* Sending an answer on a path that is up.
LEMMA LTrAnswer ==
  ASSUME TrInv, NEW a \in Attempts, trUp[a], NEW m \in TrAnswers,
         trToS' = [trToS EXCEPT ![a] = Append(@, m)]
  PROVE  /\ trToS' \in [Attempts -> Seq(TrAnswers)] /\ \A b \in Attempts : ~trUp[b] => trToS'[b] = trToS[b]
         /\ m.k \notin {"completion", "ack"} => \A b \in Attempts : TrQuiet(trToS[b]) => TrQuiet(trToS'[b])
<1>1. trToS \in [Attempts -> Seq(TrAnswers)] /\ ToSender(a, m)
  BY DEF TrInv, TrTyped, TrWires, ToSender
<1> QED
  BY <1>1, LTrToSender

LEMMA LTrPartOffset ==
  ASSUME TrFiles
  PROVE  PartOffset \in 0 .. TrChunks
BY LTrConst, LenProperties DEF TrFiles, PartOffset

LEMMA LTrDecision ==
  ASSUME NEW n \in 0 .. TrChunks + 1
  PROVE  [k |-> "decision", n |-> n] \in TrAnswers
BY LTrConst DEF TrAnswers

\* What is left to show of a step of the receiver, in one formula.
TrReceived ==
  /\ TrRTyped' /\ TrFiles' /\ TrReceiverOwned'
  /\ trToS' \in [Attempts -> Seq(TrAnswers)] /\ \A b \in Attempts : ~trUp[b] => trToS'[b] = trToS[b]
  /\ trCan' \subseteq Attempts /\ trDone' \in [s : Nat, r : Nat]
  /\ trFinal' = trFinal \/ Stored'
  /\ \/ Stored'
     \/ /\ trDone' = trDone /\ (trAct'.done => trAct.done)
        /\ \A b \in Attempts : /\ trRecv'[b].pc = "moved" => trRecv[b].pc = "moved"
                               /\ TrQuiet(trToS[b]) => TrQuiet(trToS'[b])
LEMMA LTrReceived ==
  ASSUME TrInv, TrReceived, UNCHANGED trSender, UNCHANGED <<trUp, trEnd>>, trErr' = trErr,
         trToR' \in [Attempts -> Seq(TrRequests)]
  PROVE  TrInv'
<1>1. TrRTyped' /\ TrFiles' /\ TrReceiverOwned' /\ \A b \in Attempts : ~trUp[b] => trToS'[b] = trToS[b]
  BY DEF TrReceived
<1>2. TrWires' /\ TrReports'
  BY DEF TrReceived, TrWires, TrReports, TrInv, TrTyped
<1>3. trAtt' = trAtt /\ TrStored
  BY DEF trSender, TrInv
<1>4. TrStored'
  BY <1>3, LTrStoredStep DEF TrReceived
<1> QED
  BY <1>1, <1>2, <1>4, LTrReceiverStep

\* A receiving task that ends with its entry, telling the sender nothing or an answer m.
LEMMA LTrEndsReceived ==
  ASSUME TrInv, NEW a \in Attempts, EndRecv(a), TrEntryOK(trR'), trR'.st \in {"absent", "paused"}, trPart' \in {trPart, NoPart},
         trDec' \in TrSlot, UNCHANGED <<trPend, trAct, trTimer, trFinal>>,
         \/ trToS' = trToS
         \/ trUp[a] /\ \E m \in TrAnswers : /\ m.k \notin {"completion", "ack"} \/ Stored
                                            /\ trToS' = [trToS EXCEPT ![a] = Append(@, m)],
         trCan' = trCan \/ (CanFail(trR) /\ trCan' = trCan \cup {trR.tok}),
         trDone' = trDone \/ (Stored /\ trDone' = [trDone EXCEPT !.r = @ + 1])
  PROVE  TrReceived
<1>1. /\ TrRTyped' /\ TrFiles' /\ TrReceiverOwned'
      /\ \A b \in Attempts : trRecv'[b].pc = "moved" => trRecv[b].pc = "moved"
  BY LTrRecvEnds
<1>2. /\ trToS' \in [Attempts -> Seq(TrAnswers)] /\ \A b \in Attempts : ~trUp[b] => trToS'[b] = trToS[b]
      /\ Stored \/ \A b \in Attempts : TrQuiet(trToS[b]) => TrQuiet(trToS'[b])
  <2>1. CASE trToS' = trToS
    BY <2>1 DEF TrInv, TrTyped, TrWires
  <2>2. ASSUME trUp[a], NEW m \in TrAnswers, m.k \notin {"completion", "ack"} \/ Stored,
               trToS' = [trToS EXCEPT ![a] = Append(@, m)]
        PROVE  /\ trToS' \in [Attempts -> Seq(TrAnswers)] /\ \A b \in Attempts : ~trUp[b] => trToS'[b] = trToS[b]
               /\ Stored \/ \A b \in Attempts : TrQuiet(trToS[b]) => TrQuiet(trToS'[b])
    BY <2>2, LTrAnswer
  <2> QED
    BY <2>1, <2>2
<1>3. trCan' \subseteq Attempts
  BY DEF TrInv, TrTyped, TrRTyped, TrReports, TrEntryOK, CanFail, Running
<1>4. trDone' \in [s : Nat, r : Nat]
  BY DEF TrInv, TrTyped, TrReports
<1>5. Stored' <=> Stored
  BY DEF Stored
<1> QED
  BY <1>1, <1>2, <1>3, <1>4, <1>5 DEF TrReceived

LEMMA LTrDecided ==
  ASSUME TrInv, NEW a \in Attempts, Decided(a)
  PROVE  TrInv'
<1>1. /\ trDec' = 0 /\ trRecv[a].pc = "wait"
      /\ UNCHANGED trSender /\ UNCHANGED <<trUp, trEnd>> /\ UNCHANGED <<trErr, trToR>> /\ UNCHANGED <<trPend, trAct, trTimer, trFinal>>
  BY DEF Decided
<1>2. TrRTyped /\ TrFiles /\ TrEntryOK(trR) /\ trDec' \in TrSlot /\ trToR' \in [Attempts -> Seq(TrRequests)]
  BY <1>1 DEF TrInv, TrTyped, TrRTyped, TrSlot, TrWires
<1>3. PartOffset \in 0 .. TrChunks /\ TrChunks + 1 \in 0 .. TrChunks + 1 /\ PartOffset + 1 \in 0 .. TrChunks + 1 /\ 0 \in 0 .. TrChunks + 1
  BY <1>2, LTrPartOffset, LTrConst
<1>4. CASE trRecv[a].dec # "accept" /\ UNCHANGED <<trPart, trDone>> /\ trUp[a] /\ EndRecv(a) /\ trR' = NoTransfer
           /\ trToS' = [trToS EXCEPT ![a] = Append(@, [k |-> "decision", n |-> 0])]
           /\ trCan' = (IF CanFail(trR) THEN trCan \cup {trR.tok} ELSE trCan)
  <2>1. [k |-> "decision", n |-> 0] \in TrAnswers
    BY <1>3, LTrDecision
  <2>2. TrReceived
    BY <1>1, <1>2, <1>4, <2>1, LTrEntries, LTrEndsReceived
  <2> QED
    BY <1>1, <1>2, <2>2, LTrReceived
<1>5. CASE LoseRecv(a) /\ UNCHANGED <<trToS, trCan, trDone>>
  <2>1. TrReceived
    BY <1>1, <1>2, <1>5, LTrDiscard, LTrEndsReceived
  <2> QED
    BY <1>1, <1>2, <2>1, LTrReceived
<1>6. CASE trUp[a] /\ AlreadyStored /\ trCan' = trCan /\ CanMarkTransferring(trR)
           /\ trToS' = [trToS EXCEPT ![a] = @ \o <<[k |-> "decision", n |-> TrChunks + 1], Msg("completion")>>]
           /\ trDone' = [trDone EXCEPT !.r = @ + 1]
           /\ EndRecv(a) /\ trR' = NoTransfer /\ UNCHANGED trPart
  <2>1. /\ TrRTyped' /\ TrFiles' /\ TrReceiverOwned'
    BY <1>1, <1>2, <1>6, LTrEntries, LTrRecvEnds
  <2>2. trToS \in [Attempts -> Seq(TrAnswers)] /\ [k |-> "decision", n |-> TrChunks + 1] \in TrAnswers /\ Msg("completion") \in TrAnswers
    BY <1>3, LTrDecision, LTrMsg DEF TrInv, TrTyped, TrWires
  <2>3. trToS[a] \o <<[k |-> "decision", n |-> TrChunks + 1], Msg("completion")>> \in Seq(TrAnswers)
    BY <2>2
  <2>4. trToS' \in [Attempts -> Seq(TrAnswers)] /\ \A b \in Attempts : ~trUp[b] => trToS'[b] = trToS[b]
    BY <1>6, <2>2, <2>3
  <2>5. Stored' /\ trCan' \subseteq Attempts /\ trDone' \in [s : Nat, r : Nat]
    BY <1>1, <1>6, LTrWhole DEF Stored, TrInv, TrTyped, TrReports
  <2>6. TrReceived
    BY <2>1, <2>4, <2>5 DEF TrReceived
  <2> QED
    BY <1>1, <1>2, <2>6, LTrReceived
<1>7. CASE trUp[a] /\ DiscardRecv(a) /\ trDone' = trDone /\ trCan' = trCan
           /\ \E n \in {TrChunks + 1, PartOffset + 1} : trToS' = [trToS EXCEPT ![a] = Append(@, [k |-> "decision", n |-> n])]
  <2>1. PICK n \in {TrChunks + 1, PartOffset + 1} : trToS' = [trToS EXCEPT ![a] = Append(@, [k |-> "decision", n |-> n])]
    BY <1>7
  <2>2. [k |-> "decision", n |-> n] \in TrAnswers
    BY <1>3, LTrDecision
  <2>3. TrReceived
    BY <1>1, <1>2, <1>7, <2>1, <2>2, LTrDiscard, LTrEndsReceived
  <2> QED
    BY <1>1, <1>2, <2>3, LTrReceived
<1>8. CASE trUp[a] /\ UNCHANGED <<trCan, trDone>> /\ CanMarkTransferring(trR)
           /\ trToS' = [trToS EXCEPT ![a] = Append(@, [k |-> "decision", n |-> PartOffset + 1])]
           /\ trR' = Progress(To(trR, "transferring"), PartOffset)
           /\ trPart' = (IF PartOffset = 0 THEN [ino |-> a, data |-> <<>>] ELSE trPart)
           /\ SetRecv(a, [pc |-> "recv", off |-> PartOffset, tok |-> trR.tok, ino |-> trPart'.ino, dec |-> "none"])
  <2>1. trPart' \in [ino : Nat, data : Seq({0, 1})] /\ Len(trPart'.data) <= TrChunks
    BY <1>2, <1>8, LTrConst DEF TrFiles
  <2>2. TrFiles'
    BY <1>1, <1>2, <2>1 DEF TrFiles
  <2> DEFINE r == [pc |-> "recv", off |-> PartOffset, tok |-> trR.tok, ino |-> trPart'.ino, dec |-> "none"]
  <2>3. r \in TrReceives /\ r.pc = "recv"
    BY <1>2, <1>3, <2>1 DEF TrReceives, TrEntryOK, TrEntries
  <2>4. trRecv' \in [Attempts -> TrReceives] /\ trRecv'[a] = r /\ \A b \in Attempts \ {a} : trRecv'[b] = trRecv[b]
    BY <1>2, <1>8, <2>3, LTrSetRecv
  <2> HIDE DEF r
  <2>5. trR' = [trR EXCEPT !.st = "transferring", !.off = PartOffset]
    BY <1>2, <1>8 DEF Progress, To, Running, TrEntryOK, TrEntries
  <2>6. TrEntryOK(trR') /\ trR'.st = "transferring"
    BY <1>2, <1>3, <1>8, <2>5 DEF CanMarkTransferring, TrEntryOK, TrEntries, States
  <2>7. TrRTyped'
    BY <1>1, <1>2, <2>4, <2>6 DEF TrRTyped
  <2>8. trRecv'[a].pc = "recv" /\ "r" \notin trEnd'[a]
    BY <1>1, <1>8, <2>3, <2>4, LTrUp
  <2>9. TrReceiverOwned'
    BY <2>6, <2>8 DEF TrReceiverOwned
  <2>10. [k |-> "decision", n |-> PartOffset + 1] \in TrAnswers
    BY <1>3, LTrDecision
  <2>11. /\ trToS' \in [Attempts -> Seq(TrAnswers)] /\ \A b \in Attempts : ~trUp[b] => trToS'[b] = trToS[b]
         /\ \A b \in Attempts : TrQuiet(trToS[b]) => TrQuiet(trToS'[b])
    BY <1>8, <2>10, LTrAnswer
  <2>12. trCan' \subseteq Attempts /\ trDone' \in [s : Nat, r : Nat]
    BY <1>8 DEF TrInv, TrTyped, TrReports
  <2>13. TrReceived
    BY <1>1, <1>8, <2>2, <2>3, <2>4, <2>7, <2>9, <2>11, <2>12 DEF TrReceived
  <2> QED
    BY <1>1, <1>2, <2>13, LTrReceived
<1> QED
  BY <1>4, <1>5, <1>6, <1>7, <1>8 DEF Decided

\* Progress keeps the state of an entry and its type.
LEMMA LTrProgress ==
  ASSUME NEW e, TrEntryOK(e), NEW n \in 0 .. TrChunks
  PROVE  TrEntryOK(Progress(e, n)) /\ Progress(e, n).st = e.st
BY DEF Progress, TrEntryOK, TrEntries

\* A chunk below the end keeps the checkpoint within the file.
LEMMA LTrWritten ==
  ASSUME TrFiles, NEW ino, NEW off \in 0 .. TrChunks, off < TrChunks, NEW c \in {0, 1}
  PROVE  Written(ino, off, c) \in [ino : Nat, data : Seq({0, 1})] /\ Len(Written(ino, off, c).data) <= TrChunks
<1> DEFINE d == trPart.data
           e == IF off < Len(d) THEN [d EXCEPT ![off + 1] = c] ELSE Append(d, c)
<1>1. d \in Seq({0, 1}) /\ Len(d) <= TrChunks /\ Len(d) \in Nat /\ off \in Nat /\ trPart \in [ino : Nat, data : Seq({0, 1})]
  BY LTrConst DEF TrFiles
<1>2. e \in Seq({0, 1}) /\ Len(e) <= TrChunks
  <2>1. CASE off < Len(d)
    BY <1>1, <2>1, ExceptSeq
  <2>2. CASE ~(off < Len(d))
    BY <1>1, <2>2, AppendProperties, LTrConst
  <2> QED
    BY <2>1, <2>2
<1>3. Written(ino, off, c) = IF ino # trPart.ino THEN trPart ELSE [trPart EXCEPT !.data = e]
  BY DEF Written
<1> HIDE DEF e
<1> QED
  BY <1>1, <1>2, <1>3

\* Whoever drives the receive goes on doing it.
LEMMA LTrSameHolder ==
  ASSUME TrReceiverOwned, trR'.st = trR.st, trAct.a # 0 => trAct'.a # 0, trEnd' = trEnd,
         \A b \in Attempts : trRecv[b].pc \in {"wait", "recv", "moved"} => trRecv'[b].pc \in {"wait", "recv", "moved"}
  PROVE  TrReceiverOwned'
BY DEF TrReceiverOwned

\* Nothing is said to the sender.
LEMMA LTrSilent ==
  ASSUME TrInv, trToS' = trToS
  PROVE  /\ trToS' \in [Attempts -> Seq(TrAnswers)]
         /\ \A b \in Attempts : (~trUp[b] => trToS'[b] = trToS[b]) /\ (TrQuiet(trToS[b]) => TrQuiet(trToS'[b]))
BY DEF TrInv, TrTyped, TrWires

LEMMA LTrSameCan ==
  ASSUME TrInv
  PROVE  trCan \subseteq Attempts /\ trDone \in [s : Nat, r : Nat] /\ trToR \in [Attempts -> Seq(TrRequests)]
BY DEF TrInv, TrTyped, TrReports, TrWires

LEMMA LTrReceiveChunk ==
  ASSUME TrInv, NEW a \in Attempts, ReceiveChunk(a)
  PROVE  TrInv'
<1>1. /\ trRecv[a].pc = "recv" /\ trRecv[a].off < TrChunks
      /\ UNCHANGED trSender /\ UNCHANGED <<trUp, trEnd>> /\ UNCHANGED <<trErr, trDone, trCan, trToS>>
      /\ UNCHANGED <<trPend, trAct, trTimer, trFinal>> /\ trDec' = trDec
  BY DEF ReceiveChunk, trOutcome
<1>2. TrRTyped /\ TrFiles /\ TrEntryOK(trR) /\ trDec' \in TrSlot /\ trRecv[a] \in TrReceives /\ TrReceiverOwned
  BY <1>1 DEF TrInv, TrTyped, TrRTyped
<1>3. CASE (DiscardRecv(a) \/ LoseRecv(a)) /\ UNCHANGED trToR
  <2>1. TrReceived
    BY <1>1, <1>2, <1>3, LTrDiscard, LTrEndsReceived
  <2> QED
    BY <1>1, <1>3, <2>1, LTrSameCan, LTrReceived
<1>4. CASE /\ HeadIs(trToR[a], "chunk") /\ trToR' = [trToR EXCEPT ![a] = Tail(@)]
           /\ trPart' = Written(trRecv[a].ino, trRecv[a].off, Head(trToR[a]).src)
           /\ SetRecv(a, [trRecv[a] EXCEPT !.off = @ + 1])
           /\ trR' \in ForwardProgress(trR, trRecv[a].off + 1)
  <2>1. trToR' \in [Attempts -> Seq(TrRequests)] /\ Head(trToR[a]) \in TrRequests /\ Head(trToR[a]).k = "chunk"
    BY <1>4, LTrTakeRequest DEF HeadIs
  <2>2. Head(trToR[a]).src \in {0, 1}
    BY <2>1 DEF TrRequests
  <2>3. trRecv[a].off \in 0 .. TrChunks /\ trRecv[a].off + 1 \in 0 .. TrChunks
    BY <1>1, <1>2, LTrConst DEF TrReceives
  <2>4. TrFiles'
    <3>1. trPart' \in [ino : Nat, data : Seq({0, 1})] /\ Len(trPart'.data) <= TrChunks
      BY <1>1, <1>2, <1>4, <2>2, <2>3, LTrWritten
    <3> QED
      BY <1>1, <1>2, <3>1 DEF TrFiles
  <2> DEFINE r == [trRecv[a] EXCEPT !.off = @ + 1]
  <2>5. r \in TrReceives /\ r.pc = "recv"
    BY <1>1, <1>2, <2>3 DEF TrReceives
  <2>6. trRecv' \in [Attempts -> TrReceives] /\ trRecv'[a] = r /\ \A b \in Attempts \ {a} : trRecv'[b] = trRecv[b]
    BY <1>2, <1>4, <2>5, LTrSetRecv
  <2> HIDE DEF r
  <2>7. TrEntryOK(trR') /\ trR'.st = trR.st
    BY <1>2, <1>4, <2>3, LTrProgress DEF ForwardProgress
  <2>8. TrRTyped'
    BY <1>1, <1>2, <2>6, <2>7 DEF TrRTyped
  <2>9. TrReceiverOwned'
    BY <1>1, <1>2, <2>5, <2>6, <2>7, LTrSameHolder
  <2>10. \A b \in Attempts : trRecv'[b].pc = "moved" => trRecv[b].pc = "moved"
    BY <2>5, <2>6
  <2>11. TrReceived
    BY <1>1, <2>4, <2>8, <2>9, <2>10, LTrSilent, LTrSameCan DEF TrReceived
  <2> QED
    BY <1>1, <2>1, <2>11, LTrReceived
<1> QED
  BY <1>3, <1>4 DEF ReceiveChunk

LEMMA LTrMoveIntoPlace ==
  ASSUME TrInv, NEW a \in Attempts, MoveIntoPlace(a)
  PROVE  TrInv'
<1>1. /\ trRecv[a].pc = "recv"
      /\ UNCHANGED trSender /\ UNCHANGED <<trUp, trEnd>> /\ UNCHANGED <<trErr, trDone, trCan, trToS>>
      /\ UNCHANGED <<trPend, trAct, trTimer, trDec>> /\ trToR' = trToR
  BY DEF MoveIntoPlace, trOutcome
<1>2. TrRTyped /\ TrFiles /\ TrEntryOK(trR) /\ trDec' \in TrSlot /\ trRecv[a] \in TrReceives /\ TrReceiverOwned
  BY <1>1 DEF TrInv, TrTyped, TrRTyped
<1>3. CASE DiscardRecv(a) /\ UNCHANGED trFinal
  <2>1. TrReceived
    BY <1>1, <1>2, <1>3, LTrDiscard, LTrEndsReceived
  <2> QED
    BY <1>1, <2>1, LTrSameCan, LTrReceived
<1>4. CASE trFinal' = trPart.data /\ trPart' = NoPart /\ SetRecv(a, [trRecv[a] EXCEPT !.pc = "moved"]) /\ UNCHANGED trR
  <2>1. TrFiles' /\ Stored'
    BY <1>2, <1>4, LTrWhole, LTrFileNone DEF TrFiles, Stored
  <2> DEFINE r == [trRecv[a] EXCEPT !.pc = "moved"]
  <2>2. r \in TrReceives /\ r.pc = "moved"
    BY <1>2 DEF TrReceives
  <2>3. trRecv' \in [Attempts -> TrReceives] /\ trRecv'[a] = r /\ \A b \in Attempts \ {a} : trRecv'[b] = trRecv[b]
    BY <1>2, <1>4, <2>2, LTrSetRecv
  <2> HIDE DEF r
  <2>4. TrRTyped'
    BY <1>1, <1>2, <1>4, <2>3 DEF TrRTyped
  <2>5. TrReceiverOwned'
    BY <1>1, <1>2, <1>4, <2>2, <2>3, LTrSameHolder
  <2>6. TrReceived
    BY <1>1, <2>1, <2>4, <2>5, LTrSilent, LTrSameCan DEF TrReceived
  <2> QED
    BY <1>1, <2>6, LTrSameCan, LTrReceived
<1> QED
  BY <1>3, <1>4 DEF MoveIntoPlace

LEMMA LTrFinishRecv ==
  ASSUME TrInv, NEW a \in Attempts, FinishRecv(a)
  PROVE  TrInv'
<1>1. /\ trRecv[a].pc = "moved"
      /\ UNCHANGED trSender /\ UNCHANGED <<trUp, trEnd>> /\ UNCHANGED <<trErr, trCan>>
      /\ UNCHANGED <<trPend, trAct, trTimer, trFinal>> /\ trDec' = trDec /\ trToR' = trToR
  BY DEF FinishRecv
<1>2. Stored /\ trDec' \in TrSlot
  BY <1>1 DEF TrInv, TrStored, TrTyped, TrRTyped
<1>3. CASE (DiscardRecv(a) \/ LoseRecv(a)) /\ UNCHANGED <<trToS, trDone>>
  <2>1. TrReceived
    BY <1>1, <1>2, <1>3, LTrDiscard, LTrEndsReceived
  <2> QED
    BY <1>1, <2>1, LTrSameCan, LTrReceived
<1>4. CASE /\ trUp[a] /\ EndRecv(a) /\ trR' = NoTransfer /\ UNCHANGED trPart
           /\ trToS' = [trToS EXCEPT ![a] = Append(@, Msg("completion"))]
           /\ trDone' = [trDone EXCEPT !.r = @ + 1]
  <2>1. Msg("completion") \in TrAnswers
    BY LTrMsg
  <2>2. TrReceived
    BY <1>1, <1>2, <1>4, <2>1, LTrEntries, LTrEndsReceived
  <2> QED
    BY <1>1, <2>2, LTrSameCan, LTrReceived
<1> QED
  BY <1>3, <1>4 DEF FinishRecv

-----------------------------------------------------------------------------
(* Transfers: the relay handlers of the receiver                           *)

TrActives == [a : TrSlot, data : Seq({0, 1}), ino : Nat, done : BOOLEAN]
TrParts == {p \in [ino : Nat, data : Seq({0, 1})] : Len(p.data) <= TrChunks}
\* The answers under way stay typed, reach only a path that is up, and none reports a completion.
TrSaid ==
  /\ trToS' \in [Attempts -> Seq(TrAnswers)]
  /\ \A b \in Attempts : (~trUp[b] => trToS'[b] = trToS[b]) /\ (TrQuiet(trToS[b]) => TrQuiet(trToS'[b]))
\* What a handler of the relay makes of the receiver.
TrRelayed ==
  /\ TrEntryOK(trR') /\ trPend' \in TrSlot /\ trAct' \in TrActives /\ trPart' \in TrParts /\ trCan' \subseteq Attempts
  /\ TrReceiverOwned' /\ TrSaid /\ (trAct'.done => trAct.done \/ Stored)

LEMMA LTrRelayed ==
  ASSUME TrInv, TrRelayed, UNCHANGED <<trFinal, trDone>>, trDec' \in TrSlot, trTimer' \subseteq Attempts,
         trRecv' \in [Attempts -> TrReceives], \A b \in Attempts : trRecv'[b].pc = trRecv[b].pc
  PROVE  TrReceived
<1>1. TrRTyped' /\ TrReceiverOwned'
  BY DEF TrRelayed, TrRTyped, TrActives
<1>2. TrFiles'
  BY DEF TrRelayed, TrParts, TrFiles, TrInv, TrTyped
<1>3. trDone' \in [s : Nat, r : Nat] /\ (Stored' <=> Stored)
  BY LTrSameCan DEF Stored
<1> QED
  BY <1>1, <1>2, <1>3 DEF TrRelayed, TrSaid, TrReceived

LEMMA LTrCancelIncoming ==
  ASSUME TrInv, CancelIncoming
  PROVE  /\ TrEntryOK(trR') /\ trPend' \in TrSlot /\ trAct' \in TrActives /\ trPart' \in TrParts /\ trCan' \subseteq Attempts
         /\ TrReceiverOwned' /\ ~trAct'.done
<1>1. trPend' = 0 /\ trAct' = Inactive /\ trPart' = NoPart /\ trR' = NoTransfer
      /\ trCan' = IF CanFail(trR) THEN trCan \cup {trR.tok} ELSE trCan
  BY DEF CancelIncoming
<1>2. trCan' \subseteq Attempts
  BY <1>1 DEF TrInv, TrTyped, TrRTyped, TrReports, TrEntryOK, CanFail, Running
<1>3. TrReceiverOwned'
  BY <1>1, LTrEntries, LTrResting
<1> QED
  BY <1>1, <1>2, <1>3, LTrEntries, LTrFileNone DEF TrActives, TrParts, TrSlot

LEMMA LTrSaidNothing ==
  ASSUME TrInv, trToS' = trToS
  PROVE  TrSaid
BY LTrSilent DEF TrSaid

LEMMA LTrSaid ==
  ASSUME TrInv, NEW a \in Attempts, NEW m \in TrAnswers, m.k \notin {"completion", "ack"}, ToSender(a, m)
  PROVE  TrSaid
BY LTrToSender DEF TrSaid, TrInv, TrTyped, TrWires

\* accept_pending_relay_incoming either fails, the entry resting or as before, or starts the receive.
LEMMA LTrAcceptRelay ==
  ASSUME TrInv, NEW a \in Attempts, NEW e, TrEntryOK(e), e.st \in {"absent", "waiting", "resuming", "transferring", "paused"},
         e.st = "transferring" => e = trR, NEW how, AcceptRelay(a, e, how), UNCHANGED <<trRecv, trEnd>>
  PROVE  TrRelayed
<1> DEFINE off == IF AlreadyStored THEN TrChunks ELSE PartOffset
           part == IF AlreadyStored \/ trPart.ino # 0 THEN trPart ELSE [ino |-> a, data |-> <<>>]
           act == [a |-> a, data |-> IF AlreadyStored THEN <<>> ELSE part.data, ino |-> part.ino, done |-> AlreadyStored]
<1>1. TrFiles /\ TrReceiverOwned /\ trAct \in TrActives /\ trCan \subseteq Attempts /\ 0 \in TrSlot /\ a \in TrSlot /\ a # 0
  BY LTrConst DEF TrInv, TrTyped, TrRTyped, TrActives, TrReports, TrSlot
<1>2. off \in 0 .. TrChunks
  BY <1>1, LTrPartOffset, LTrConst
<1>3. part \in TrParts
  BY <1>1, LTrConst DEF TrFiles, TrParts
<1>4. act \in TrActives /\ act.a = a /\ (act.done => Stored)
  <2>1. (IF AlreadyStored THEN <<>> ELSE part.data) \in Seq({0, 1}) /\ part.ino \in Nat
    BY <1>3 DEF TrParts
  <2>2. AlreadyStored \in BOOLEAN
    BY DEF AlreadyStored
  <2> QED
    BY <1>1, <2>1, <2>2, LTrWhole DEF TrActives
<1>5. TrEntryOK(Progress(e, off)) /\ Progress(e, off).st = e.st
  BY <1>2, LTrProgress
<1> HIDE DEF off, part, act
<1>6. CASE CancelIncoming /\ UNCHANGED trToS
  BY <1>6, LTrCancelIncoming, LTrSaidNothing DEF TrRelayed
<1>7. CASE trR' = e /\ trPend' = 0 /\ trPart' = part /\ UNCHANGED <<trAct, trCan>> /\ UNCHANGED trToS
  <2>1. TrReceiverOwned'
    BY <1>1, <1>7 DEF TrReceiverOwned
  <2> QED
    BY <1>1, <1>3, <1>7, <2>1, LTrSaidNothing DEF TrRelayed
<1>8. CASE /\ CanMarkTransferring(e)
           /\ trR' = To(Progress(e, off), "paused") /\ trPend' = a /\ trPart' = part /\ UNCHANGED <<trAct, trCan>> /\ UNCHANGED trToS
  <2>1. TrEntryOK(trR') /\ trR'.st = "paused"
    BY <1>5, <1>8 DEF To, TrEntryOK, TrEntries, States, CanMarkTransferring
  <2> QED
    BY <1>1, <1>3, <1>8, <2>1, LTrResting, LTrSaidNothing DEF TrRelayed
<1>9. CASE /\ CanMarkTransferring(e)
           /\ trR' = To(Progress(e, off), "transferring") /\ trPend' = 0 /\ trPart' = part /\ UNCHANGED trCan
           /\ trAct' = act /\ ToSender(a, [k |-> "accept", n |-> off])
  <2>1. TrEntryOK(trR') /\ trR'.st = "transferring"
    BY <1>5, <1>9 DEF To, TrEntryOK, TrEntries, States, CanMarkTransferring
  <2>2. TrReceiverOwned'
    BY <1>1, <1>4, <1>9, <2>1 DEF TrReceiverOwned
  <2>3. [k |-> "accept", n |-> off] \in TrAnswers /\ [k |-> "accept", n |-> off].k = "accept"
    BY <1>2, LTrConst DEF TrAnswers
  <2>4. TrSaid
    BY <1>9, <2>3, LTrSaid
  <2> QED
    BY <1>1, <1>3, <1>4, <1>9, <2>1, <2>2, <2>4 DEF TrRelayed
<1> QED
  BY <1>6, <1>7, <1>8, <1>9 DEF AcceptRelay, off, part, act

LEMMA LTrRelayOffer ==
  ASSUME TrInv, NEW a \in Attempts, RelayOffer(a)
  PROVE  TrInv'
<1> DEFINE claimed == CanResume(trR)
           new == trPend = 0
           e == IF claimed THEN To(trR, "resuming") ELSE IF new THEN NewTransfer("waiting", a) ELSE trR
<1>1. /\ trToR[a] # <<>> /\ trToR' = [trToR EXCEPT ![a] = Tail(@)]
      /\ UNCHANGED trSender /\ UNCHANGED <<trUp, trEnd>> /\ UNCHANGED <<trErr, trDone>> /\ UNCHANGED <<trRecv, trDec, trFinal>>
  BY DEF RelayOffer, HeadIs, trOutcome
<1>2. /\ TrEntryOK(trR) /\ trR.st \in {"absent", "waiting", "resuming", "transferring", "paused"} /\ TrReceiverOwned
      /\ trPend \in TrSlot /\ trAct \in TrActives /\ trPart \in TrParts /\ trCan \subseteq Attempts /\ trTimer \subseteq Attempts
      /\ trDec \in TrSlot /\ trRecv \in [Attempts -> TrReceives] /\ a \in TrSlot
  BY DEF TrInv, TrTyped, TrRTyped, TrReceiverOwned, TrActives, TrParts, TrFiles, TrReports, TrSlot
<1>3. /\ TrEntryOK(e) /\ e.st \in {"absent", "waiting", "resuming", "transferring", "paused"}
      /\ (e.st = "transferring" => e = trR)
  <2>1. CASE claimed
    BY <1>2, <2>1 DEF CanResume, To, TrEntryOK, TrEntries, States
  <2>2. CASE ~claimed
    BY <1>2, <2>2, LTrEntries
  <2> QED
    BY <2>1, <2>2
<1>4. TrRelayed /\ trTimer' \subseteq Attempts
  <2>1. CASE UNCHANGED <<trR, trPend, trAct, trPart, trCan, trToS, trTimer>>
    <3>1. TrReceiverOwned'
      BY <1>1, <1>2, <2>1, LTrSameHolder
    <3> QED
      BY <1>2, <2>1, <3>1, LTrSaidNothing DEF TrRelayed
  <2>2. CASE AcceptRelay(a, e, "leave") /\ UNCHANGED trTimer
    <3> HIDE DEF e
    <3> QED
      BY <1>1, <1>2, <1>3, <2>2, LTrAcceptRelay
  <2>3. CASE trR' = e /\ trPend' = a /\ trTimer' = trTimer \cup {a} /\ UNCHANGED <<trAct, trPart, trCan, trToS>>
    <3> HIDE DEF e
    <3>1. TrReceiverOwned'
      BY <1>1, <1>2, <1>3, <2>3 DEF TrReceiverOwned
    <3> QED
      BY <1>2, <1>3, <2>3, <3>1, LTrSaidNothing DEF TrRelayed
  <2> QED
    BY <2>1, <2>2, <2>3 DEF RelayOffer
<1>5. TrReceived
  BY <1>1, <1>2, <1>4, LTrRelayed
<1> QED
  BY <1>1, <1>5, LTrTakeRequest, LTrReceived

LEMMA LTrApprovalExpires ==
  ASSUME TrInv, NEW a \in Attempts, ApprovalExpires(a)
  PROVE  TrInv'
<1>1. /\ trTimer' \subseteq trTimer /\ trToR' = trToR
      /\ UNCHANGED trSender /\ UNCHANGED <<trUp, trEnd>> /\ UNCHANGED <<trErr, trDone>> /\ UNCHANGED <<trRecv, trDec, trFinal>>
      /\ UNCHANGED <<trAct, trPart, trCan>>
  BY DEF ApprovalExpires, trOutcome
<1>2. /\ TrEntryOK(trR) /\ TrReceiverOwned /\ 0 \in TrSlot
      /\ trPend \in TrSlot /\ trAct \in TrActives /\ trPart \in TrParts /\ trCan \subseteq Attempts /\ trTimer \subseteq Attempts
      /\ trDec \in TrSlot /\ trRecv \in [Attempts -> TrReceives]
  BY DEF TrInv, TrTyped, TrRTyped, TrReceiverOwned, TrActives, TrParts, TrFiles, TrReports, TrSlot
<1>3. TrRelayed
  <2>1. CASE trPend' = 0 /\ trR' = NoTransfer /\ ToSender(a, Msg("cancel"))
    <3>1. TrSaid
      BY <2>1, LTrMsg, LTrSaid
    <3> QED
      BY <1>1, <1>2, <2>1, <3>1, LTrEntries, LTrResting DEF TrRelayed
  <2>2. CASE UNCHANGED <<trPend, trR, trToS>>
    <3>1. TrReceiverOwned'
      BY <1>1, <1>2, <2>2, LTrSameHolder
    <3> QED
      BY <1>1, <1>2, <2>2, <3>1, LTrSaidNothing DEF TrRelayed
  <2> QED
    BY <2>1, <2>2 DEF ApprovalExpires
<1>4. TrReceived
  BY <1>1, <1>2, <1>3, LTrRelayed
<1> QED
  BY <1>1, <1>4, LTrSameCan, LTrReceived

LEMMA LTrRelayChunk ==
  ASSUME TrInv, NEW a \in Attempts, RelayChunk(a)
  PROVE  TrInv'
<1> DEFINE m == Head(trToR[a])
<1>1. /\ trToR[a] # <<>> /\ m.k = "chunk" /\ trToR' = [trToR EXCEPT ![a] = Tail(@)]
      /\ UNCHANGED trSender /\ UNCHANGED <<trUp, trEnd>> /\ UNCHANGED <<trErr, trDone>> /\ UNCHANGED <<trRecv, trDec, trFinal>>
      /\ UNCHANGED <<trPend, trTimer, trCan, trToS>>
  BY DEF RelayChunk, HeadIs, trOutcome
<1>2. /\ TrEntryOK(trR) /\ TrReceiverOwned /\ TrFiles
      /\ trPend \in TrSlot /\ trAct \in TrActives /\ trPart \in TrParts /\ trCan \subseteq Attempts /\ trTimer \subseteq Attempts
      /\ trDec \in TrSlot /\ trRecv \in [Attempts -> TrReceives]
  BY DEF TrInv, TrTyped, TrRTyped, TrReceiverOwned, TrActives, TrParts, TrFiles, TrReports, TrSlot
<1>3. m \in TrRequests
  BY <1>1, LTrTakeRequest
<1>4. m.n \in 0 .. TrChunks /\ m.src \in {0, 1}
  BY <1>1, <1>3 DEF TrRequests
<1> HIDE DEF m
<1>5. TrRelayed
  <2>1. CASE UNCHANGED <<trPart, trAct, trR>>
    <3>1. TrReceiverOwned'
      BY <1>1, <1>2, <2>1, LTrSameHolder
    <3> QED
      BY <1>1, <1>2, <2>1, <3>1, LTrSaidNothing DEF TrRelayed
  <2>2. CASE /\ m.n < TrChunks /\ trPart' = Written(trAct.ino, m.n, m.src) /\ trAct' = [trAct EXCEPT !.data = Append(@, m.src)]
             /\ trR' = Progress(trR, m.n + 1)
    <3>1. m.n + 1 \in 0 .. TrChunks
      BY <1>4, <2>2, LTrConst
    <3>2. TrEntryOK(trR') /\ trR'.st = trR.st
      BY <1>2, <2>2, <3>1, LTrProgress
    <3>3. trPart' \in TrParts
      BY <1>2, <1>4, <2>2, LTrWritten DEF TrParts
    <3>4. Append(trAct.data, m.src) \in Seq({0, 1})
      BY <1>2, <1>4, AppendProperties DEF TrActives
    <3>5. trAct' \in TrActives /\ trAct'.a = trAct.a /\ trAct'.done = trAct.done
      BY <1>2, <2>2, <3>4 DEF TrActives
    <3>6. TrReceiverOwned'
      BY <1>1, <1>2, <3>2, <3>5, LTrSameHolder
    <3> QED
      BY <1>1, <1>2, <3>2, <3>3, <3>5, <3>6, LTrSaidNothing DEF TrRelayed
  <2> QED
    BY <2>1, <2>2 DEF RelayChunk, m
<1>6. TrReceived
  BY <1>1, <1>2, <1>5, LTrRelayed
<1> QED
  BY <1>1, <1>6, LTrTakeRequest, LTrReceived

LEMMA LTrRelayCancelled ==
  ASSUME TrInv, NEW a \in Attempts, RelayCancelled(a)
  PROVE  TrInv'
<1>1. /\ trToR[a] # <<>> /\ trToR' = [trToR EXCEPT ![a] = Tail(@)] /\ CancelIncoming
      /\ UNCHANGED trSender /\ UNCHANGED <<trUp, trEnd>> /\ UNCHANGED <<trErr, trDone>> /\ UNCHANGED <<trRecv, trDec, trFinal>>
      /\ UNCHANGED <<trTimer, trToS>>
  BY DEF RelayCancelled, HeadIs, trOutcome
<1>2. trTimer \subseteq Attempts /\ trDec \in TrSlot /\ trRecv \in [Attempts -> TrReceives]
  BY DEF TrInv, TrTyped, TrRTyped
<1>3. TrRelayed
  BY <1>1, LTrCancelIncoming, LTrSaidNothing DEF TrRelayed
<1>4. TrReceived
  BY <1>1, <1>2, <1>3, LTrRelayed
<1> QED
  BY <1>1, <1>4, LTrTakeRequest, LTrReceived

LEMMA LTrRelayComplete ==
  ASSUME TrInv, NEW a \in Attempts, RelayComplete(a)
  PROVE  TrInv'
<1>1. /\ trToR[a] # <<>> /\ trToR' = [trToR EXCEPT ![a] = Tail(@)] /\ trAct' = Inactive
      /\ UNCHANGED trSender /\ UNCHANGED <<trUp, trEnd>> /\ trErr' = trErr /\ UNCHANGED <<trRecv, trDec, trPend, trTimer, trCan>>
  BY DEF RelayComplete, HeadIs
<1>2. /\ TrEntryOK(trR) /\ TrReceiverOwned /\ TrFiles
      /\ trPend \in TrSlot /\ trPart \in TrParts /\ trCan \subseteq Attempts /\ trTimer \subseteq Attempts
      /\ trDec \in TrSlot /\ trRecv \in [Attempts -> TrReceives]
  BY DEF TrInv, TrTyped, TrRTyped, TrReceiverOwned, TrParts, TrFiles, TrReports, TrSlot
<1>3. trAct' \in TrActives /\ trAct'.a = 0 /\ ~trAct'.done /\ NoPart \in TrParts
  BY <1>1, LTrFileNone DEF TrActives, TrParts
<1>4. CASE trAct.a = 0 /\ UNCHANGED <<trR, trPart, trFinal, trDone, trToS>>
  <2>1. TrReceiverOwned'
    BY <1>1, <1>2, <1>4, LTrSameHolder
  <2>2. TrRelayed
    BY <1>1, <1>2, <1>3, <1>4, <2>1, LTrSaidNothing DEF TrRelayed
  <2>3. TrReceived
    BY <1>1, <1>2, <1>4, <2>2, LTrRelayed
  <2> QED
    BY <1>1, <2>3, LTrTakeRequest, LTrReceived
<1>5. CASE trR' = NoTransfer /\ trPart' = NoPart /\ UNCHANGED <<trFinal, trDone, trToS>>
  <2>1. TrRelayed
    BY <1>1, <1>2, <1>3, <1>5, LTrEntries, LTrResting, LTrSaidNothing DEF TrRelayed
  <2>2. TrReceived
    BY <1>1, <1>2, <1>5, <2>1, LTrRelayed
  <2> QED
    BY <1>1, <2>2, LTrTakeRequest, LTrReceived
<1>6. CASE /\ trR' = NoTransfer /\ ToSender(a, Msg("ack")) /\ trDone' \in {trDone, [trDone EXCEPT !.r = @ + 1]}
           /\ trPart' \in {trPart, NoPart}
           /\ (trFinal' = trFinal /\ Stored) \/ trFinal' = trPart.data
  <2>1. Stored' /\ TrFiles'
    <3>1. CASE trFinal' = trFinal /\ Stored
      BY <1>2, <1>3, <1>6, <3>1 DEF Stored, TrFiles, TrParts
    <3>2. CASE trFinal' = trPart.data
      <4>1. trPart.data \in Seq({0, 1}) /\ Len(trPart.data) <= TrChunks
        BY <1>2 DEF TrParts
      <4> QED
        BY <1>2, <1>3, <1>6, <3>2, <4>1, LTrWhole DEF Stored, TrFiles, TrParts
    <3> QED
      BY <1>6, <3>1, <3>2
  <2>2. TrRTyped'
    BY <1>1, <1>2, <1>3, <1>6, LTrEntries DEF TrRTyped, TrActives
  <2>3. TrReceiverOwned'
    BY <1>6, LTrEntries, LTrResting
  <2>4. trDone' \in [s : Nat, r : Nat]
    <3>1. trDone \in [s : Nat, r : Nat]
      BY LTrSameCan
    <3> QED
      BY <1>6, <3>1
  <2>5. trToS' \in [Attempts -> Seq(TrAnswers)] /\ \A b \in Attempts : ~trUp[b] => trToS'[b] = trToS[b]
    <3>1. trToS \in [Attempts -> Seq(TrAnswers)] /\ Msg("ack") \in TrAnswers
      BY LTrMsg DEF TrInv, TrTyped, TrWires
    <3> QED
      BY <1>6, <3>1, LTrToSender
  <2>6. TrReceived
    BY <1>1, <1>2, <2>1, <2>2, <2>3, <2>4, <2>5 DEF TrReceived
  <2> QED
    BY <1>1, <2>6, LTrTakeRequest, LTrReceived
<1>7. trAct.done => Stored
  BY DEF TrInv, TrStored
<1>8. AlreadyStored => Stored
  BY LTrWhole
<1> QED
  BY <1>4, <1>5, <1>6, <1>7, <1>8 DEF RelayComplete

-----------------------------------------------------------------------------
(* Transfers: the commands and the teardown of the receiver                *)

\* The task that waits for a decision is told, and goes on waiting in the same stage.
LEMMA LTrDecide ==
  ASSUME TrInv, NEW d \in Attempts, NEW x \in {"accept", "refuse"}, SetRecv(d, [trRecv[d] EXCEPT !.dec = x])
  PROVE  trRecv' \in [Attempts -> TrReceives] /\ \A b \in Attempts : trRecv'[b].pc = trRecv[b].pc
<1> DEFINE r == [trRecv[d] EXCEPT !.dec = x]
<1>1. r \in TrReceives /\ r.pc = trRecv[d].pc
  BY DEF TrInv, TrTyped, TrRTyped, TrReceives
<1>2. trRecv' \in [Attempts -> TrReceives] /\ trRecv'[d] = r /\ \A b \in Attempts \ {d} : trRecv'[b] = trRecv[b]
  BY <1>1, LTrSetRecv DEF TrInv, TrTyped
<1> QED
  BY <1>1, <1>2

LEMMA LTrRespondQuic ==
  ASSUME TrInv, NEW accept \in BOOLEAN, RespondQuic(accept)
  PROVE  TrInv'
<1>1. /\ trDec # 0 /\ trDec' = 0 /\ trToR' = trToR
      /\ UNCHANGED trSender /\ UNCHANGED <<trUp, trEnd>> /\ UNCHANGED <<trErr, trDone>> /\ UNCHANGED <<trTimer, trFinal>>
      /\ UNCHANGED <<trPend, trAct, trPart, trR, trCan, trToS>>
  BY DEF RespondQuic, trOutcome
<1>2. /\ TrEntryOK(trR) /\ TrReceiverOwned /\ 0 \in TrSlot
      /\ trPend \in TrSlot /\ trAct \in TrActives /\ trPart \in TrParts /\ trCan \subseteq Attempts /\ trTimer \subseteq Attempts
      /\ trDec \in Attempts /\ trRecv \in [Attempts -> TrReceives]
  BY <1>1 DEF TrInv, TrTyped, TrRTyped, TrReceiverOwned, TrActives, TrParts, TrFiles, TrReports, TrSlot
<1>3. trRecv' \in [Attempts -> TrReceives] /\ \A b \in Attempts : trRecv'[b].pc = trRecv[b].pc
  <2>1. CASE UNCHANGED trRecv
    BY <1>2, <2>1
  <2>2. CASE SetRecv(trDec, [trRecv[trDec] EXCEPT !.dec = IF accept THEN "accept" ELSE "refuse"])
    <3>1. (IF accept THEN "accept" ELSE "refuse") \in {"accept", "refuse"}
      OBVIOUS
    <3> QED
      BY <1>2, <2>2, <3>1, LTrDecide
  <2> QED
    BY <2>1, <2>2 DEF RespondQuic
<1>4. TrReceiverOwned'
  BY <1>1, <1>2, <1>3, LTrSameHolder
<1>5. TrRelayed
  BY <1>1, <1>2, <1>4, LTrSaidNothing DEF TrRelayed
<1>6. TrReceived
  BY <1>1, <1>2, <1>3, <1>5, LTrRelayed
<1> QED
  BY <1>1, <1>6, LTrSameCan, LTrReceived

LEMMA LTrRespondRelay ==
  ASSUME TrInv, NEW accept \in BOOLEAN, RespondRelay(accept)
  PROVE  TrInv'
<1>1. /\ trPend # 0 /\ trToR' = trToR
      /\ UNCHANGED trSender /\ UNCHANGED <<trUp, trEnd>> /\ UNCHANGED <<trErr, trDone>> /\ UNCHANGED <<trTimer, trFinal, trDec, trRecv>>
  BY DEF RespondRelay, trOutcome
<1>2. /\ TrEntryOK(trR) /\ trR.st \in {"absent", "waiting", "resuming", "transferring", "paused"} /\ TrReceiverOwned /\ 0 \in TrSlot
      /\ trPend \in Attempts /\ trAct \in TrActives /\ trPart \in TrParts /\ trCan \subseteq Attempts /\ trTimer \subseteq Attempts
      /\ trDec \in TrSlot /\ trRecv \in [Attempts -> TrReceives]
  BY <1>1 DEF TrInv, TrTyped, TrRTyped, TrReceiverOwned, TrActives, TrParts, TrFiles, TrReports, TrSlot
<1>3. TrRelayed
  <2>1. CASE trPend' = 0 /\ UNCHANGED <<trR, trAct, trPart, trCan, trToS>>
    <3>1. TrReceiverOwned'
      BY <1>1, <1>2, <2>1, LTrSameHolder
    <3> QED
      BY <1>2, <2>1, <3>1, LTrSaidNothing DEF TrRelayed
  <2>2. CASE /\ trPend' = 0 /\ trR' = NoTransfer
             /\ trCan' = (IF CanFail(trR) THEN trCan \cup {trR.tok} ELSE trCan)
             /\ ToSender(trPend, Msg("cancel")) /\ UNCHANGED <<trAct, trPart>>
    <3>1. trCan' \subseteq Attempts
      BY <1>2, <2>2 DEF TrEntryOK, CanFail, Running
    <3>2. TrSaid
      BY <1>2, <2>2, LTrMsg, LTrSaid
    <3> QED
      BY <1>2, <2>2, <3>1, <3>2, LTrEntries, LTrResting DEF TrRelayed
  <2>3. CASE AcceptRelay(trPend, trR, "cancel")
    BY <1>1, <1>2, <2>3, LTrAcceptRelay
  <2> QED
    BY <2>1, <2>2, <2>3 DEF RespondRelay
<1>4. TrReceived
  BY <1>1, <1>2, <1>3, LTrRelayed
<1> QED
  BY <1>1, <1>4, LTrSameCan, LTrReceived

LEMMA LTrCancelAtReceiver ==
  ASSUME TrInv, CancelAtReceiver
  PROVE  TrInv'
<1>1. /\ CancelIncoming /\ TellCancel(trToS) /\ trDec' = 0 /\ trToR' = trToR
      /\ UNCHANGED trSender /\ UNCHANGED <<trUp, trEnd>> /\ UNCHANGED <<trErr, trDone>> /\ UNCHANGED <<trTimer, trFinal>>
  BY DEF CancelAtReceiver, trOutcome
<1>2. trTimer \subseteq Attempts /\ trDec \in TrSlot /\ 0 \in TrSlot /\ trRecv \in [Attempts -> TrReceives]
  BY DEF TrInv, TrTyped, TrRTyped, TrSlot
<1>3. trRecv' \in [Attempts -> TrReceives] /\ \A b \in Attempts : trRecv'[b].pc = trRecv[b].pc
  <2>1. CASE UNCHANGED trRecv
    BY <1>2, <2>1
  <2>2. CASE trDec # 0 /\ SetRecv(trDec, [trRecv[trDec] EXCEPT !.dec = "refuse"])
    BY <1>2, <2>2, LTrDecide DEF TrSlot
  <2> QED
    BY <2>1, <2>2 DEF CancelAtReceiver
<1>4. TrSaid
  <2>1. CASE trToS' = trToS
    BY <2>1, LTrSaidNothing
  <2>2. ASSUME NEW a \in Attempts, RelayLease(a), trToS' = [trToS EXCEPT ![a] = Append(@, Msg("cancel"))] PROVE TrSaid
    <3>1. ToSender(a, Msg("cancel"))
      BY <2>2 DEF ToSender, RelayLease
    <3> QED
      BY <3>1, LTrMsg, LTrSaid
  <2> QED
    BY <1>1, <2>1, <2>2 DEF TellCancel
<1>5. TrRelayed
  BY <1>1, <1>4, LTrCancelIncoming DEF TrRelayed
<1>6. TrReceived
  BY <1>1, <1>2, <1>3, <1>5, LTrRelayed
<1> QED
  BY <1>1, <1>6, LTrSameCan, LTrReceived

LEMMA LTrReceiverPauses ==
  ASSUME TrInv, NEW a \in Attempts, ReceiverPauses(a)
  PROVE  TrInv'
<1>1. /\ TrNoted(a, "r") /\ trR' = Pause(trR) /\ UNCHANGED trSender /\ UNCHANGED <<trDone, trErr, trCan>>
      /\ trAct' \in {trAct, Inactive} /\ UNCHANGED <<trRecv, trDec, trPend, trTimer, trPart, trFinal>> /\ UNCHANGED <<trToR, trToS>>
  BY DEF ReceiverPauses, DropActive, TrNoted, trOutcome
<1>2. trAtt' = trAtt
  BY <1>1 DEF trSender
<1>3. TrPathsOK' /\ trEnd'[a] = trEnd[a] \cup {"r"} /\ \A b \in Attempts \ {a} : trEnd'[b] = trEnd[b]
  BY <1>1, <1>2, LTrNoted
<1>4. TrSTyped' /\ TrWaiters' /\ TrSenderOwned'
  BY <1>1, <1>3, LTrSenderFrame DEF TrInv, TrTyped
<1>5. TrEntryOK(trR') /\ trR'.st \in {"absent", "paused"}
  BY <1>1, LTrPause DEF TrInv, TrTyped
<1>6. TrRTyped' /\ TrFiles'
  BY <1>1, <1>5, LTrFileNone DEF TrInv, TrTyped, TrRTyped, TrFiles
<1>7. TrReceiverOwned'
  BY <1>5, LTrResting
<1>8. TrStored'
  BY <1>1, <1>2, LTrSameReports, LTrFileNone DEF TrInv
<1>9. TrWires' /\ TrReports'
  BY <1>1 DEF TrInv, TrTyped, TrWires, TrReports
<1> QED
  BY <1>3, <1>4, <1>6, <1>7, <1>8, <1>9 DEF TrInv, TrTyped

LEMMA LTrReceiverAborts ==
  ASSUME TrInv, NEW a \in Attempts, ReceiverAborts(a)
  PROVE  TrInv'
<1>1. /\ "r" \in trEnd[a] /\ UNCHANGED trSender /\ UNCHANGED <<trDone, trErr, trCan>>
      /\ UNCHANGED <<trR, trAct, trDec, trPend, trTimer, trPart, trFinal>> /\ UNCHANGED <<trToR, trToS>>
      /\ UNCHANGED trRecv \/ EndRecv(a)
  BY DEF ReceiverAborts, trOutcome
<1>2. trAtt' = trAtt /\ TrNoted(a, "rx")
  BY <1>1 DEF trSender, ReceiverAborts, TrNoted, TrInv, TrPathsOK
<1>3. TrPathsOK' /\ trEnd'[a] = trEnd[a] \cup {"rx"} /\ \A b \in Attempts \ {a} : trEnd'[b] = trEnd[b]
  BY <1>1, <1>2, LTrNoted
<1>4. TrSTyped' /\ TrWaiters' /\ TrSenderOwned'
  BY <1>1, <1>3, LTrSenderFrame DEF TrInv, TrTyped
<1>5. /\ trRecv' \in [Attempts -> TrReceives] /\ (trRecv'[a].pc = trRecv[a].pc \/ trRecv'[a].pc = "done")
      /\ \A b \in Attempts \ {a} : trRecv'[b] = trRecv[b]
  BY <1>1, LTrEndRecv DEF TrInv, TrTyped, TrRTyped
<1>6. TrRTyped' /\ TrFiles'
  BY <1>1, <1>5 DEF TrInv, TrTyped, TrRTyped, TrFiles
<1>7. TrReceiverOwned'
  BY <1>1, <1>3, <1>5 DEF TrInv, TrReceiverOwned
<1>8. TrStored'
  BY <1>1, <1>2, <1>5, LTrSameReports DEF TrInv
<1>9. TrWires' /\ TrReports'
  BY <1>1 DEF TrInv, TrTyped, TrWires, TrReports
<1> QED
  BY <1>3, <1>4, <1>6, <1>7, <1>8, <1>9 DEF TrInv, TrTyped

-----------------------------------------------------------------------------
(* Transfers: the invariant and the theorem                                *)

LEMMA LTrInit ==
  ASSUME TransfersInit
  PROVE  TrInv
<1>1. NoAttempt \in TrAttempts /\ NoAttempt.pc = "idle" /\ NoAttempt.got = "none" /\ NoReceive \in TrReceives /\ NoReceive.pc = "idle"
  BY LTrConst DEF NoAttempt, TrAttempts, NoReceive, TrReceives
<1>2. \A a \in Attempts : /\ trAtt[a] = NoAttempt /\ trRecv[a] = NoReceive /\ trToR[a] = <<>> /\ trToS[a] = <<>>
                          /\ trUp[a] = TRUE /\ trEnd[a] = {}
  BY DEF TransfersInit
<1>3. <<>> \in Seq(TrRequests) /\ <<>> \in Seq(TrAnswers) /\ TrQuiet(<<>>)
  BY DEF TrQuiet
<1>4. TrSTyped
  BY <1>1, <1>2, LTrEntries DEF TransfersInit, TrSTyped, TrSlot
<1>5. TrRTyped
  BY <1>1, LTrEntries, LTrFileNone DEF TransfersInit, TrRTyped, TrSlot
<1>6. TrFiles
  BY LTrFileNone DEF TransfersInit, TrFiles
<1>7. TrWires /\ TrReports
  BY <1>3 DEF TransfersInit, TrWires, TrReports
<1>8. TrPathsOK /\ TrWaiters
  BY <1>1, <1>2 DEF TransfersInit, TrPathsOK, TrWaiters
<1>9. TrSenderOwned /\ TrReceiverOwned
  BY LTrEntries DEF TransfersInit, TrSenderOwned, TrReceiverOwned
<1>10. TrStored
  BY <1>1, <1>2, <1>3, LTrFileNone DEF TransfersInit, TrStored
<1> QED
  BY <1>4, <1>5, <1>6, <1>7, <1>8, <1>9, <1>10 DEF TrInv, TrTyped

LEMMA LTrStutter ==
  ASSUME TrInv, UNCHANGED trVars
  PROVE  TrInv'
<1>1. UNCHANGED <<trS, trR, trAtt, trRecv, trToR, trToS, trUp, trEnd, trCan, trDec, trPend>>
      /\ UNCHANGED <<trAct, trTimer, trAcc, trComp, trPart, trFinal, trSrc, trDone, trErr>>
  BY DEF trVars
<1>2. TrTyped'
  BY <1>1 DEF TrInv, TrTyped, TrSTyped, TrRTyped, TrFiles, TrWires, TrReports
<1>3. TrPathsOK' /\ TrWaiters'
  BY <1>1 DEF TrInv, TrPathsOK, TrWaiters
<1>4. TrSenderOwned' /\ TrReceiverOwned'
  BY <1>1 DEF TrInv, TrSenderOwned, TrReceiverOwned, TrKept, TornDown
<1>5. TrStored'
  BY <1>1 DEF TrInv, TrStored, Stored
<1> QED
  BY <1>2, <1>3, <1>4, <1>5 DEF TrInv

LEMMA LTrNext ==
  ASSUME TrInv, [TransfersNext]_trVars
  PROVE  TrInv'
<1>1. CASE \E a \in Attempts, route \in SelectRoutes : SendFile(a, route) \/ ResumeTransfer(a, route)
  BY <1>1, LTrSendFile, LTrResumeTransfer
<1>2. CASE ResumeRefused \/ SourceChanges \/ CancelAtSender \/ CancelAtReceiver
  BY <1>2, LTrResumeRefused, LTrSourceChanges, LTrCancelAtSender, LTrCancelAtReceiver
<1>3. ASSUME NEW a \in Attempts, SenderTask(a) PROVE TrInv'
  BY <1>3, LTrOfferOverQuic, LTrReadDecision, LTrChunkOverQuic, LTrEndOverQuic, LTrReadCompletion, LTrOfferOverRelay,
     LTrChunkOverRelay, LTrEndOverRelay, LTrAttemptLost, LTrRelayAnswer, LTrRelayAccepted, LTrRelayCompleted DEF SenderTask
<1>4. ASSUME NEW a \in Attempts, ReceiverTask(a) PROVE TrInv'
  BY <1>4, LTrReceiveOffer, LTrDecided, LTrReceiveChunk, LTrMoveIntoPlace, LTrFinishRecv, LTrRelayOffer,
     LTrApprovalExpires, LTrRelayChunk, LTrRelayComplete, LTrRelayCancelled DEF ReceiverTask
<1>5. ASSUME NEW a \in Attempts, Teardown(a) \/ AttemptPathLost(a) PROVE TrInv'
  BY <1>5, LTrSenderPauses, LTrSenderAborts, LTrReceiverPauses, LTrReceiverAborts, LTrPathLost DEF Teardown
<1>6. CASE \E accept \in BOOLEAN : RespondQuic(accept) \/ RespondRelay(accept)
  BY <1>6, LTrRespondQuic, LTrRespondRelay
<1>7. CASE UNCHANGED trVars
  BY <1>7, LTrStutter
<1> QED
  BY <1>1, <1>2, <1>3, <1>4, <1>5, <1>6, <1>7 DEF TransfersNext

\* What was received is at most as long as the file.
LEMMA LTrContents ==
  ASSUME NEW d \in Seq({0, 1}), Len(d) <= TrChunks
  PROVE  d \in Contents
<1>1. Len(d) \in 0 .. TrChunks /\ d \in [1 .. Len(d) -> {0, 1}]
  BY LTrConst, LenProperties
<1> QED
  BY <1>1 DEF Contents

LEMMA LTrSound ==
  ASSUME TrInv
  PROVE  TransferSound
<1>1. TrSTyped /\ TrRTyped /\ TrFiles /\ TrReports /\ TrSenderOwned /\ TrReceiverOwned /\ TrStored
  BY DEF TrInv, TrTyped
<1>2. trPart.data \in Contents /\ trFinal \in Contents \cup {NoFile, Other}
  BY <1>1, LTrContents DEF TrFiles
<1>3. TransfersTypeOK
  BY <1>1, <1>2 DEF TransfersTypeOK, TrSTyped, TrRTyped, TrReports, TrEntryOK, TrEntries, TrSlot, TrErrors
<1>4. CompletedIsStored
  BY <1>1, LTrConst DEF TrStored, CompletedIsStored
<1>5. MovingHasOwner
  <2>1. trS.st \in {"transferring", "verifying"} => \E a \in Attempts : trAtt[a].pc \notin {"idle", "done"}
    BY <1>1 DEF TrSenderOwned, TrKept, TrAsking
  <2>2. trR.st \in {"transferring", "verifying"} => trAct.a # 0 \/ \E a \in Attempts : trRecv[a].pc \notin {"idle", "done"}
    BY <1>1 DEF TrReceiverOwned
  <2> QED
    BY <2>1, <2>2 DEF MovingHasOwner
<1> QED
  BY <1>3, <1>4, <1>5 DEF TransferSound

\* In the transfers of relay_transfer/ and transfer_operations/, whatever the number of chunks, attempts and
\* losses, a completion is only reported by either side of a received file that is in place, and a transfer
\* that moves or is being verified has a task that will still end it.
THEOREM TransfersStaySound == TransfersSpec => []TransferSound
<1>1. TransfersInit => TrInv
  BY LTrInit
<1>2. TrInv /\ [TransfersNext]_trVars => TrInv'
  BY LTrNext
<1>3. TrInv => TransferSound
  BY LTrSound
<1> QED
  BY <1>1, <1>2, <1>3, PTL DEF TransfersSpec
=============================================================================
