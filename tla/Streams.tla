------------------------------ MODULE Streams -------------------------------
(***************************************************************************)
(* The reliable byte streams of one peer (stream/): the manager's entries, *)
(* the task that reads the route's frames, the task that consumes a        *)
(* stream (event drainer or SSH gateway), the task that opens, sends and   *)
(* closes, loss of the path under a stream and session teardown.           *)
(*                                                                         *)
(* Every manager call is one lock section.  A stream has one task that     *)
(* sends on it (the command worker, or the gateway of a bridged stream),   *)
(* so its send lock is never contended and is left out.  Frames are unit   *)
(* size; the QUIC reader of one stream is the route reader with one key.   *)
(* The waits on the watch channel are guards: the waiter subscribes under  *)
(* the lock that tested, so no wake-up is missed.                          *)
(***************************************************************************)
EXTENDS Naturals, Sequences, FiniteSets

CONSTANTS StrLocal, StrRemote, StrBridged, StrCap, StrMaxStreams, StrMaxRetired, StrMaxFrames,
          StrMaxPaths, StrBudget
StrKeys == StrLocal \cup StrRemote
ASSUME StreamsAssumption ==
  /\ StrLocal \cap StrRemote = {} /\ StrBridged \subseteq StrRemote
  /\ IsFiniteSet(StrKeys)  \* a key is an opener and a u16
  /\ {StrCap, StrMaxStreams, StrMaxRetired, StrMaxFrames, StrBudget} \subseteq Nat
  /\ StrMaxPaths \in Nat \ {0}

VARIABLES
  strEntry,    \* key -> its entry in `streams`
  strRetired,  \* tombstones
  strGen,      \* the path that is up; leases of earlier ones are inactive
  strTask,     \* key -> the task that opens, sends and closes
  strReader,   \* the route's receiver
  strDrain,    \* key -> "none", "run" or "done": the consumer task
  strSocket,   \* bridged key -> is the local socket up
  strPeer,     \* key -> frames the remote side has sent, and whether it closed
  strGot,      \* key -> frames handed to the consumer
  strClosedEv, \* key -> SshStreamClosed was emitted
  strOpens,    \* key -> times an entry was made
  strSpent

strVars == <<strEntry, strRetired, strGen, strTask, strReader, strDrain, strSocket, strPeer, strGot,
             strClosedEv, strOpens, strSpent>>

NoEntry == [here |-> FALSE, chunks |-> <<>>, recvClosed |-> FALSE, sendClosed |-> FALSE,
            nextRecv |-> 0, lease |-> 0]
TaskIdle == [at |-> "idle", lease |-> 0]
ReaderIdle == [at |-> "idle", key |-> "none", seq |-> 0, after |-> 0, lease |-> 0]

StreamsInit ==
  /\ strEntry = [k \in StrKeys |-> NoEntry] /\ strRetired = {} /\ strGen = 1
  /\ strTask = [k \in StrKeys |-> TaskIdle] /\ strReader = ReaderIdle
  /\ strDrain = [k \in StrKeys |-> "none"] /\ strSocket = [k \in StrBridged |-> TRUE]
  /\ strPeer = [k \in StrKeys |-> [sent |-> 0, closed |-> FALSE]]
  /\ strGot = [k \in StrKeys |-> <<>>] /\ strClosedEv = [k \in StrKeys |-> FALSE]
  /\ strOpens = [k \in StrKeys |-> 0] /\ strSpent = 0

StrHappens == strSpent < StrBudget /\ strSpent' = strSpent + 1
Active(lease) == lease = strGen

-----------------------------------------------------------------------------
(* The manager                                                             *)

\* Mutant: a tombstone is not looked at.
OpenAgain(k) == ~strEntry[k].here /\ Cardinality({j \in StrKeys : strEntry[j].here}) < StrMaxStreams
\* open: the limits, the entry and the tombstone of the identity.
CanOpen(k) ==
  /\ Cardinality({j \in StrKeys : strEntry[j].here}) < StrMaxStreams
  /\ ~strEntry[k].here /\ k \notin strRetired /\ Cardinality(strRetired) < StrMaxRetired
Insert(k) ==
  /\ strEntry' = [strEntry EXCEPT ![k] = [NoEntry EXCEPT !.here = TRUE]]
  /\ strOpens' = [strOpens EXCEPT ![k] = @ + 1]
CanBind(k) == strEntry[k].here /\ strEntry[k].lease = 0
Bind(k, lease) == strEntry' = [strEntry EXCEPT ![k].lease = lease]
CanTake(k) == strEntry[k].here /\ ~strEntry[k].sendClosed /\ strEntry[k].lease # 0
\* restore_lease: refused when the stream is gone or the peer has closed its half.
CanRestore(k) == CanBind(k) /\ ~strEntry[k].recvClosed

\* An entry with both halves closed is removed and its identity retired.
Settle(k, e) ==
  IF e.recvClosed /\ e.sendClosed
    THEN /\ strEntry' = [strEntry EXCEPT ![k] = NoEntry]
         /\ strRetired' = IF Cardinality(strRetired) < StrMaxRetired THEN strRetired \cup {k} ELSE strRetired
    ELSE strEntry' = [strEntry EXCEPT ![k] = e] /\ UNCHANGED strRetired
\* handle_close and close_local
HandleClose(k) ==
  IF strEntry[k].here THEN Settle(k, [strEntry[k] EXCEPT !.recvClosed = TRUE])
  ELSE UNCHANGED <<strEntry, strRetired>>
CloseLocal(k) ==
  IF strEntry[k].here THEN Settle(k, [strEntry[k] EXCEPT !.sendClosed = TRUE])
  ELSE UNCHANGED <<strEntry, strRetired>>

-----------------------------------------------------------------------------
(* open_stream, send_stream, close_stream                                  *)

TaskTo(k, stage, lease) == strTask' = [strTask EXCEPT ![k] = [at |-> stage, lease |-> lease]]
TaskKeeps == UNCHANGED <<strGen, strReader, strSocket, strPeer, strGot, strClosedEv>>
TaskMoves(k, from) == strTask[k].at = from /\ TaskKeeps /\ UNCHANGED strSpent

\* ensure_business_path and select_business_path_lease
OpenStream(k) ==
  /\ k \in StrLocal /\ strTask[k].at = "idle" /\ StrHappens /\ TaskTo(k, "open", strGen)
  /\ TaskKeeps /\ UNCHANGED <<strEntry, strRetired, strDrain, strOpens>>
OpenInsert(k) ==
  /\ TaskMoves(k, "open") /\ UNCHANGED <<strRetired, strDrain>>
  /\ IF CanOpen(k) THEN Insert(k) /\ TaskTo(k, "bind", strTask[k].lease)
     ELSE TaskTo(k, "idle", 0) /\ UNCHANGED <<strEntry, strOpens>>
OpenBind(k) ==
  /\ TaskMoves(k, "bind") /\ UNCHANGED <<strRetired, strDrain, strOpens>>
  /\ IF CanBind(k) THEN Bind(k, strTask[k].lease) /\ TaskTo(k, "opentake", 0)
     ELSE TaskTo(k, "idle", 0) /\ UNCHANGED strEntry
\* take_lease of the three operations; an open whose lease is gone just returns.
TakeLease(k) ==
  LET next == [opentake |-> "openwrite", sendtake |-> "write", closetake |-> "closewrite"] IN
  /\ strTask[k].at \in DOMAIN next /\ TaskMoves(k, strTask[k].at)
  /\ IF CanTake(k)
       THEN Bind(k, 0) /\ TaskTo(k, next[strTask[k].at], strEntry[k].lease)
       ELSE TaskTo(k, IF strTask[k].at = "opentake" THEN "idle" ELSE "lost", 0) /\ UNCHANGED strEntry
  /\ UNCHANGED <<strRetired, strDrain, strOpens>>
\* The frame is written on the lease's carrier, which may fail or be gone.
WriteFrame(k, ok) ==
  LET next == [openwrite |-> "openrestore", write |-> "restore", closewrite |-> "closelocal"] IN
  /\ strTask[k].at \in DOMAIN next /\ TaskMoves(k, strTask[k].at)
  /\ IF ok /\ Active(strTask[k].lease) THEN TaskTo(k, next[strTask[k].at], strTask[k].lease)
     ELSE TaskTo(k, "lost", 0)
  /\ UNCHANGED <<strEntry, strRetired, strDrain, strOpens>>

\* Mutant: the outcome of restore_lease is not looked at.
RestoreIgnored(k) ==
  /\ strTask[k].at \in {"openrestore", "restore"} /\ TaskMoves(k, strTask[k].at)
  /\ IF CanRestore(k) THEN Bind(k, strTask[k].lease) ELSE UNCHANGED strEntry
  /\ TaskTo(k, "idle", 0)
  /\ strDrain' = IF strTask[k].at = "openrestore" THEN [strDrain EXCEPT ![k] = "run"] ELSE strDrain
  /\ UNCHANGED <<strRetired, strOpens>>
\* restore_lease, and the event emitter of a stream that is now open.
RestoreLease(k) ==
  /\ strTask[k].at \in {"openrestore", "restore"} /\ TaskMoves(k, strTask[k].at)
  /\ IF CanRestore(k)
       THEN /\ Bind(k, strTask[k].lease) /\ TaskTo(k, "idle", 0)
            /\ strDrain' = IF strTask[k].at = "openrestore" THEN [strDrain EXCEPT ![k] = "run"] ELSE strDrain
       ELSE TaskTo(k, "lost", 0) /\ UNCHANGED <<strEntry, strDrain>>
  /\ UNCHANGED <<strRetired, strOpens>>
\* close_stream_after_path_loss: both halves, one after the other.
LoseReceive(k) ==
  /\ TaskMoves(k, "lost") /\ HandleClose(k) /\ TaskTo(k, "lost2", 0) /\ UNCHANGED <<strDrain, strOpens>>
LoseSend(k) ==
  /\ TaskMoves(k, "lost2") /\ CloseLocal(k) /\ TaskTo(k, "idle", 0) /\ UNCHANGED <<strDrain, strOpens>>

\* send_stream and close_stream start when the entry is there (command_stream_opener,
\* send_guard); the gateway ends with a close once its socket is gone.
SendStream(k) ==
  /\ strTask[k].at = "idle" /\ strEntry[k].here /\ ~strEntry[k].sendClosed /\ StrHappens
  /\ k \in StrBridged => strSocket[k] /\ strDrain[k] # "none"
  /\ TaskTo(k, "sendtake", 0) /\ TaskKeeps /\ UNCHANGED <<strEntry, strRetired, strDrain, strOpens>>
CloseStream(k) ==
  /\ strTask[k].at = "idle" /\ strEntry[k].here /\ k \notin StrBridged /\ StrHappens
  /\ TaskTo(k, "closetake", 0) /\ TaskKeeps /\ UNCHANGED <<strEntry, strRetired, strDrain, strOpens>>
GatewayClose(k) ==
  /\ strTask[k].at = "idle" /\ k \in StrBridged /\ ~strSocket[k] /\ strDrain[k] # "none"
  /\ strEntry[k].here /\ ~strEntry[k].sendClosed
  /\ TaskTo(k, "closetake", 0) /\ TaskKeeps
  /\ UNCHANGED <<strEntry, strRetired, strDrain, strOpens, strSpent>>
CloseHalf(k) ==
  /\ TaskMoves(k, "closelocal") /\ CloseLocal(k) /\ TaskTo(k, "closerestore", strTask[k].lease)
  /\ UNCHANGED <<strDrain, strOpens>>
\* The lease stays with the receive half that still drains.
CloseRestore(k) ==
  /\ TaskMoves(k, "closerestore") /\ TaskTo(k, "idle", 0)
  /\ IF CanRestore(k) THEN Bind(k, strTask[k].lease) ELSE UNCHANGED strEntry
  /\ UNCHANGED <<strRetired, strDrain, strOpens>>

-----------------------------------------------------------------------------
(* Inbound frames: handle_inbound_stream_frame, handle_bytes               *)

ReaderKeeps == UNCHANGED <<strGen, strTask, strSocket, strGot, strClosedEv>>
ReaderMoves(from) == strReader.at = from /\ ReaderKeeps /\ UNCHANGED <<strPeer, strSpent>>

FrameOpen(k) ==
  /\ k \in StrRemote /\ strReader.at = "idle" /\ StrHappens /\ ReaderKeeps
  /\ IF CanOpen(k)
       THEN Insert(k) /\ strReader' = [ReaderIdle EXCEPT !.at = "bind", !.key = k, !.lease = strGen]
       ELSE UNCHANGED <<strEntry, strOpens, strReader>>
  /\ UNCHANGED <<strRetired, strDrain, strPeer>>
\* bind_inbound_attempt: the lease must be one of the carrier the frame came on.
\* The gateway or the event emitter of the stream starts.
BindInbound ==
  LET k == strReader.key IN
  /\ ReaderMoves("bind") /\ UNCHANGED <<strRetired, strOpens>>
  /\ IF Active(strReader.lease) /\ CanBind(k)
       THEN /\ Bind(k, strReader.lease) /\ strReader' = ReaderIdle
            /\ strDrain' = [strDrain EXCEPT ![k] = "run"]
       ELSE strReader' = [strReader EXCEPT !.at = "lost"] /\ UNCHANGED <<strEntry, strDrain>>
InboundLost ==
  LET k == strReader.key IN
  /\ strReader.at \in {"lost", "lost2"} /\ ReaderMoves(strReader.at)
  /\ IF strReader.at = "lost" THEN HandleClose(k) /\ strReader' = [strReader EXCEPT !.at = "lost2"]
     ELSE CloseLocal(k) /\ strReader' = ReaderIdle
  /\ UNCHANGED <<strDrain, strOpens>>

\* The next frame of the peer, or a repeated one.
FrameBytes(k, seq) ==
  /\ strReader.at = "idle" /\ seq <= strPeer[k].sent /\ strPeer[k].sent < StrMaxFrames
  /\ seq = strPeer[k].sent => ~strPeer[k].closed
  /\ seq < strPeer[k].sent => seq + 1 = strPeer[k].sent
  /\ StrHappens
  /\ strPeer' = [strPeer EXCEPT ![k].sent = IF seq = @ THEN @ + 1 ELSE @]
  /\ strReader' = [ReaderIdle EXCEPT !.at = "buffer", !.key = k, !.seq = seq]
  /\ ReaderKeeps /\ UNCHANGED <<strEntry, strRetired, strDrain, strOpens>>
\* Mutant: a repeated frame is buffered again.
FreshAlways(e, seq) == seq <= e.nextRecv
Fresh(e, seq) == seq = e.nextRecv
\* Mutant: a stream closed on this side is still waited for.
BuffersHalfClosed == strEntry[strReader.key].here /\ ~strEntry[strReader.key].recvClosed
                     /\ Fresh(strEntry[strReader.key], strReader.seq)
\* Frames of a stream that is gone or closed on either side are dropped, as are
\* repeated ones; a gap is an error of this frame only.
Buffers == strEntry[strReader.key].here /\ ~strEntry[strReader.key].recvClosed
           /\ ~strEntry[strReader.key].sendClosed /\ Fresh(strEntry[strReader.key], strReader.seq)
Room(e) == Len(e.chunks) < StrCap
BufferBytes ==
  LET k == strReader.key IN
  /\ ReaderMoves("buffer") /\ UNCHANGED <<strRetired, strDrain, strOpens>>
  /\ IF Buffers
       THEN /\ Room(strEntry[k])
            /\ strEntry' = [strEntry EXCEPT ![k].chunks = Append(@, strReader.seq),
                                            ![k].nextRecv = strReader.seq + 1]
            /\ strReader' = [strReader EXCEPT !.at = "drained", !.after = Len(strEntry[k].chunks) + 1]
       ELSE strReader' = ReaderIdle /\ UNCHANGED strEntry
\* An event stream holds the reader back until the drainer has taken the frame.
WaitDrained ==
  LET k == strReader.key IN
  /\ ReaderMoves("drained") /\ UNCHANGED <<strEntry, strRetired, strDrain, strOpens>>
  /\ \/ ~strEntry[k].here \/ k \in StrBridged
     \/ Len(strEntry[k].chunks) < strReader.after
  /\ strReader' = ReaderIdle
FrameClose(k) ==
  /\ strReader.at = "idle" /\ ~strPeer[k].closed /\ StrHappens /\ ReaderKeeps
  /\ strPeer' = [strPeer EXCEPT ![k].closed = TRUE] /\ HandleClose(k)
  /\ UNCHANGED <<strReader, strDrain, strOpens>>

-----------------------------------------------------------------------------
(* Consumers, path loss and teardown                                       *)

DrainKeeps == UNCHANGED <<strRetired, strGen, strTask, strReader, strSocket, strPeer, strOpens, strSpent>>
\* drain_events, one chunk; receive of the gateway, as much as fits its buffer.
Consume(k) ==
  LET n == IF k \in StrBridged THEN Len(strEntry[k].chunks) ELSE 1 IN
  /\ strDrain[k] = "run" /\ strEntry[k].chunks # <<>>
  /\ k \in StrBridged => strSocket[k]
  /\ strGot' = [strGot EXCEPT ![k] = @ \o SubSeq(strEntry[k].chunks, 1, n)]
  /\ strEntry' = [strEntry EXCEPT ![k].chunks = SubSeq(@, n + 1, Len(@))]
  /\ DrainKeeps /\ UNCHANGED <<strDrain, strClosedEv>>
\* Mutant: the close is told without draining.
AtEnd(k) == strEntry[k].recvClosed
\* The buffer is empty and the peer has closed, or the entry is gone.
Drained(k) == strEntry[k].recvClosed /\ strEntry[k].chunks = <<>>
ConsumerEnds(k) ==
  /\ strDrain[k] = "run" /\ (~strEntry[k].here \/ Drained(k) \/ (k \in StrBridged /\ ~strSocket[k]))
  /\ strDrain' = [strDrain EXCEPT ![k] = "done"]
  /\ strClosedEv' = [strClosedEv EXCEPT ![k] = @ \/ (strEntry[k].here /\ k \notin StrBridged)]
  /\ DrainKeeps /\ UNCHANGED <<strEntry, strGot>>
\* External: the local sshd ends the connection (or refused it).
SocketEnds(k) ==
  /\ strSocket[k] /\ strDrain[k] = "run" /\ StrHappens /\ strSocket' = [strSocket EXCEPT ![k] = FALSE]
  /\ UNCHANGED <<strEntry, strRetired, strGen, strTask, strReader, strDrain, strPeer, strGot, strClosedEv, strOpens>>

\* External: the path is closed hard and another one takes its place.
PathLost ==
  /\ strGen < StrMaxPaths /\ strGen' = strGen + 1
  /\ UNCHANGED <<strEntry, strRetired, strTask, strReader, strDrain, strSocket, strPeer, strGot, strClosedEv, strOpens, strSpent>>
\* close_all at the end of a session, close_inactive after a lost path.
CloseKeys(S) ==
  /\ strEntry' = [k \in StrKeys |-> IF k \in S THEN NoEntry ELSE strEntry[k]]
  /\ strRetired' = strRetired \cup S
  /\ strClosedEv' = [k \in StrKeys |-> strClosedEv[k] \/ k \in S]
  /\ UNCHANGED <<strGen, strTask, strReader, strDrain, strSocket, strPeer, strGot, strOpens>>
CloseAll == StrHappens /\ CloseKeys({k \in StrKeys : strEntry[k].here})
CloseInactive ==
  LET S == {k \in StrKeys : strEntry[k].here /\ strEntry[k].lease # 0 /\ ~Active(strEntry[k].lease)} IN
  S # {} /\ CloseKeys(S) /\ UNCHANGED strSpent

TaskStep(k) ==
  \/ OpenInsert(k) \/ OpenBind(k) \/ TakeLease(k) \/ (\E ok \in BOOLEAN : WriteFrame(k, ok))
  \/ RestoreLease(k) \/ LoseReceive(k) \/ LoseSend(k) \/ CloseHalf(k) \/ CloseRestore(k)
ReaderStep == BindInbound \/ InboundLost \/ BufferBytes \/ WaitDrained
ConsumerStep(k) == Consume(k) \/ ConsumerEnds(k)
StreamsNext ==
  \/ \E k \in StrKeys : \/ OpenStream(k) \/ SendStream(k) \/ CloseStream(k) \/ GatewayClose(k) \/ TaskStep(k)
                        \/ ConsumerStep(k) \/ FrameOpen(k) \/ FrameClose(k)
                        \/ \E seq \in 0 .. StrMaxFrames : FrameBytes(k, seq)
  \/ ReaderStep \/ PathLost \/ CloseAll \/ CloseInactive
  \/ \E k \in StrBridged : SocketEnds(k)
\* Tasks run; a gateway whose socket has ended closes its stream.
StreamsFairness ==
  /\ WF_strVars(ReaderStep)
  /\ \A k \in StrKeys : WF_strVars(TaskStep(k)) /\ WF_strVars(ConsumerStep(k)) /\ WF_strVars(GatewayClose(k))
StreamsSpec == StreamsInit /\ [][StreamsNext]_strVars /\ StreamsFairness

-----------------------------------------------------------------------------
(* Properties                                                              *)

StreamsTypeOK ==
  /\ \A k \in StrKeys : /\ strEntry[k].lease \in 0 .. StrMaxPaths /\ Len(strEntry[k].chunks) <= StrCap
                        /\ ~strEntry[k].here => strEntry[k] = NoEntry
                        /\ strDrain[k] \in {"none", "run", "done"}
  /\ strRetired \subseteq StrKeys /\ strGen \in 1 .. StrMaxPaths /\ strSpent \in 0 .. StrBudget

\* What a consumer is given is what the peer sent, from its first frame on, in order
\* and once, with repeated frames and whatever closes in between (handle_bytes).
StreamInOrder == \A k \in StrKeys : strGot[k] = [i \in 1 .. Len(strGot[k]) |-> i - 1]

\* The identity of a stream is used once: a closed stream is not opened again, so an
\* old handle never reaches a new stream (the tombstones of StreamState).
OpenedOnce == \A k \in StrKeys : strOpens[k] <= 1

\* A stream nobody is working on can be sent on: between operations its lease is in
\* its entry until its send half is closed (take_lease, restore_lease).
IdleStreamHasLease ==
  \A k \in StrKeys :
    strEntry[k].here /\ strTask[k].at = "idle" /\ strReader.key # k
      => strEntry[k].lease # 0 \/ strEntry[k].sendClosed

\* When the application is told that a stream is closed there is no data left to tell
\* it of (drain_events: data events precede the close event).
ClosedIsLast ==
  \A k \in StrKeys : strClosedEv[k] => strEntry[k].chunks = <<>>

\* The reader of the route, which all its streams share, never stays blocked on one
\* of them: the consumer drains, or the stream is closed.
RouteKeepsReading == []<>(strReader.at = "idle")

\* Violated.  "An SSH burst therefore cannot grow memory without bound or be silently discarded"
\* (stream/mod.rs): buffered data outlives an orderly end of its stream.
NothingDiscarded ==
  [][\A k \in StrKeys : strEntry[k].chunks # <<>> /\ ~strEntry'[k].here => strClosedEv'[k]]_strVars

\* A stream is one stream to its end: opened once, read in order without a gap or a
\* repeat, ready to send between operations, and closed after its last byte.
StreamFaithful ==
  StreamsTypeOK /\ StreamInOrder /\ OpenedOnce /\ IdleStreamHasLease /\ ClosedIsLast
=============================================================================
