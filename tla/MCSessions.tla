----------------------------- MODULE MCSessions -----------------------------
(* What runs on top of a session, side by side: reliable streams, one file    *)
(* transfer, and realtime media.  focus picks which of the three this         *)
(* behaviour runs.                                                            *)
EXTENDS Streams, Transfers, Realtime
Signal(kind, shared, rev, op, cand) ==
  [kind |-> kind, shared |-> shared, rev |-> rev, op |-> op, cand |-> cand]
\* Two calls of the peer (11 and 12) and the answer to ours (1).
Signals ==
  {Signal("offer", 11, 1, "none", "none"), Signal("request", 11, 1, "a", "none"),
   Signal("cancel", 11, 1, "a", "none"), Signal("ice", 11, 1, "none", "c"),
   Signal("restart", 11, 2, "none", "none"), Signal("close", 11, 3, "none", "none"),
   Signal("offer", 12, 1, "none", "none"), Signal("answer", 1, 2, "none", "none"),
   Signal("close", 1, 3, "none", "none")}

VARIABLE focus
Init == /\ StreamsInit /\ TransfersInit /\ RealtimeInit
        /\ focus \in {"streams", "transfers", "realtime"}
Next ==
  /\ UNCHANGED focus
  /\ \/ focus = "streams" /\ StreamsNext /\ UNCHANGED <<trVars, rtVars>>
     \/ focus = "transfers" /\ TransfersNext /\ UNCHANGED <<strVars, rtVars>>
     \/ focus = "realtime" /\ RealtimeNext /\ UNCHANGED <<strVars, trVars>>
\* No fair action is enabled initially, so the fairness of the components that
\* are not in focus asks for nothing.
Spec == /\ Init /\ [][Next]_<<focus, strVars, trVars, rtVars>>
        /\ StreamsFairness /\ TransfersFairness /\ RealtimeFairness

\* What runs on a session goes on: the reader of a route is never blocked for good by one of its
\* streams, and every dispatched attempt of a transfer ends.
SessionWorkGoesOn == RouteKeepsReading /\ AttemptsEnd
=============================================================================
