------------------------------- MODULE MCRelay -------------------------------
(* One control client under concurrent calls, and the control slot of the   *)
(* runtime with its reconnect loop and its publications: focus picks which   *)
(* of the two this behaviour runs.                                            *)
EXTENDS RelayClient, RelayControl
CONSTANTS a, b, n1, n2, k1, k2
PeerOf == [c \in {a, b} |-> IF c = a THEN "p" ELSE "q"]
Plan == [c \in {a, b} |-> IF c = a THEN {"begin"} ELSE {"begin", "publish", "signal"}]

VARIABLE focus
Init == RelayClientInit /\ RelayControlInit /\ focus \in {"client", "control"}
Next ==
  /\ UNCHANGED focus
  /\ \/ focus = "client" /\ RelayClientNext /\ UNCHANGED rlVars
     \/ focus = "control" /\ RelayControlNext /\ UNCHANGED rcVars
\* No fair action is enabled initially, so the fairness of the component that
\* is not in focus asks for nothing.
Spec == /\ Init /\ [][Next]_<<focus, rcVars, rlVars>>
        /\ RelayClientFairness /\ RelayControlFairness
==============================================================================
