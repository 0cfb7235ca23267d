-------------------------- MODULE MCDeliveryStores --------------------------
(* The send store and the receive store, each under every call its callers   *)
(* may make: focus picks which of the two this behaviour runs.               *)
EXTENDS DeliverySend, DeliveryReceive, TLC
CONSTANTS a, b, h1, h2
MixedPolicies == a :> {"LatestState", "Acked", "BestEffort"}
Msg(ch, seq, pol, size) == [ch |-> ch, seq |-> seq, pol |-> pol, size |-> size]
\* An ordered channel next to one that carries the other policies.
MixedTraffic == {Msg(a, s, "SessionBoundOrdered", 1) : s \in 0 .. 2}
                  \cup {Msg(b, 0, "Acked", 1)}

VARIABLE focus
StoresInit == SendInit /\ ReceiveInit /\ focus \in {"send", "receive"}
StoresNext ==
  /\ UNCHANGED focus
  /\ \/ focus = "send" /\ SendNext /\ UNCHANGED receiving
     \/ focus = "receive" /\ ReceiveNext /\ UNCHANGED sending
StoresSpec == StoresInit /\ [][StoresNext]_<<focus, sending, receiving>>
=============================================================================
