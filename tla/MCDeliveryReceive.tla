-------------------------- MODULE MCDeliveryReceive --------------------------
(* A small instance of DeliveryReceive for its liveness.                   *)
EXTENDS DeliveryReceive
CONSTANTS a, b, h1, h2
Msg(ch, seq, pol, size) == [ch |-> ch, seq |-> seq, pol |-> pol, size |-> size]
MixedTraffic == {Msg(a, s, "SessionBoundOrdered", 1) : s \in 0 .. 1}
                  \cup {Msg(b, 0, "Acked", 1), Msg(b, 1, "BestEffort", 1)}
==============================================================================
