-------------------------- MODULE MCConnectAttempt --------------------------
(* Small instances of ConnectAttempt for TLC.                               *)
EXTENDS ConnectAttempt
CONSTANTS plain, ssh, probe
\* The connect ssh also asks for streams.
Need == [a \in CaAttempts |-> IF a = ssh THEN {"message", "stream"} ELSE {"message"}]
Published(epoch, rev, content) == [epoch |-> epoch, rev |-> rev, content |-> content]
\* The peer refreshes its candidates, then restarts.
Restarts == <<Published(1, 1, 1), Published(1, 2, 2), Published(2, 1, 1)>>
\* The peer refreshes its candidates twice.
Refreshes == <<Published(1, 1, 1), Published(1, 2, 2), Published(1, 3, 1)>>
=============================================================================
