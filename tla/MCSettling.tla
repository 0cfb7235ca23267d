------------------------------ MODULE MCSettling ------------------------------
(* What the runtime owes eventually: a peer supervisor settles its commands, a *)
(* sender its messages.  focus picks which of the two this behaviour runs.     *)
EXTENDS PeerSupervisor, DeliverySend, TLC
CONSTANTS c1, c2, a
\* One message at a time, with every retry, lapse and cancellation.
RetriedPolicies == a :> {"Acked", "BestEffort"}

VARIABLE focus
\* The idle sender of an online peer: no fair action of it is enabled.
OnlineSender ==
  /\ pending = << >> /\ pendingBytes = 0 /\ outcomes = << >> /\ nextSequence = (a :> 0)
  /\ retrying = FALSE /\ online = TRUE /\ jobs = {} /\ claims = {} /\ wrote = {}
SettlingInit == Init /\ \/ focus = "supervisor" /\ OnlineSender
                        \/ focus = "send" /\ SendInit
SettlingNext ==
  /\ UNCHANGED focus
  /\ \/ focus = "supervisor" /\ Next /\ UNCHANGED sending
     \/ focus = "send" /\ SendNext /\ UNCHANGED vars
\* The component that is not in focus rests in a state where none of its fair
\* actions is enabled, so its fairness asks for nothing.
SettlingSpec == /\ SettlingInit /\ [][SettlingNext]_<<focus, vars, sending>>
                /\ Fairness /\ SendFairness

\* A supervisor answers every accepted command and rests after a stop; a sender settles every message.
CommandsAndMessagesSettle == SupervisorSettles /\ PendingSettles
===============================================================================
