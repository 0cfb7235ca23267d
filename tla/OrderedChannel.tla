--------------------------- MODULE OrderedChannel ---------------------------
(***************************************************************************)
(* What a SessionBoundOrdered channel promises the receiving application:  *)
(* it is shown the messages of a channel one at a time, in the order they  *)
(* were sent and without gaps; the next one comes only after it finished   *)
(* the one before, and a finished message is never shown again.  An event  *)
(* may be withdrawn before it is finished.                                 *)
(***************************************************************************)
EXTENDS Naturals

CONSTANT Channels

VARIABLES
  sent,      \* how many messages of each channel were sent
  finished,  \* sequences the application finished
  open       \* the sequences it is working on

vars == <<sent, finished, open>>
\* The first message it has not finished.
Next(ch) ==
  CHOOSE s \in 0 .. sent[ch] :
    s \notin finished[ch] /\ \A r \in 0 .. sent[ch] : r < s => r \in finished[ch]

Init ==
  /\ sent = [ch \in Channels |-> 0]
  /\ finished = [ch \in Channels |-> {}] /\ open = [ch \in Channels |-> {}]

Send(ch) == sent' = [sent EXCEPT ![ch] = @ + 1] /\ UNCHANGED <<finished, open>>
Show(ch) ==
  /\ open[ch] = {} /\ Next(ch) < sent[ch]
  /\ open' = [open EXCEPT ![ch] = {Next(ch)}]
  /\ UNCHANGED <<sent, finished>>
\* Finishing a message may show the next one at once.
Finish(ch) ==
  /\ open[ch] = {Next(ch)}
  /\ finished' = [finished EXCEPT ![ch] = @ \cup open[ch]]
  /\ \E more \in {{}, {Next(ch) + 1}} :
       /\ \A s \in more : s < sent[ch]
       /\ open' = [open EXCEPT ![ch] = more]
  /\ UNCHANGED sent
Withdraw(ch) ==
  /\ open[ch] # {} /\ open' = [open EXCEPT ![ch] = {}]
  /\ UNCHANGED <<sent, finished>>

Spec ==
  Init /\ [][\E ch \in Channels : Send(ch) \/ Show(ch) \/ Finish(ch) \/ Withdraw(ch)]_vars
=============================================================================
