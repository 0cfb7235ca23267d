------------------------------ MODULE MCRuntime ------------------------------
(* The event lanes, the command pipeline and the task supervisor, one of    *)
(* them per behaviour: `focus` says which, so their state spaces add up.     *)
EXTENDS TaskSupervisor, EventLanes, CommandPipeline
CONSTANTS p1, p2, c1, c2, s1
Capacities == [result |-> 1, control |-> 2, data |-> 2]
ByteLimits == [result |-> 2, control |-> 3, data |-> 3]
Bursts     == [result |-> 1, control |-> 2, data |-> 1]

VARIABLE focus
RuntimeInit ==
  /\ Init /\ LaneInit /\ PipelineInit
  /\ focus \in {"tasks", "lanes", "commands"}
RuntimeNext ==
  /\ UNCHANGED focus
  /\ \/ focus = "tasks" /\ Next /\ UNCHANGED <<laneVars, cmdVars>>
     \/ focus = "lanes" /\ LaneNext /\ UNCHANGED <<vars, cmdVars>>
     \/ focus = "commands" /\ PipelineNext /\ UNCHANGED <<vars, laneVars>>
\* No fair action is enabled initially, so the fairness of a component that is
\* not in focus asks for nothing.
RuntimeSpec == /\ RuntimeInit /\ [][RuntimeNext]_<<focus, vars, laneVars, cmdVars>>
               /\ Fairness /\ LaneFairness /\ PipelineFairness

\* Every answer arrives: through the command pipeline, and through the result lane.
AnswersArrive == ResultsArrive /\ AcceptedIsAnswered
=============================================================================
