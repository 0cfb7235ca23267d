------------------------------- MODULE MCPaths -------------------------------
(* One peer from three sides: its supervisor, the session paths of the runtime *)
(* and a path manager under its whole interface.  focus picks which of the     *)
(* three this behaviour runs.                                                  *)
EXTENDS PeerSupervisor, SessionPaths, PathManager
CONSTANTS c1, c2, o1, o2, i1, i2
Carriers == [c \in Candidates |-> IF c = o2 THEN "generic" ELSE IF c = i2 THEN "relay" ELSE "quic"]
MessagePath == {{"message"}}

VARIABLE focus
PathsInit ==
  Init /\ SessionPathsInit /\ PathManagerInit /\ focus \in {"supervisor", "sessions", "manager"}
PathsNext ==
  /\ UNCHANGED focus
  /\ \/ focus = "supervisor" /\ Next /\ UNCHANGED <<spVars, pmVars>>
     \/ focus = "sessions" /\ SessionPathsNext /\ UNCHANGED <<vars, pmVars>>
     \/ focus = "manager" /\ PathManagerNext /\ UNCHANGED <<vars, spVars>>
PathsSpec == PathsInit /\ [][PathsNext]_<<vars, spVars, pmVars, focus>>
==============================================================================
