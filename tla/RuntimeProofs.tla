--------------------------- MODULE RuntimeProofs ----------------------------
(***************************************************************************)
(* Safety proofs about TaskSupervisor, for every number of spawning and    *)
(* cancelling threads, sessions, tasks and groups, every record limit and  *)
(* every interleaving of the lock sections; about EventLanes, for every    *)
(* number of producers and every capacity, byte limit and burst; and about *)
(* CommandPipeline, for every number of callers and stoppers and all       *)
(* sizes of its queues and histories.                                      *)
(***************************************************************************)
EXTENDS TaskSupervisor, EventLanes, CommandPipeline, FiniteSetTheorems, SequenceTheorems, TLAPS

-----------------------------------------------------------------------------
(* Task supervisor: the inductive invariant                                *)

\* What the stage of a caller says about the values it carries.
SpawnerShape ==
  \A p \in Spawners :
    /\ spawner[p].stage = "group" => spawner[p].session \in Sessions
    /\ spawner[p].stage \in {"insert", "push", "revoke"} => spawner[p].task \in Ids
    /\ spawner[p].stage \in {"push", "revoke"} => spawner[p].group \in Groups
CloserShape ==
  \A c \in Closers :
    /\ closer[c].stage \in {"signal", "list"} => closer[c].group \in Groups
    /\ closer[c].group # None =>
         closer[c].op = "cancel_session" /\ closer[c].stage \in {"signal", "list", "join"}
Typed == TypeOK /\ SpawnerShape /\ CloserShape

\* The order of a stop: flag, root token, drain.
StopOrder ==
  /\ \A c \in Closers :
       /\ closer[c].stage = "root" => stopping
       /\ closer[c].stage \in {"groups", "drain"} => stopping /\ root
  /\ drained => stopping

\* Ids are given out once, and a task belongs to the group its spawner joined.
Active(p) == spawner[p].stage \in {"insert", "push", "revoke"}
IdsAreOld ==
  /\ \A t \in tasks : t < nextId
  /\ \A g \in Groups : \A t \in members[g] : t < nextId
  /\ \A p \in Spawners : Active(p) =>
       spawner[p].task < nextId /\ groupOf[spawner[p].task] = spawner[p].group
OneSpawner ==
  /\ \A p, q \in Spawners :
       Active(p) /\ Active(q) /\ spawner[p].task = spawner[q].task => p = q
  /\ \A p \in Spawners : spawner[p].stage = "insert" =>
       \A g \in Groups : spawner[p].task \notin members[g]

\* A child is in the list of its group, or its spawner is about to put it there.
ChildrenListed ==
  \A t \in tasks : groupOf[t] # None =>
    \/ t \in members[groupOf[t]]
    \/ \E p \in Spawners : spawner[p].stage = "push" /\ spawner[p].task = t

\* Tasks whose spawner found the group cancelled and is about to take them back.
Revoking == {t \in Ids : \E p \in Spawners : spawner[p].stage = "revoke" /\ spawner[p].task = t}
GroupsEnd ==
  /\ \A g \in closed : g \in cancelled /\ members[g] \cap tasks \subseteq Revoking
  /\ \A c \in Closers : closer[c].group # None =>
       /\ closer[c].stage # "signal" => closer[c].group \in cancelled
       /\ closer[c].stage = "join" =>
            members[closer[c].group] \cap tasks \subseteq closer[c].ids \cup Revoking

\* A spawner that has started its task but not inserted its record counts as one.
Inserting == {p \in Spawners : spawner[p].stage = "insert"}
RecordsAndInserting ==
  Cardinality(tasks) + Cardinality(Inserting) < MaxSupervised + Cardinality(Spawners)

IInv ==
  Typed /\ StopOrder /\ DrainedIsFinal /\ LiveIsReachable /\ IdsAreOld /\ OneSpawner
  /\ ChildrenListed /\ GroupsEnd /\ RecordsAndInserting

-----------------------------------------------------------------------------
\* Every step keeps the types and the shape of the callers' states.
LEMMA TypedStep ==
  ASSUME Typed, [Next]_vars
  PROVE  Typed'
<1>1. ASSUME NEW p \in Spawners, SpawnRuntime(p) PROVE Typed'
  <2> USE DEF Typed, TypeOK
  <2>1. TypeOK'
    BY <1>1, TaskAssumption DEF SpawnRuntime, Call, flags, records, groups, history, SpawnerShape,
       SpawnerStates, SpawnerAt, Returned, NoSession, Ids, Groups, None
  <2>2. SpawnerShape'
    BY <1>1, TaskAssumption DEF SpawnRuntime, SpawnerShape, SpawnerStates, SpawnerAt, Returned,
         NoSession,
       Ids, Groups, None
  <2>3. CloserShape'
    BY <1>1 DEF SpawnRuntime, CloserShape
  <2> QED
    BY <2>1, <2>2, <2>3
<1>2. ASSUME NEW p \in Spawners, NEW s \in Sessions, SpawnSession(p, s) PROVE Typed'
  <2> USE DEF Typed, TypeOK
  <2>1. TypeOK'
    BY <1>2, TaskAssumption DEF SpawnSession, Call, flags, records, groups, history, SpawnerShape,
       SpawnerStates, SpawnerAt, Returned, NoSession, Ids, Groups, None
  <2>2. SpawnerShape'
    BY <1>2, TaskAssumption DEF SpawnSession, SpawnerShape, SpawnerStates, SpawnerAt, Returned,
         NoSession,
       Ids, Groups, None
  <2>3. CloserShape'
    BY <1>2 DEF SpawnSession, CloserShape
  <2> QED
    BY <2>1, <2>2, <2>3
<1>3. ASSUME NEW p \in Spawners, JoinGroup(p) PROVE Typed'
  <2> USE DEF Typed, TypeOK
  <2>1. TypeOK'
    <3>1. spawner' \in [Spawners -> SpawnerStates]
      BY <1>3, TaskAssumption DEF SpawnerShape, JoinGroup, SpawnerStates, SpawnerAt, Returned, NoSession, None, Groups
    <3>2. current' \in [Sessions -> Groups \cup {None}]
      BY <1>3 DEF JoinGroup
    <3>3. nextGroup' \in 1 .. MaxGroups + 1
      BY <1>3, TaskAssumption DEF JoinGroup, Groups
    <3>4. UNCHANGED <<stopping, root, tasks, token, live, groupOf, nextId, members,
         cancelled, closer, drained, closed, calls>>
      BY <1>3 DEF JoinGroup, flags, records, groups, history
    <3> QED
      BY <3>1, <3>2, <3>3, <3>4
  <2>2. SpawnerShape'
    <3>1. PICK st, s, g : /\ st \in {"idle", "reap"}
                         /\ spawner' = [spawner EXCEPT ![p] = SpawnerAt(st, s, g, None)]
      BY <1>3 DEF JoinGroup, Returned
    <3>2. st \notin {"group", "insert", "push", "revoke"}
      BY <3>1
    <3> QED
      BY <3>1, <3>2 DEF SpawnerShape, SpawnerAt
  <2>3. CloserShape'
    BY <1>3 DEF JoinGroup, CloserShape
  <2> QED
    BY <2>1, <2>2, <2>3
<1>4. ASSUME NEW p \in Spawners, Reap(p) PROVE Typed'
  <2> USE DEF Typed, TypeOK
  <2>1. TypeOK'
    <3>1. spawner' \in [Spawners -> SpawnerStates]
      BY <1>4 DEF Reap, SpawnerStates, SpawnerAt, Returned, NoSession, None
    <3>2. tasks' \subseteq Ids
      BY <1>4 DEF Reap
    <3>3. UNCHANGED <<stopping, root, token, live, groupOf, nextId, nextGroup, current,
         members, cancelled, closer, drained, closed, calls>>
      BY <1>4 DEF Reap, flags, records, groups, history
    <3> QED
      BY <3>1, <3>2, <3>3
  <2>2. SpawnerShape'
    BY <1>4, TaskAssumption DEF Reap, SpawnerShape, SpawnerStates, SpawnerAt, Returned, NoSession,
       Ids, Groups, None
  <2>3. CloserShape'
    BY <1>4 DEF Reap, CloserShape
  <2> QED
    BY <2>1, <2>2, <2>3
<1>5. ASSUME NEW p \in Spawners, Admit(p) PROVE Typed'
  <2> USE DEF Typed, TypeOK
  <2>1. TypeOK'
    <3>1. spawner' \in [Spawners -> SpawnerStates]
      BY <1>5, ZenonT(30) DEF Admit, SpawnerStates
    <3>2. live' \subseteq Ids
      BY <1>5 DEF Admit
    <3>3. groupOf' \in [Ids -> Groups \cup {None}]
      BY <1>5 DEF Admit, SpawnerStates
    <3>4. nextId' \in 1 .. MaxTasks + 1
      BY <1>5, TaskAssumption DEF Admit, Ids
    <3>5. UNCHANGED <<stopping, root, tasks, token, nextGroup, current, members, cancelled,
         closer, drained, closed, calls>>
      BY <1>5 DEF Admit, flags, records, groups, history
    <3> QED
      BY <3>1, <3>2, <3>3, <3>4, <3>5
  <2>2. SpawnerShape'
    BY <1>5, TaskAssumption DEF Admit, SpawnerShape, SpawnerStates, Ids, Groups, None
  <2>3. CloserShape'
    BY <1>5 DEF Admit, CloserShape
  <2> QED
    BY <2>1, <2>2, <2>3
<1>6. ASSUME NEW p \in Spawners, Refuse(p) PROVE Typed'
  <2> USE DEF Typed, TypeOK
  <2>1. TypeOK'
    BY <1>6, TaskAssumption DEF Refuse, flags, records, groups, history, SpawnerShape,
       SpawnerStates, SpawnerAt, Returned, NoSession, Ids, Groups, None
  <2>2. SpawnerShape'
    BY <1>6, TaskAssumption DEF Refuse, SpawnerShape, SpawnerStates, SpawnerAt, Returned,
         NoSession,
       Ids, Groups, None
  <2>3. CloserShape'
    BY <1>6 DEF Refuse, CloserShape
  <2> QED
    BY <2>1, <2>2, <2>3
<1>7. ASSUME NEW p \in Spawners, Insert(p) PROVE Typed'
  <2> USE DEF Typed, TypeOK
  <2>1. TypeOK'
    <3>1. spawner' \in [Spawners -> SpawnerStates]
      BY <1>7 DEF Insert, SpawnerStates, SpawnerAt, Returned, NoSession, None
    <3>2. tasks' \subseteq Ids /\ token' \subseteq Ids
      BY <1>7 DEF Insert, SpawnerShape
    <3>3. UNCHANGED <<stopping, root, live, groupOf, nextId, nextGroup, current, members,
         cancelled, closer, drained, closed, calls>>
      BY <1>7 DEF Insert, flags, records, groups, history
    <3> QED
      BY <3>1, <3>2, <3>3
  <2>2. SpawnerShape'
    BY <1>7, TaskAssumption DEF Insert, SpawnerShape, SpawnerStates, SpawnerAt, Returned,
         NoSession, Ids, Groups, None
  <2>3. CloserShape'
    BY <1>7 DEF Insert, CloserShape
  <2> QED
    BY <2>1, <2>2, <2>3
<1>8. ASSUME NEW p \in Spawners, Push(p) PROVE Typed'
  <2> USE DEF Typed, TypeOK
  <2>1. TypeOK'
    <3>1. spawner' \in [Spawners -> SpawnerStates]
      BY <1>8, ZenonT(30) DEF Push, SpawnerStates, SpawnerAt, Returned, NoSession, None
    <3>2. members' \in [Groups -> SUBSET Ids]
      BY <1>8 DEF Push, SpawnerShape
    <3>3. UNCHANGED <<stopping, root, tasks, token, live, groupOf, nextId, nextGroup,
         current, cancelled, closer, drained, closed, calls>>
      BY <1>8 DEF Push, flags, records, groups, history
    <3> QED
      BY <3>1, <3>2, <3>3
  <2>2. SpawnerShape'
    BY <1>8, TaskAssumption DEF Push, SpawnerShape, SpawnerStates, SpawnerAt, Returned, NoSession,
       Ids, Groups, None
  <2>3. CloserShape'
    BY <1>8 DEF Push, CloserShape
  <2> QED
    BY <2>1, <2>2, <2>3
<1>9. ASSUME NEW p \in Spawners, Revoke(p) PROVE Typed'
  <2> USE DEF Typed, TypeOK
  <2>1. TypeOK'
    BY <1>9, TaskAssumption DEF Revoke, CancelTaskSync, flags, records, groups, history,
         SpawnerShape,
       SpawnerStates, SpawnerAt, Returned, NoSession, Ids, Groups, None
  <2>2. SpawnerShape'
    BY <1>9, TaskAssumption DEF Revoke, SpawnerShape, SpawnerStates, SpawnerAt, Returned,
         NoSession,
       Ids, Groups, None
  <2>3. CloserShape'
    BY <1>9 DEF Revoke, CloserShape
  <2> QED
    BY <2>1, <2>2, <2>3
<1>10. ASSUME NEW c \in Closers, NEW op \in {"cancel_root", "shutdown", "abort_all_now"},
     Stop(c, op) PROVE Typed'
  <2> USE DEF Typed, TypeOK
  <2>1. TypeOK'
    BY <1>10, TaskAssumption DEF Stop, Call, flags, records, groups, history, CloserShape,
       CloserStates, CloserAt, Done, Ids, Groups, None
  <2>2. CloserShape'
    BY <1>10, TaskAssumption DEF Stop, CloserShape, CloserStates, CloserAt, Done, Ids, Groups,
         None
  <2>3. SpawnerShape'
    BY <1>10 DEF Stop, SpawnerShape
  <2> QED
    BY <2>1, <2>2, <2>3
<1>11. ASSUME NEW c \in Closers, NEW s \in Sessions, CancelSession(c, s) PROVE Typed'
  <2> USE DEF Typed, TypeOK
  <2>1. TypeOK'
    BY <1>11, TaskAssumption DEF CancelSession, Call, flags, records, groups, history,
         CloserShape,
       CloserStates, CloserAt, Done, Ids, Groups, None
  <2>2. CloserShape'
    BY <1>11, TaskAssumption DEF CancelSession, CloserShape, CloserStates, CloserAt, Done, Ids,
         Groups, None
  <2>3. SpawnerShape'
    BY <1>11 DEF CancelSession, SpawnerShape
  <2> QED
    BY <2>1, <2>2, <2>3
<1>12. ASSUME NEW c \in Closers, NEW t \in Ids, CancelTask(c, t) PROVE Typed'
  <2> USE DEF Typed, TypeOK
  <2>1. TypeOK'
    BY <1>12, TaskAssumption DEF CancelTask, Call, flags, records, groups, history, CloserShape,
       CloserStates, CloserAt, Done, Ids, Groups, None
  <2>2. CloserShape'
    BY <1>12, TaskAssumption DEF CancelTask, CloserShape, CloserStates, CloserAt, Done, Ids,
         Groups, None
  <2>3. SpawnerShape'
    BY <1>12 DEF CancelTask, SpawnerShape
  <2> QED
    BY <2>1, <2>2, <2>3
<1>13. ASSUME NEW c \in Closers, CancelRoot(c) PROVE Typed'
  <2> USE DEF Typed, TypeOK
  <2>1. TypeOK'
    <3>1. closer' \in [Closers -> CloserStates]
      BY <1>13 DEF CancelRoot, CloserStates, CloserAt, Done, None
    <3>2. root' \in BOOLEAN /\ stopping' \in BOOLEAN
      BY <1>13 DEF CancelRoot
    <3>3. UNCHANGED <<tasks, token, live, groupOf, nextId, nextGroup, current, members,
         cancelled, spawner, drained, closed, calls>>
      BY <1>13 DEF CancelRoot, flags, records, groups, history
    <3> QED
      BY <3>1, <3>2, <3>3
  <2>2. CloserShape'
    BY <1>13, TaskAssumption DEF CancelRoot, CloserShape, CloserStates, CloserAt, Done, Ids,
         Groups, None
  <2>3. SpawnerShape'
    BY <1>13 DEF CancelRoot, SpawnerShape
  <2> QED
    BY <2>1, <2>2, <2>3
<1>14. ASSUME NEW c \in Closers, CancelGroups(c) PROVE Typed'
  <2> USE DEF Typed, TypeOK
  <2>1. TypeOK'
    <3>1. closer' \in [Closers -> CloserStates]
      BY <1>14 DEF CancelGroups, CloserStates, CloserAt, Done, None
    <3>2. cancelled' \subseteq Groups
      BY <1>14 DEF CancelGroups
    <3>3. UNCHANGED <<stopping, root, tasks, token, live, groupOf, nextId, nextGroup, current,
         members, spawner, drained, closed, calls>>
      BY <1>14 DEF CancelGroups, flags, records, groups, history
    <3> QED
      BY <3>1, <3>2, <3>3
  <2>2. CloserShape'
    BY <1>14, TaskAssumption DEF CancelGroups, CloserShape, CloserStates, CloserAt, Done, Ids,
         Groups, None
  <2>3. SpawnerShape'
    BY <1>14 DEF CancelGroups, SpawnerShape
  <2> QED
    BY <2>1, <2>2, <2>3
<1>15. ASSUME NEW c \in Closers, Drain(c) PROVE Typed'
  <2> USE DEF Typed, TypeOK
  <2>1. TypeOK'
    <3>1. closer' \in [Closers -> CloserStates]
      BY <1>15 DEF Drain, CloserStates
    <3>2. tasks' \subseteq Ids /\ token' \subseteq Ids
      BY <1>15 DEF Drain
    <3>3. drained' \in BOOLEAN
      BY <1>15, Zenon DEF Drain
    <3>4. UNCHANGED <<stopping, root, live, groupOf, nextId, nextGroup, current, members,
         cancelled, spawner, closed, calls>>
      BY <1>15 DEF Drain, flags, records, groups, history
    <3> QED
      BY <3>1, <3>2, <3>3, <3>4
  <2>2. CloserShape'
    <3>1. closer[c].stage = "drain" /\ closer[c].group = None
      BY <1>15 DEF Drain, CloserShape
    <3>2. closer'[c].group = None /\ closer'[c].stage \in {"clear", "join"}
      BY <3>1, <1>15 DEF Drain, CloserStates
    <3>3. \A d \in Closers : d # c => closer'[d] = closer[d]
      BY <1>15 DEF Drain
    <3> QED
      BY <3>2, <3>3 DEF CloserShape
  <2>3. SpawnerShape'
    BY <1>15 DEF Drain, SpawnerShape
  <2> QED
    BY <2>1, <2>2, <2>3
<1>16. ASSUME NEW c \in Closers, Clear(c) PROVE Typed'
  <2> USE DEF Typed, TypeOK
  <2>1. TypeOK'
    BY <1>16, TaskAssumption DEF Clear, flags, records, groups, history, CloserShape,
       CloserStates, CloserAt, Done, Ids, Groups, None
  <2>2. CloserShape'
    BY <1>16, TaskAssumption DEF Clear, CloserShape, CloserStates, CloserAt, Done, Ids, Groups,
         None
  <2>3. SpawnerShape'
    BY <1>16 DEF Clear, SpawnerShape
  <2> QED
    BY <2>1, <2>2, <2>3
<1>17. ASSUME NEW c \in Closers, SignalGroup(c) PROVE Typed'
  <2> USE DEF Typed, TypeOK
  <2>1. TypeOK'
    <3>1. closer' \in [Closers -> CloserStates]
      BY <1>17 DEF SignalGroup, CloserStates, CloserAt, Done, None
    <3>2. cancelled' \subseteq Groups
      BY <1>17 DEF SignalGroup, CloserShape
    <3>3. UNCHANGED <<stopping, root, tasks, token, live, groupOf, nextId, nextGroup,
         current, members, spawner, drained, closed, calls>>
      BY <1>17 DEF SignalGroup, flags, records, groups, history
    <3> QED
      BY <3>1, <3>2, <3>3
  <2>2. CloserShape'
    BY <1>17, TaskAssumption DEF SignalGroup, CloserShape, CloserStates, CloserAt, Done, Ids,
         Groups, None
  <2>3. SpawnerShape'
    BY <1>17 DEF SignalGroup, SpawnerShape
  <2> QED
    BY <2>1, <2>2, <2>3
<1>18. ASSUME NEW c \in Closers, ListMembers(c) PROVE Typed'
  <2> USE DEF Typed, TypeOK
  <2>1. TypeOK'
    <3>1. closer' \in [Closers -> CloserStates]
      <4> DEFINE r == [closer[c] EXCEPT !.stage = "join", !.ids = members[closer[c].group]]
      <4>1. members[closer[c].group] \in SUBSET Ids /\ closer[c] \in CloserStates
        BY <1>18 DEF ListMembers, CloserShape
      <4>2. r \in CloserStates
        BY <4>1 DEF CloserStates
      <4>3. closer' = [closer EXCEPT ![c] = r]
        BY <1>18 DEF ListMembers
      <4> QED
        BY <4>2, <4>3
    <3>2. UNCHANGED <<stopping, root, tasks, token, live, groupOf, nextId, nextGroup, current,
         members, cancelled, spawner, drained, closed, calls>>
      BY <1>18 DEF ListMembers, flags, records, groups, history
    <3> QED
      BY <3>1, <3>2
  <2>2. CloserShape'
    BY <1>18, TaskAssumption DEF ListMembers, CloserShape, CloserStates, Ids, Groups, None
  <2>3. SpawnerShape'
    BY <1>18 DEF ListMembers, SpawnerShape
  <2> QED
    BY <2>1, <2>2, <2>3
<1>19. ASSUME NEW c \in Closers, NEW t \in closer[c].ids, JoinNext(c, t) PROVE Typed'
  <2> USE DEF Typed, TypeOK
  <2> t \in Ids
    BY DEF CloserStates
  <2>1. TypeOK'
    <3>1. closer' \in [Closers -> CloserStates]
      <4> DEFINE next == IF closer[c].op = "shutdown" \/ t \in tasks THEN t ELSE None
      <4> DEFINE r == [closer[c] EXCEPT !.ids = @ \ {t}, !.task = next]
      <4>1. closer[c] \in CloserStates /\ next \in Ids \cup {None}
        OBVIOUS
      <4> HIDE DEF next
      <4>2. r \in CloserStates
        BY <4>1 DEF CloserStates
      <4>3. closer' = [closer EXCEPT ![c] = r]
        BY <1>19 DEF JoinNext, next
      <4> QED
        BY <4>2, <4>3
    <3>2. tasks' \subseteq Ids /\ token' \subseteq Ids
      BY <1>19 DEF JoinNext
    <3>3. UNCHANGED <<stopping, root, live, groupOf, nextId, nextGroup, current, members,
         cancelled, spawner, drained, closed, calls>>
      BY <1>19 DEF JoinNext, flags, records, groups, history
    <3> QED
      BY <3>1, <3>2, <3>3
  <2>2. CloserShape'
    BY <1>19, TaskAssumption DEF JoinNext, CloserShape, CloserStates, Ids, Groups, None
  <2>3. SpawnerShape'
    BY <1>19 DEF JoinNext, SpawnerShape
  <2> QED
    BY <2>1, <2>2, <2>3
<1>20. ASSUME NEW c \in Closers, Joined(c) PROVE Typed'
  <2> USE DEF Typed, TypeOK
  <2>1. TypeOK'
    <3>1. closer' \in [Closers -> CloserStates]
      BY <1>20 DEF Joined, CloserStates, CloserAt, Done, None
    <3>2. UNCHANGED <<stopping, root, tasks, token, live, groupOf, nextId, nextGroup,
         current, members, cancelled, spawner, drained, closed, calls>>
      BY <1>20 DEF Joined, flags, records, groups, history
    <3> QED
      BY <3>1, <3>2
  <2>2. CloserShape'
    BY <1>20, TaskAssumption DEF Joined, CloserShape, CloserStates, CloserAt, Done, Ids,
         Groups, None
  <2>3. SpawnerShape'
    BY <1>20 DEF Joined, SpawnerShape
  <2> QED
    BY <2>1, <2>2, <2>3
<1>21. ASSUME NEW c \in Closers, JoinedAll(c) PROVE Typed'
  <2> USE DEF Typed, TypeOK
  <2>1. TypeOK'
    <3>1. closer' \in [Closers -> CloserStates]
      BY <1>21 DEF JoinedAll, CloserStates, CloserAt, Done, None
    <3>2. closed' \subseteq Groups
      BY <1>21 DEF JoinedAll, CloserStates
    <3>3. UNCHANGED <<stopping, root, tasks, token, live, groupOf, nextId, nextGroup, current,
         members, cancelled, spawner, drained, calls>>
      BY <1>21 DEF JoinedAll, flags, records, groups, history
    <3> QED
      BY <3>1, <3>2, <3>3
  <2>2. CloserShape'
    <3>1. closer'[c].group = None /\ closer'[c].stage \in {"clear", "idle"}
      BY <1>21 DEF JoinedAll, CloserShape, CloserStates, CloserAt, Done
    <3>2. \A d \in Closers : d # c => closer'[d] = closer[d]
      BY <1>21 DEF JoinedAll
    <3> QED
      BY <3>1, <3>2 DEF CloserShape
  <2>3. SpawnerShape'
    BY <1>21 DEF JoinedAll, SpawnerShape
  <2> QED
    BY <2>1, <2>2, <2>3
<1>22. ASSUME NEW c \in Closers, CallerDropped(c) PROVE Typed'
  <2> USE DEF Typed, TypeOK
  <2>1. TypeOK'
    BY <1>22, TaskAssumption DEF CallerDropped, flags, records, groups, history, CloserShape,
       CloserStates, CloserAt, Done, Ids, Groups, None
  <2>2. CloserShape'
    BY <1>22, TaskAssumption DEF CallerDropped, CloserShape, CloserStates, CloserAt, Done, Ids,
         Groups, None
  <2>3. SpawnerShape'
    BY <1>22 DEF CallerDropped, SpawnerShape
  <2> QED
    BY <2>1, <2>2, <2>3
<1>23. ASSUME NEW t \in Ids, Finish(t) PROVE Typed'
  BY <1>23 DEF Finish, Typed, TypeOK, SpawnerShape, CloserShape, flags, groups, history
<1>24. ASSUME NEW t \in Ids, DropLease(t) PROVE Typed'
  BY <1>24 DEF DropLease, CancelTaskSync, Typed, TypeOK, SpawnerShape, CloserShape, flags,
       groups, history
<1>25. CASE UNCHANGED vars
  BY <1>25 DEF Typed, TypeOK, SpawnerShape, CloserShape, vars, flags, records, groups, history
<1> QED
  BY <1>1, <1>2, <1>3, <1>4, <1>5, <1>6, <1>7, <1>8, <1>9, <1>10, <1>11, <1>12, <1>13, <1>14,
       <1>15, <1>16, <1>17, <1>18, <1>19, <1>20, <1>21, <1>22, <1>23, <1>24, <1>25
  DEF Next, SpawnStep, CloseStep

\* A stop sets flag, root token and drained map in that order, and nothing is inserted after.
LEMMA StopStep ==
  ASSUME Typed, StopOrder, DrainedIsFinal, [Next]_vars
  PROVE  StopOrder' /\ DrainedIsFinal'
<1>1. ASSUME NEW p \in Spawners, SpawnRuntime(p) PROVE StopOrder' /\ DrainedIsFinal'
  BY <1>1 DEF SpawnRuntime, StopOrder, DrainedIsFinal, flags, records, history
<1>2. ASSUME NEW p \in Spawners, NEW s \in Sessions, SpawnSession(p,
     s) PROVE StopOrder' /\ DrainedIsFinal'
  BY <1>2 DEF SpawnSession, StopOrder, DrainedIsFinal, flags, records, history
<1>3. ASSUME NEW p \in Spawners, JoinGroup(p) PROVE StopOrder' /\ DrainedIsFinal'
  BY <1>3 DEF JoinGroup, StopOrder, DrainedIsFinal, flags, records, history
<1>4. ASSUME NEW p \in Spawners, Reap(p) PROVE StopOrder' /\ DrainedIsFinal'
  BY <1>4 DEF Reap, StopOrder, DrainedIsFinal, flags, records, history
<1>5. ASSUME NEW p \in Spawners, Admit(p) PROVE StopOrder' /\ DrainedIsFinal'
  BY <1>5 DEF Admit, StopOrder, DrainedIsFinal, flags, records, history
<1>6. ASSUME NEW p \in Spawners, Refuse(p) PROVE StopOrder' /\ DrainedIsFinal'
  BY <1>6 DEF Refuse, StopOrder, DrainedIsFinal, flags, records, history
<1>7. ASSUME NEW p \in Spawners, Insert(p) PROVE StopOrder' /\ DrainedIsFinal'
  BY <1>7 DEF Insert, StopOrder, DrainedIsFinal, flags, records, history
<1>8. ASSUME NEW p \in Spawners, Push(p) PROVE StopOrder' /\ DrainedIsFinal'
  BY <1>8 DEF Push, StopOrder, DrainedIsFinal, flags, records, history
<1>9. ASSUME NEW p \in Spawners, Revoke(p) PROVE StopOrder' /\ DrainedIsFinal'
  BY <1>9 DEF Revoke, CancelTaskSync, StopOrder, DrainedIsFinal, flags, records, history
<1>10. ASSUME NEW c \in Closers, NEW op \in {"cancel_root", "shutdown", "abort_all_now"},
     Stop(c, op) PROVE StopOrder' /\ DrainedIsFinal'
  BY <1>10 DEF Stop, Typed, TypeOK, StopOrder, DrainedIsFinal, flags, records, history,
     CloserStates, CloserAt, Done
<1>11. ASSUME NEW c \in Closers, NEW s \in Sessions, CancelSession(c,
     s) PROVE StopOrder' /\ DrainedIsFinal'
  BY <1>11 DEF CancelSession, Typed, TypeOK, StopOrder, DrainedIsFinal, flags, records, history,
     CloserStates, CloserAt, Done
<1>12. ASSUME NEW c \in Closers, NEW t \in Ids, CancelTask(c,
     t) PROVE StopOrder' /\ DrainedIsFinal'
  BY <1>12 DEF CancelTask, Typed, TypeOK, StopOrder, DrainedIsFinal, flags, records, history,
     CloserStates, CloserAt, Done
<1>13. ASSUME NEW c \in Closers, CancelRoot(c) PROVE StopOrder' /\ DrainedIsFinal'
  BY <1>13 DEF CancelRoot, Typed, TypeOK, StopOrder, DrainedIsFinal, flags, records, history,
     CloserStates, CloserAt, Done
<1>14. ASSUME NEW c \in Closers, CancelGroups(c) PROVE StopOrder' /\ DrainedIsFinal'
  BY <1>14 DEF CancelGroups, Typed, TypeOK, StopOrder, DrainedIsFinal, flags, records, history,
     CloserStates, CloserAt, Done
<1>15. ASSUME NEW c \in Closers, Drain(c) PROVE StopOrder' /\ DrainedIsFinal'
  BY <1>15 DEF Drain, Typed, TypeOK, StopOrder, DrainedIsFinal, flags, records, history,
     CloserStates, CloserAt, Done
<1>16. ASSUME NEW c \in Closers, Clear(c) PROVE StopOrder' /\ DrainedIsFinal'
  BY <1>16 DEF Clear, Typed, TypeOK, StopOrder, DrainedIsFinal, flags, records, history,
     CloserStates, CloserAt, Done
<1>17. ASSUME NEW c \in Closers, SignalGroup(c) PROVE StopOrder' /\ DrainedIsFinal'
  BY <1>17 DEF SignalGroup, Typed, TypeOK, StopOrder, DrainedIsFinal, flags, records, history,
     CloserStates, CloserAt, Done
<1>18. ASSUME NEW c \in Closers, ListMembers(c) PROVE StopOrder' /\ DrainedIsFinal'
  BY <1>18 DEF ListMembers, Typed, TypeOK, StopOrder, DrainedIsFinal, flags, records, history,
     CloserStates, CloserAt, Done
<1>19. ASSUME NEW c \in Closers, NEW t \in closer[c].ids, JoinNext(c,
     t) PROVE StopOrder' /\ DrainedIsFinal'
  BY <1>19 DEF JoinNext, Typed, TypeOK, StopOrder, DrainedIsFinal, flags, records, history,
     CloserStates, CloserAt, Done
<1>20. ASSUME NEW c \in Closers, Joined(c) PROVE StopOrder' /\ DrainedIsFinal'
  BY <1>20 DEF Joined, Typed, TypeOK, StopOrder, DrainedIsFinal, flags, records, history,
     CloserStates, CloserAt, Done
<1>21. ASSUME NEW c \in Closers, JoinedAll(c) PROVE StopOrder' /\ DrainedIsFinal'
  BY <1>21 DEF JoinedAll, Typed, TypeOK, StopOrder, DrainedIsFinal, flags, records, history,
     CloserStates, CloserAt, Done
<1>22. ASSUME NEW c \in Closers, CallerDropped(c) PROVE StopOrder' /\ DrainedIsFinal'
  BY <1>22 DEF CallerDropped, Typed, TypeOK, StopOrder, DrainedIsFinal, flags, records, history,
     CloserStates, CloserAt, Done
<1>23. ASSUME NEW t \in Ids, Finish(t) PROVE StopOrder' /\ DrainedIsFinal'
  BY <1>23 DEF Finish, StopOrder, DrainedIsFinal, flags, records, history
<1>24. ASSUME NEW t \in Ids, DropLease(t) PROVE StopOrder' /\ DrainedIsFinal'
  BY <1>24 DEF DropLease, CancelTaskSync, StopOrder, DrainedIsFinal, flags, records, history
<1>25. CASE UNCHANGED vars
  BY <1>25 DEF StopOrder, DrainedIsFinal, vars, flags, records, groups, history
<1> QED
  BY <1>1, <1>2, <1>3, <1>4, <1>5, <1>6, <1>7, <1>8, <1>9, <1>10, <1>11, <1>12, <1>13, <1>14,
       <1>15, <1>16, <1>17, <1>18, <1>19, <1>20, <1>21, <1>22, <1>23, <1>24, <1>25
  DEF Next, SpawnStep, CloseStep

\* No step loses sight of a running future.
LEMMA LiveStep ==
  ASSUME Typed, StopOrder, LiveIsReachable, [Next]_vars
  PROVE  LiveIsReachable'
<1>1. ASSUME NEW p \in Spawners, SpawnRuntime(p) PROVE LiveIsReachable'
  BY <1>1 DEF SpawnRuntime, Typed, TypeOK, LiveIsReachable, Signalled, flags, records, groups,
     SpawnerAt, Returned
<1>2. ASSUME NEW p \in Spawners, NEW s \in Sessions, SpawnSession(p, s) PROVE LiveIsReachable'
  BY <1>2 DEF SpawnSession, Typed, TypeOK, LiveIsReachable, Signalled, flags, records, groups,
     SpawnerAt, Returned
<1>3. ASSUME NEW p \in Spawners, JoinGroup(p) PROVE LiveIsReachable'
  BY <1>3 DEF JoinGroup, Typed, TypeOK, LiveIsReachable, Signalled, flags, records, groups,
     SpawnerAt, Returned
<1>4. ASSUME NEW p \in Spawners, Reap(p) PROVE LiveIsReachable'
  BY <1>4 DEF Reap, Typed, TypeOK, LiveIsReachable, Signalled, flags, records, groups,
     SpawnerAt, Returned
<1>5. ASSUME NEW p \in Spawners, Admit(p) PROVE LiveIsReachable'
  <2> SUFFICES ASSUME NEW t \in live'
               PROVE  \/ t \in tasks
                      \/ \E q \in Spawners : spawner'[q].stage = "insert" /\ spawner'[q].task = t
                      \/ root \/ t \in token \/ groupOf'[t] \in cancelled
    BY <1>5 DEF Admit, LiveIsReachable, Signalled, flags, groups
  <2>1. CASE t = nextId
    BY <2>1, <1>5 DEF Admit, Typed, TypeOK, SpawnerStates
  <2>2. CASE t # nextId
    <3>1. t \in live /\ groupOf'[t] = groupOf[t]
      BY <2>2, <1>5 DEF Admit, Typed, TypeOK
    <3>2. \A q \in Spawners : spawner[q].stage = "insert" => spawner'[q] = spawner[q]
      BY <1>5 DEF Admit, Typed, TypeOK
    <3> QED
      BY <3>1, <3>2 DEF LiveIsReachable, Signalled
  <2> QED
    BY <2>1, <2>2
<1>6. ASSUME NEW p \in Spawners, Refuse(p) PROVE LiveIsReachable'
  BY <1>6 DEF Refuse, Typed, TypeOK, LiveIsReachable, Signalled, flags, records, groups,
     SpawnerAt, Returned
<1>7. ASSUME NEW p \in Spawners, Insert(p) PROVE LiveIsReachable'
  <2> SUFFICES ASSUME NEW t \in live
               PROVE  \/ t \in tasks' \cup token'
                      \/ \E q \in Spawners : spawner'[q].stage = "insert" /\ spawner'[q].task = t
                      \/ root \/ groupOf[t] \in cancelled
    BY <1>7 DEF Insert, LiveIsReachable, Signalled, flags, groups
  <2>1. spawner[p].task \in tasks' \cup token' /\ tasks \cup token \subseteq tasks' \cup token'
    BY <1>7 DEF Insert
  <2>2. \A q \in Spawners : q # p => spawner'[q] = spawner[q]
    BY <1>7 DEF Insert, Typed, TypeOK
  <2> QED
    BY <2>1, <2>2 DEF LiveIsReachable, Signalled
<1>8. ASSUME NEW p \in Spawners, Push(p) PROVE LiveIsReachable'
  BY <1>8 DEF Push, Typed, TypeOK, LiveIsReachable, Signalled, flags, records, groups,
     SpawnerAt, Returned
<1>9. ASSUME NEW p \in Spawners, Revoke(p) PROVE LiveIsReachable'
  BY <1>9 DEF Revoke, CancelTaskSync, Typed, TypeOK, LiveIsReachable, Signalled, flags,
       records, groups,
     SpawnerAt, Returned
<1>10. ASSUME NEW c \in Closers, NEW op \in {"cancel_root", "shutdown", "abort_all_now"},
     Stop(c, op) PROVE LiveIsReachable'
  BY <1>10 DEF Stop, LiveIsReachable, Signalled, flags, records, groups
<1>11. ASSUME NEW c \in Closers, NEW s \in Sessions, CancelSession(c, s) PROVE LiveIsReachable'
  BY <1>11 DEF CancelSession, LiveIsReachable, Signalled, flags, records, groups
<1>12. ASSUME NEW c \in Closers, NEW t \in Ids, CancelTask(c, t) PROVE LiveIsReachable'
  BY <1>12 DEF CancelTask, LiveIsReachable, Signalled, flags, records, groups
<1>13. ASSUME NEW c \in Closers, CancelRoot(c) PROVE LiveIsReachable'
  BY <1>13 DEF CancelRoot, LiveIsReachable, Signalled, flags, records, groups
<1>14. ASSUME NEW c \in Closers, CancelGroups(c) PROVE LiveIsReachable'
  BY <1>14 DEF CancelGroups, LiveIsReachable, Signalled, flags, records, groups
<1>15. ASSUME NEW c \in Closers, Drain(c) PROVE LiveIsReachable'
  <2>1. root /\ root' = root
    BY <1>15 DEF Drain, StopOrder, flags
  <2> QED
    BY <2>1 DEF LiveIsReachable, Signalled
<1>16. ASSUME NEW c \in Closers, Clear(c) PROVE LiveIsReachable'
  BY <1>16 DEF Clear, LiveIsReachable, Signalled, flags, records, groups
<1>17. ASSUME NEW c \in Closers, SignalGroup(c) PROVE LiveIsReachable'
  BY <1>17 DEF SignalGroup, LiveIsReachable, Signalled, flags, records, groups
<1>18. ASSUME NEW c \in Closers, ListMembers(c) PROVE LiveIsReachable'
  BY <1>18 DEF ListMembers, LiveIsReachable, Signalled, flags, records, groups
<1>19. ASSUME NEW c \in Closers, NEW t \in closer[c].ids, JoinNext(c, t) PROVE LiveIsReachable'
  BY <1>19 DEF JoinNext, LiveIsReachable, Signalled, flags, records, groups
<1>20. ASSUME NEW c \in Closers, Joined(c) PROVE LiveIsReachable'
  BY <1>20 DEF Joined, LiveIsReachable, Signalled, flags, records, groups
<1>21. ASSUME NEW c \in Closers, JoinedAll(c) PROVE LiveIsReachable'
  BY <1>21 DEF JoinedAll, LiveIsReachable, Signalled, flags, records, groups
<1>22. ASSUME NEW c \in Closers, CallerDropped(c) PROVE LiveIsReachable'
  BY <1>22 DEF CallerDropped, LiveIsReachable, Signalled, flags, records, groups
<1>23. ASSUME NEW t \in Ids, Finish(t) PROVE LiveIsReachable'
  BY <1>23 DEF Finish, LiveIsReachable, Signalled, flags, records, groups
<1>24. ASSUME NEW t \in Ids, DropLease(t) PROVE LiveIsReachable'
  BY <1>24 DEF DropLease, CancelTaskSync, LiveIsReachable, Signalled, flags, records, groups
<1>25. CASE UNCHANGED vars
  BY <1>25 DEF LiveIsReachable, Signalled, vars, flags, records, groups
<1> QED
  BY <1>1, <1>2, <1>3, <1>4, <1>5, <1>6, <1>7, <1>8, <1>9, <1>10, <1>11, <1>12, <1>13, <1>14,
       <1>15, <1>16, <1>17, <1>18, <1>19, <1>20, <1>21, <1>22, <1>23, <1>24, <1>25
  DEF Next, SpawnStep, CloseStep

\* Task ids stay unique to one spawner, older than the counter and in no list
\* before they are inserted.
LEMMA IdsStep ==
  ASSUME Typed, IdsAreOld, OneSpawner, [Next]_vars
  PROVE  IdsAreOld' /\ OneSpawner'
<1>1. ASSUME NEW p \in Spawners, SpawnRuntime(p) PROVE IdsAreOld' /\ OneSpawner'
  BY <1>1 DEF SpawnRuntime, Typed, TypeOK, IdsAreOld, OneSpawner, Active, records, groups,
     SpawnerAt, Returned
<1>2. ASSUME NEW p \in Spawners, NEW s \in Sessions, SpawnSession(p,
     s) PROVE IdsAreOld' /\ OneSpawner'
  BY <1>2 DEF SpawnSession, Typed, TypeOK, IdsAreOld, OneSpawner, Active, records, groups,
     SpawnerAt, Returned
<1>3. ASSUME NEW p \in Spawners, JoinGroup(p) PROVE IdsAreOld' /\ OneSpawner'
  BY <1>3 DEF JoinGroup, Typed, TypeOK, IdsAreOld, OneSpawner, Active, records, groups,
     SpawnerAt, Returned
<1>4. ASSUME NEW p \in Spawners, Reap(p) PROVE IdsAreOld' /\ OneSpawner'
  BY <1>4 DEF Reap, Typed, TypeOK, IdsAreOld, OneSpawner, Active, records, groups,
     SpawnerAt, Returned
<1>5. ASSUME NEW p \in Spawners, Admit(p) PROVE IdsAreOld' /\ OneSpawner'
  <2>1. /\ nextId \in Nat /\ nextId' = nextId + 1
        /\ spawner'[p] = [spawner[p] EXCEPT !.stage = "insert", !.task = nextId]
        /\ \A q \in Spawners : q # p => spawner'[q] = spawner[q]
        /\ groupOf' = [groupOf EXCEPT ![nextId] = spawner[p].group]
        /\ UNCHANGED <<tasks, members>>
    BY <1>5 DEF Admit, Typed, TypeOK, groups
  <2>2. /\ spawner'[p].stage = "insert" /\ spawner'[p].task = nextId
        /\ spawner'[p].group = spawner[p].group /\ groupOf'[nextId] = spawner[p].group
    BY <2>1, <1>5 DEF Admit, Typed, TypeOK, SpawnerStates
  <2>3. \A t \in Ids : t < nextId => t # nextId /\ t < nextId' /\ groupOf'[t] = groupOf[t]
    BY <2>1 DEF Typed, TypeOK, Ids
  <2>4. IdsAreOld'
    <3>1. (\A t \in tasks : t < nextId') /\ (\A g \in Groups : \A t \in members[g] : t < nextId')
      BY <2>1, <2>3 DEF IdsAreOld, Typed, TypeOK
    <3>2. ASSUME NEW q \in Spawners, Active(q)'
          PROVE  spawner'[q].task < nextId' /\ groupOf'[spawner'[q].task] = spawner'[q].group
      <4>1. CASE q = p
        BY <4>1, <2>1, <2>2
      <4>2. CASE q # p
        <5>1. spawner'[q] = spawner[q] /\ spawner[q].task \in Ids /\ spawner[q].task < nextId
              /\ groupOf[spawner[q].task] = spawner[q].group
          BY <4>2, <2>1, <3>2 DEF IdsAreOld, Active, Typed, SpawnerShape
        <5> QED
          BY <5>1, <2>3
      <4> QED
        BY <4>1, <4>2
    <3> QED
      BY <2>1, <3>1, <3>2 DEF IdsAreOld
  <2>5. OneSpawner'
    <3>1. \A q \in Spawners : q # p /\ Active(q)' => spawner'[q].task < nextId
      BY <2>1 DEF IdsAreOld, Active
    <3>2. \A q \in Spawners : q # p /\ Active(q)' => spawner'[q].task # nextId
      BY <3>1, <2>1 DEF Active, Typed, SpawnerShape, Ids
    <3>3. \A g \in Groups : nextId \notin members'[g]
      BY <2>1 DEF IdsAreOld, Typed, TypeOK, Ids
    <3>4. ASSUME NEW q \in Spawners, NEW r \in Spawners, Active(q)', Active(r)',
                 spawner'[q].task = spawner'[r].task
          PROVE  q = r
      <4>1. CASE q = p \/ r = p
        BY <4>1, <3>2, <3>4, <2>2
      <4>2. CASE q # p /\ r # p
        BY <4>2, <2>1, <3>4 DEF OneSpawner, Active
      <4> QED
        BY <4>1, <4>2
    <3>5. ASSUME NEW q \in Spawners, spawner'[q].stage = "insert", NEW g \in Groups
          PROVE  spawner'[q].task \notin members'[g]
      BY <3>5, <2>1, <2>2, <3>3 DEF OneSpawner
    <3> QED
      BY <3>4, <3>5 DEF OneSpawner, Active
  <2> QED
    BY <2>4, <2>5
<1>6. ASSUME NEW p \in Spawners, Refuse(p) PROVE IdsAreOld' /\ OneSpawner'
  BY <1>6 DEF Refuse, Typed, TypeOK, IdsAreOld, OneSpawner, Active, records, groups,
     SpawnerAt, Returned
<1>7. ASSUME NEW p \in Spawners, Insert(p) PROVE IdsAreOld' /\ OneSpawner'
  <2>1. /\ spawner'[p].task \in {spawner[p].task, None} /\ spawner'[p].stage \in {"push", "idle"}
        /\ spawner'[p].stage = "push" =>
             spawner'[p].task = spawner[p].task /\ spawner'[p].group = spawner[p].group
        /\ \A q \in Spawners : q # p => spawner'[q] = spawner[q]
        /\ spawner[p].stage = "insert" /\ tasks' \subseteq tasks \cup {spawner[p].task}
        /\ UNCHANGED <<members, nextId, groupOf>>
    BY <1>7 DEF Insert, Typed, TypeOK, SpawnerStates, SpawnerAt, Returned, groups
  <2> QED
    BY <2>1 DEF IdsAreOld, OneSpawner, Active
<1>8. ASSUME NEW p \in Spawners, Push(p) PROVE IdsAreOld' /\ OneSpawner'
  <2>1. /\ spawner[p].stage = "push" /\ spawner'[p].stage \in {"revoke", "idle"}
        /\ spawner'[p].stage = "revoke" =>
             spawner'[p].task = spawner[p].task /\ spawner'[p].group = spawner[p].group
        /\ \A q \in Spawners : q # p => spawner'[q] = spawner[q]
        /\ \A g \in Groups : members'[g] \subseteq members[g] \cup {spawner[p].task}
        /\ UNCHANGED <<tasks, nextId, groupOf>>
    BY <1>8 DEF Push, Typed, TypeOK, SpawnerStates, SpawnerAt, Returned, records
  <2> QED
    BY <2>1 DEF IdsAreOld, OneSpawner, Active
<1>9. ASSUME NEW p \in Spawners, Revoke(p) PROVE IdsAreOld' /\ OneSpawner'
  BY <1>9 DEF Revoke, CancelTaskSync, Typed, TypeOK, IdsAreOld, OneSpawner, Active, records,
       groups,
     SpawnerAt, Returned
<1>10. ASSUME NEW c \in Closers, NEW op \in {"cancel_root", "shutdown", "abort_all_now"},
     Stop(c, op) PROVE IdsAreOld' /\ OneSpawner'
  BY <1>10 DEF Stop, IdsAreOld, OneSpawner, Active, records, groups
<1>11. ASSUME NEW c \in Closers, NEW s \in Sessions, CancelSession(c,
     s) PROVE IdsAreOld' /\ OneSpawner'
  BY <1>11 DEF CancelSession, IdsAreOld, OneSpawner, Active, records, groups
<1>12. ASSUME NEW c \in Closers, NEW t \in Ids, CancelTask(c, t) PROVE IdsAreOld' /\ OneSpawner'
  BY <1>12 DEF CancelTask, IdsAreOld, OneSpawner, Active, records, groups
<1>13. ASSUME NEW c \in Closers, CancelRoot(c) PROVE IdsAreOld' /\ OneSpawner'
  BY <1>13 DEF CancelRoot, IdsAreOld, OneSpawner, Active, records, groups
<1>14. ASSUME NEW c \in Closers, CancelGroups(c) PROVE IdsAreOld' /\ OneSpawner'
  BY <1>14 DEF CancelGroups, IdsAreOld, OneSpawner, Active, records, groups
<1>15. ASSUME NEW c \in Closers, Drain(c) PROVE IdsAreOld' /\ OneSpawner'
  BY <1>15 DEF Drain, IdsAreOld, OneSpawner, Active, records, groups
<1>16. ASSUME NEW c \in Closers, Clear(c) PROVE IdsAreOld' /\ OneSpawner'
  BY <1>16 DEF Clear, IdsAreOld, OneSpawner, Active, records, groups
<1>17. ASSUME NEW c \in Closers, SignalGroup(c) PROVE IdsAreOld' /\ OneSpawner'
  BY <1>17 DEF SignalGroup, IdsAreOld, OneSpawner, Active, records, groups
<1>18. ASSUME NEW c \in Closers, ListMembers(c) PROVE IdsAreOld' /\ OneSpawner'
  BY <1>18 DEF ListMembers, IdsAreOld, OneSpawner, Active, records, groups
<1>19. ASSUME NEW c \in Closers, NEW t \in closer[c].ids, JoinNext(c,
     t) PROVE IdsAreOld' /\ OneSpawner'
  BY <1>19 DEF JoinNext, IdsAreOld, OneSpawner, Active, records, groups
<1>20. ASSUME NEW c \in Closers, Joined(c) PROVE IdsAreOld' /\ OneSpawner'
  BY <1>20 DEF Joined, IdsAreOld, OneSpawner, Active, records, groups
<1>21. ASSUME NEW c \in Closers, JoinedAll(c) PROVE IdsAreOld' /\ OneSpawner'
  BY <1>21 DEF JoinedAll, IdsAreOld, OneSpawner, Active, records, groups
<1>22. ASSUME NEW c \in Closers, CallerDropped(c) PROVE IdsAreOld' /\ OneSpawner'
  BY <1>22 DEF CallerDropped, IdsAreOld, OneSpawner, Active, records, groups
<1>23. ASSUME NEW t \in Ids, Finish(t) PROVE IdsAreOld' /\ OneSpawner'
  BY <1>23 DEF Finish, IdsAreOld, OneSpawner, Active, records, groups
<1>24. ASSUME NEW t \in Ids, DropLease(t) PROVE IdsAreOld' /\ OneSpawner'
  BY <1>24 DEF DropLease, CancelTaskSync, IdsAreOld, OneSpawner, Active, records, groups
<1>25. CASE UNCHANGED vars
  BY <1>25 DEF IdsAreOld, OneSpawner, Active, vars, records, groups
<1> QED
  BY <1>1, <1>2, <1>3, <1>4, <1>5, <1>6, <1>7, <1>8, <1>9, <1>10, <1>11, <1>12, <1>13, <1>14,
       <1>15, <1>16, <1>17, <1>18, <1>19, <1>20, <1>21, <1>22, <1>23, <1>24, <1>25
  DEF Next, SpawnStep, CloseStep

\* A recorded child is in its group's list or about to be put there.
LEMMA ListedStep ==
  ASSUME Typed, IdsAreOld, ChildrenListed, [Next]_vars
  PROVE  ChildrenListed'
<1>1. ASSUME NEW p \in Spawners, SpawnRuntime(p) PROVE ChildrenListed'
  BY <1>1 DEF SpawnRuntime, Typed, TypeOK, ChildrenListed, records, groups, SpawnerAt, Returned
<1>2. ASSUME NEW p \in Spawners, NEW s \in Sessions, SpawnSession(p, s) PROVE ChildrenListed'
  BY <1>2 DEF SpawnSession, Typed, TypeOK, ChildrenListed, records, groups, SpawnerAt, Returned
<1>3. ASSUME NEW p \in Spawners, JoinGroup(p) PROVE ChildrenListed'
  BY <1>3 DEF JoinGroup, Typed, TypeOK, ChildrenListed, records, groups, SpawnerAt, Returned
<1>4. ASSUME NEW p \in Spawners, Reap(p) PROVE ChildrenListed'
  BY <1>4 DEF Reap, Typed, TypeOK, ChildrenListed, records, groups, SpawnerAt, Returned
<1>5. ASSUME NEW p \in Spawners, Admit(p) PROVE ChildrenListed'
  <2>1. \A t \in tasks : groupOf'[t] = groupOf[t]
    BY <1>5 DEF Admit, Typed, TypeOK, IdsAreOld, Ids
  <2>2. \A q \in Spawners : spawner[q].stage = "push" => spawner'[q] = spawner[q]
    BY <1>5 DEF Admit, Typed, TypeOK
  <2>3. UNCHANGED <<tasks, members>>
    BY <1>5 DEF Admit, groups
  <2> QED
    BY <2>1, <2>2, <2>3 DEF ChildrenListed
<1>6. ASSUME NEW p \in Spawners, Refuse(p) PROVE ChildrenListed'
  BY <1>6 DEF Refuse, Typed, TypeOK, ChildrenListed, records, groups, SpawnerAt, Returned
<1>7. ASSUME NEW p \in Spawners, Insert(p) PROVE ChildrenListed'
  <2>1. \A q \in Spawners : spawner[q].stage = "push" => spawner'[q] = spawner[q]
    BY <1>7 DEF Insert, Typed, TypeOK
  <2>2. groupOf[spawner[p].task] = spawner[p].group
    BY <1>7 DEF Insert, IdsAreOld, Active
  <2>3. \/ tasks' = tasks
        \/ /\ tasks' = tasks \cup {spawner[p].task}
           /\ spawner[p].group = None \/ spawner'[p] = [spawner[p] EXCEPT !.stage = "push"]
    BY <1>7 DEF Insert, Typed, TypeOK
  <2>4. spawner'[p] = [spawner[p] EXCEPT !.stage = "push"] =>
          spawner'[p].stage = "push" /\ spawner'[p].task = spawner[p].task
    BY DEF Typed, TypeOK, SpawnerStates
  <2>5. UNCHANGED <<groupOf, members>>
    BY <1>7 DEF Insert, groups
  <2> QED
    BY <2>1, <2>2, <2>3, <2>4, <2>5 DEF ChildrenListed
<1>8. ASSUME NEW p \in Spawners, Push(p) PROVE ChildrenListed'
  <2>1. \A q \in Spawners : q # p => spawner'[q] = spawner[q]
    BY <1>8 DEF Push, Typed, TypeOK
  <2>2. groupOf[spawner[p].task] = spawner[p].group /\ spawner[p].group \in Groups
    BY <1>8 DEF Push, IdsAreOld, Active, Typed, SpawnerShape
  <2>3. /\ spawner[p].task \in members'[spawner[p].group]
        /\ \A g \in Groups : members[g] \subseteq members'[g]
    BY <1>8, <2>2 DEF Push, Typed, TypeOK
  <2>4. UNCHANGED <<tasks, groupOf>>
    BY <1>8 DEF Push, records
  <2>5. \A t \in tasks : groupOf[t] # None => groupOf[t] \in Groups
    BY DEF Typed, TypeOK
  <2> QED
    BY <2>1, <2>2, <2>3, <2>4, <2>5 DEF ChildrenListed
<1>9. ASSUME NEW p \in Spawners, Revoke(p) PROVE ChildrenListed'
  BY <1>9 DEF Revoke, CancelTaskSync, Typed, TypeOK, ChildrenListed, records, groups,
       SpawnerAt, Returned
<1>10. ASSUME NEW c \in Closers, NEW op \in {"cancel_root", "shutdown", "abort_all_now"},
     Stop(c, op) PROVE ChildrenListed'
  BY <1>10 DEF Stop, ChildrenListed, records, groups
<1>11. ASSUME NEW c \in Closers, NEW s \in Sessions, CancelSession(c, s) PROVE ChildrenListed'
  BY <1>11 DEF CancelSession, ChildrenListed, records, groups
<1>12. ASSUME NEW c \in Closers, NEW t \in Ids, CancelTask(c, t) PROVE ChildrenListed'
  BY <1>12 DEF CancelTask, ChildrenListed, records, groups
<1>13. ASSUME NEW c \in Closers, CancelRoot(c) PROVE ChildrenListed'
  BY <1>13 DEF CancelRoot, ChildrenListed, records, groups
<1>14. ASSUME NEW c \in Closers, CancelGroups(c) PROVE ChildrenListed'
  BY <1>14 DEF CancelGroups, ChildrenListed, records, groups
<1>15. ASSUME NEW c \in Closers, Drain(c) PROVE ChildrenListed'
  BY <1>15 DEF Drain, ChildrenListed, records, groups
<1>16. ASSUME NEW c \in Closers, Clear(c) PROVE ChildrenListed'
  BY <1>16 DEF Clear, ChildrenListed, records, groups
<1>17. ASSUME NEW c \in Closers, SignalGroup(c) PROVE ChildrenListed'
  BY <1>17 DEF SignalGroup, ChildrenListed, records, groups
<1>18. ASSUME NEW c \in Closers, ListMembers(c) PROVE ChildrenListed'
  BY <1>18 DEF ListMembers, ChildrenListed, records, groups
<1>19. ASSUME NEW c \in Closers, NEW t \in closer[c].ids, JoinNext(c, t) PROVE ChildrenListed'
  BY <1>19 DEF JoinNext, ChildrenListed, records, groups
<1>20. ASSUME NEW c \in Closers, Joined(c) PROVE ChildrenListed'
  BY <1>20 DEF Joined, ChildrenListed, records, groups
<1>21. ASSUME NEW c \in Closers, JoinedAll(c) PROVE ChildrenListed'
  BY <1>21 DEF JoinedAll, ChildrenListed, records, groups
<1>22. ASSUME NEW c \in Closers, CallerDropped(c) PROVE ChildrenListed'
  BY <1>22 DEF CallerDropped, ChildrenListed, records, groups
<1>23. ASSUME NEW t \in Ids, Finish(t) PROVE ChildrenListed'
  BY <1>23 DEF Finish, ChildrenListed, records, groups
<1>24. ASSUME NEW t \in Ids, DropLease(t) PROVE ChildrenListed'
  BY <1>24 DEF DropLease, CancelTaskSync, ChildrenListed, records, groups
<1>25. CASE UNCHANGED vars
  BY <1>25 DEF ChildrenListed, vars, records, groups
<1> QED
  BY <1>1, <1>2, <1>3, <1>4, <1>5, <1>6, <1>7, <1>8, <1>9, <1>10, <1>11, <1>12, <1>13, <1>14,
       <1>15, <1>16, <1>17, <1>18, <1>19, <1>20, <1>21, <1>22, <1>23, <1>24, <1>25
  DEF Next, SpawnStep, CloseStep

\* What a cancel_session call still has to join covers the group's recorded children.
LEMMA GroupsStep ==
  ASSUME Typed, OneSpawner, GroupsEnd, [Next]_vars
  PROVE  GroupsEnd'
<1>1. ASSUME NEW p \in Spawners, SpawnRuntime(p) PROVE GroupsEnd'
  <2>1. Revoking \subseteq Revoking'
    BY <1>1 DEF SpawnRuntime, Typed, TypeOK, Revoking, SpawnerAt, Returned
  <2>2. tasks' \subseteq tasks /\ UNCHANGED <<closed, members, cancelled, closer>>
    BY <1>1 DEF SpawnRuntime, records, groups, history
  <2> QED
    BY <2>1, <2>2 DEF GroupsEnd
<1>2. ASSUME NEW p \in Spawners, NEW s \in Sessions, SpawnSession(p, s) PROVE GroupsEnd'
  <2>1. Revoking \subseteq Revoking'
    BY <1>2 DEF SpawnSession, Typed, TypeOK, Revoking, SpawnerAt, Returned
  <2>2. tasks' \subseteq tasks /\ UNCHANGED <<closed, members, cancelled, closer>>
    BY <1>2 DEF SpawnSession, records, groups, history
  <2> QED
    BY <2>1, <2>2 DEF GroupsEnd
<1>3. ASSUME NEW p \in Spawners, JoinGroup(p) PROVE GroupsEnd'
  <2>1. Revoking \subseteq Revoking'
    BY <1>3 DEF JoinGroup, Typed, TypeOK, Revoking, SpawnerAt, Returned
  <2>2. tasks' \subseteq tasks /\ UNCHANGED <<closed, members, cancelled, closer>>
    BY <1>3 DEF JoinGroup, records, groups, history
  <2> QED
    BY <2>1, <2>2 DEF GroupsEnd
<1>4. ASSUME NEW p \in Spawners, Reap(p) PROVE GroupsEnd'
  <2>1. Revoking \subseteq Revoking'
    BY <1>4 DEF Reap, Typed, TypeOK, Revoking, SpawnerAt, Returned
  <2>2. tasks' \subseteq tasks /\ UNCHANGED <<closed, members, cancelled, closer>>
    BY <1>4 DEF Reap, records, groups, history
  <2> QED
    BY <2>1, <2>2 DEF GroupsEnd
<1>5. ASSUME NEW p \in Spawners, Admit(p) PROVE GroupsEnd'
  <2>1. Revoking \subseteq Revoking'
    BY <1>5 DEF Admit, Typed, TypeOK, Revoking, SpawnerAt, Returned
  <2>2. tasks' \subseteq tasks /\ UNCHANGED <<closed, members, cancelled, closer>>
    BY <1>5 DEF Admit, records, groups, history
  <2> QED
    BY <2>1, <2>2 DEF GroupsEnd
<1>6. ASSUME NEW p \in Spawners, Refuse(p) PROVE GroupsEnd'
  <2>1. Revoking \subseteq Revoking'
    BY <1>6 DEF Refuse, Typed, TypeOK, Revoking, SpawnerAt, Returned
  <2>2. tasks' \subseteq tasks /\ UNCHANGED <<closed, members, cancelled, closer>>
    BY <1>6 DEF Refuse, records, groups, history
  <2> QED
    BY <2>1, <2>2 DEF GroupsEnd
<1>7. ASSUME NEW p \in Spawners, Insert(p) PROVE GroupsEnd'
  <2>1. Revoking \subseteq Revoking'
    BY <1>7 DEF Insert, Typed, TypeOK, Revoking
  <2>2. tasks' \subseteq tasks \cup {spawner[p].task} /\ UNCHANGED <<closed, members,
       cancelled, closer>>
    BY <1>7 DEF Insert, groups, history
  <2>3. \A g \in Groups : spawner[p].task \notin members[g]
    BY <1>7 DEF Insert, OneSpawner
  <2>4. /\ closed \subseteq Groups
        /\ \A c \in Closers : closer[c].group # None => closer[c].group \in Groups
    BY DEF Typed, TypeOK, CloserStates
  <2> QED
    BY <2>1, <2>2, <2>3, <2>4 DEF GroupsEnd
<1>8. ASSUME NEW p \in Spawners, Push(p) PROVE GroupsEnd'
  <2>1. Revoking \subseteq Revoking'
    BY <1>8 DEF Push, Typed, TypeOK, Revoking
  <2>2. spawner[p].group \in cancelled => spawner[p].task \in Revoking'
    BY <1>8 DEF Push, Typed, TypeOK, SpawnerShape, SpawnerStates, Revoking
  <2>3. \A g \in Groups : members'[g] \subseteq
          IF g = spawner[p].group THEN members[g] \cup {spawner[p].task} ELSE members[g]
    BY <1>8 DEF Push, Typed, TypeOK
  <2>4. UNCHANGED <<tasks, closed, cancelled, closer>>
    BY <1>8 DEF Push, records, history
  <2>5. /\ closed \subseteq Groups
        /\ \A c \in Closers : closer[c].group # None => closer[c].group \in Groups
    BY DEF Typed, TypeOK, CloserStates
  <2>6. ASSUME NEW g \in Groups,
       g \in cancelled PROVE members'[g] \subseteq members[g] \cup Revoking'
    BY <2>6, <2>2, <2>3
  <2>7. ASSUME NEW g \in closed
        PROVE  g \in cancelled' /\ members'[g] \cap tasks' \subseteq Revoking'
    BY <2>1, <2>4, <2>5, <2>6 DEF GroupsEnd
  <2>8. ASSUME NEW c \in Closers, closer[c].group # None, closer[c].stage = "join"
        PROVE  members'[closer[c].group] \cap tasks \subseteq closer[c].ids \cup Revoking'
    BY <2>1, <2>5, <2>6, <2>8 DEF GroupsEnd
  <2> QED
    BY <2>4, <2>7, <2>8 DEF GroupsEnd
<1>9. ASSUME NEW p \in Spawners, Revoke(p) PROVE GroupsEnd'
  <2>1. Revoking \subseteq Revoking' \cup {spawner[p].task}
    BY <1>9 DEF Revoke, Typed, TypeOK, Revoking
  <2>2. tasks' = tasks \ {spawner[p].task} /\ UNCHANGED <<closed, members, cancelled, closer>>
    BY <1>9 DEF Revoke, CancelTaskSync, groups, history
  <2> QED
    BY <2>1, <2>2 DEF GroupsEnd
<1>10. ASSUME NEW c \in Closers, NEW op \in {"cancel_root", "shutdown", "abort_all_now"},
     Stop(c, op) PROVE GroupsEnd'
  <2>1. closer'[c].group = None
    BY <1>10 DEF Stop, Typed, TypeOK, CloserShape, CloserStates, CloserAt, Done
  <2>2. \A d \in Closers : d # c => closer'[d] = closer[d]
    BY <1>10 DEF Stop, Typed, TypeOK
  <2>3. tasks' \subseteq tasks /\ cancelled \subseteq cancelled' /\ UNCHANGED <<closed,
       members, spawner>>
    BY <1>10 DEF Stop, records, groups, history
  <2> QED
    BY <2>1, <2>2, <2>3 DEF GroupsEnd, Revoking
<1>11. ASSUME NEW c \in Closers, NEW s \in Sessions, CancelSession(c, s) PROVE GroupsEnd'
  <2>1. \A d \in Closers : d # c => closer'[d] = closer[d]
    BY <1>11 DEF CancelSession, Typed, TypeOK
  <2>2. tasks' \subseteq tasks /\ cancelled \subseteq cancelled' /\ UNCHANGED <<closed,
       members, spawner>>
    BY <1>11 DEF CancelSession, records, groups, history
  <2>3. Revoking' = Revoking
    BY <2>2 DEF Revoking
  <2>4. closer'[c].stage = "signal"
    BY <1>11 DEF CancelSession, Typed, TypeOK, CloserShape, CloserStates, CloserAt, Done
  <2> QED
    BY <2>1, <2>2, <2>3, <2>4 DEF GroupsEnd
<1>12. ASSUME NEW c \in Closers, NEW t \in Ids, CancelTask(c, t) PROVE GroupsEnd'
  <2>1. closer'[c].group = None
    BY <1>12 DEF CancelTask, Typed, TypeOK, CloserShape, CloserStates, CloserAt, Done
  <2>2. \A d \in Closers : d # c => closer'[d] = closer[d]
    BY <1>12 DEF CancelTask, Typed, TypeOK
  <2>3. tasks' \subseteq tasks /\ cancelled \subseteq cancelled' /\ UNCHANGED <<closed,
       members, spawner>>
    BY <1>12 DEF CancelTask, records, groups, history
  <2> QED
    BY <2>1, <2>2, <2>3 DEF GroupsEnd, Revoking
<1>13. ASSUME NEW c \in Closers, CancelRoot(c) PROVE GroupsEnd'
  <2>1. closer'[c].group = None
    BY <1>13 DEF CancelRoot, Typed, TypeOK, CloserShape, CloserStates, CloserAt, Done
  <2>2. \A d \in Closers : d # c => closer'[d] = closer[d]
    BY <1>13 DEF CancelRoot, Typed, TypeOK
  <2>3. tasks' \subseteq tasks /\ cancelled \subseteq cancelled' /\ UNCHANGED <<closed,
       members, spawner>>
    BY <1>13 DEF CancelRoot, records, groups, history
  <2> QED
    BY <2>1, <2>2, <2>3 DEF GroupsEnd, Revoking
<1>14. ASSUME NEW c \in Closers, CancelGroups(c) PROVE GroupsEnd'
  <2>1. closer'[c].group = None
    BY <1>14 DEF CancelGroups, Typed, TypeOK, CloserShape, CloserStates, CloserAt, Done
  <2>2. \A d \in Closers : d # c => closer'[d] = closer[d]
    BY <1>14 DEF CancelGroups, Typed, TypeOK
  <2>3. tasks' \subseteq tasks /\ cancelled \subseteq cancelled' /\ UNCHANGED <<closed,
       members, spawner>>
    BY <1>14 DEF CancelGroups, records, groups, history
  <2> QED
    BY <2>1, <2>2, <2>3 DEF GroupsEnd, Revoking
<1>15. ASSUME NEW c \in Closers, Drain(c) PROVE GroupsEnd'
  <2>1. closer'[c].group = None
    BY <1>15 DEF Drain, Typed, TypeOK, CloserShape, CloserStates, CloserAt, Done
  <2>2. \A d \in Closers : d # c => closer'[d] = closer[d]
    BY <1>15 DEF Drain, Typed, TypeOK
  <2>3. tasks' \subseteq tasks /\ cancelled \subseteq cancelled' /\ UNCHANGED <<closed,
       members, spawner>>
    BY <1>15 DEF Drain, records, groups, history
  <2> QED
    BY <2>1, <2>2, <2>3 DEF GroupsEnd, Revoking
<1>16. ASSUME NEW c \in Closers, Clear(c) PROVE GroupsEnd'
  <2>1. closer'[c].group = None
    BY <1>16 DEF Clear, Typed, TypeOK, CloserShape, CloserStates, CloserAt, Done
  <2>2. \A d \in Closers : d # c => closer'[d] = closer[d]
    BY <1>16 DEF Clear, Typed, TypeOK
  <2>3. tasks' \subseteq tasks /\ cancelled \subseteq cancelled' /\ UNCHANGED <<closed,
       members, spawner>>
    BY <1>16 DEF Clear, records, groups, history
  <2> QED
    BY <2>1, <2>2, <2>3 DEF GroupsEnd, Revoking
<1>17. ASSUME NEW c \in Closers, SignalGroup(c) PROVE GroupsEnd'
  <2>1. \A d \in Closers : d # c => closer'[d] = closer[d]
    BY <1>17 DEF SignalGroup, Typed, TypeOK
  <2>2. tasks' \subseteq tasks /\ cancelled \subseteq cancelled' /\ UNCHANGED <<closed,
       members, spawner>>
    BY <1>17 DEF SignalGroup, records, groups, history
  <2>3. Revoking' = Revoking
    BY <2>2 DEF Revoking
  <2>4. closer'[c].stage = "list" /\ closer'[c].group \in cancelled'
    BY <1>17 DEF SignalGroup, Typed, TypeOK, CloserShape, CloserStates, CloserAt, Done
  <2> QED
    BY <2>1, <2>2, <2>3, <2>4 DEF GroupsEnd
<1>18. ASSUME NEW c \in Closers, ListMembers(c) PROVE GroupsEnd'
  <2>1. \A d \in Closers : d # c => closer'[d] = closer[d]
    BY <1>18 DEF ListMembers, Typed, TypeOK
  <2>2. tasks' \subseteq tasks /\ cancelled \subseteq cancelled' /\ UNCHANGED <<closed,
       members, spawner>>
    BY <1>18 DEF ListMembers, records, groups, history
  <2>3. Revoking' = Revoking
    BY <2>2 DEF Revoking
  <2>4. /\ closer'[c].group \in cancelled
        /\ members[closer'[c].group] \subseteq closer'[c].ids
    BY <1>18 DEF ListMembers, GroupsEnd, Typed, TypeOK, CloserShape, CloserStates, CloserAt,
         Done, Groups, None
  <2> QED
    BY <2>1, <2>2, <2>3, <2>4 DEF GroupsEnd
<1>19. ASSUME NEW c \in Closers, NEW t \in closer[c].ids, JoinNext(c, t) PROVE GroupsEnd'
  <2>1. \A d \in Closers : d # c => closer'[d] = closer[d]
    BY <1>19 DEF JoinNext, Typed, TypeOK
  <2>2. tasks' \subseteq tasks /\ cancelled \subseteq cancelled' /\ UNCHANGED <<closed,
       members, spawner>>
    BY <1>19 DEF JoinNext, records, groups, history
  <2>3. Revoking' = Revoking
    BY <2>2 DEF Revoking
  <2>4. /\ closer'[c].group = closer[c].group /\ closer'[c].stage = "join"
        /\ closer[c].group # None => /\ closer[c].group \in cancelled
             /\ members[closer[c].group] \cap tasks' \subseteq closer'[c].ids \cup Revoking
    <3>1. /\ closer[c].stage = "join" /\ closer'[c].group = closer[c].group
          /\ closer'[c].stage = "join" /\ closer'[c].ids = closer[c].ids \ {t}
      BY <1>19 DEF JoinNext, Typed, TypeOK, CloserShape, CloserStates, CloserAt, Done
    <3>2. tasks' = tasks \ {t}
      BY <1>19 DEF JoinNext
    <3> QED
      BY <3>1, <3>2 DEF GroupsEnd
  <2> QED
    BY <2>1, <2>2, <2>3, <2>4 DEF GroupsEnd
<1>20. ASSUME NEW c \in Closers, Joined(c) PROVE GroupsEnd'
  <2>1. \A d \in Closers : d # c => closer'[d] = closer[d]
    BY <1>20 DEF Joined, Typed, TypeOK
  <2>2. tasks' \subseteq tasks /\ cancelled \subseteq cancelled' /\ UNCHANGED <<closed,
       members, spawner>>
    BY <1>20 DEF Joined, records, groups, history
  <2>3. Revoking' = Revoking
    BY <2>2 DEF Revoking
  <2>4. /\ closer'[c].group = closer[c].group /\ closer'[c].stage = closer[c].stage
        /\ closer'[c].ids = closer[c].ids
    BY <1>20 DEF Joined, Typed, TypeOK, CloserShape, CloserStates, CloserAt, Done
  <2> QED
    BY <2>1, <2>2, <2>3, <2>4 DEF GroupsEnd
<1>21. ASSUME NEW c \in Closers, JoinedAll(c) PROVE GroupsEnd'
  <2>1. \A d \in Closers : d # c => closer'[d] = closer[d]
    BY <1>21 DEF JoinedAll, Typed, TypeOK
  <2>2. UNCHANGED <<tasks, cancelled, members, spawner>>
    BY <1>21 DEF JoinedAll, records, groups, history
  <2>3. Revoking' = Revoking
    BY <2>2 DEF Revoking
  <2>4. closer'[c].group = None
    BY <1>21 DEF JoinedAll, Typed, TypeOK, CloserShape, CloserStates, CloserAt, Done
  <2>5. closed' \subseteq closed \cup ({closer[c].group} \ {None})
    BY <1>21 DEF JoinedAll
  <2>6. closer[c].group # None => /\ closer[c].group \in cancelled
                                 /\ members[closer[c].group] \cap tasks \subseteq Revoking
    BY <1>21 DEF JoinedAll, GroupsEnd
  <2> QED
    BY <2>1, <2>2, <2>3, <2>4, <2>5, <2>6 DEF GroupsEnd
<1>22. ASSUME NEW c \in Closers, CallerDropped(c) PROVE GroupsEnd'
  <2>1. closer'[c].group = None
    BY <1>22 DEF CallerDropped, Typed, TypeOK, CloserShape, CloserStates, CloserAt, Done
  <2>2. \A d \in Closers : d # c => closer'[d] = closer[d]
    BY <1>22 DEF CallerDropped, Typed, TypeOK
  <2>3. tasks' \subseteq tasks /\ cancelled \subseteq cancelled' /\ UNCHANGED <<closed,
       members, spawner>>
    BY <1>22 DEF CallerDropped, records, groups, history
  <2> QED
    BY <2>1, <2>2, <2>3 DEF GroupsEnd, Revoking
<1>23. ASSUME NEW t \in Ids, Finish(t) PROVE GroupsEnd'
  BY <1>23 DEF Finish, GroupsEnd, Revoking, groups, history
<1>24. ASSUME NEW t \in Ids, DropLease(t) PROVE GroupsEnd'
  BY <1>24 DEF DropLease, CancelTaskSync, GroupsEnd, Revoking, groups, history
<1>25. CASE UNCHANGED vars
  BY <1>25 DEF GroupsEnd, Revoking, vars, records, groups, history
<1> QED
  BY <1>1, <1>2, <1>3, <1>4, <1>5, <1>6, <1>7, <1>8, <1>9, <1>10, <1>11, <1>12, <1>13, <1>14,
       <1>15, <1>16, <1>17, <1>18, <1>19, <1>20, <1>21, <1>22, <1>23, <1>24, <1>25
  DEF Next, SpawnStep, CloseStep

\* The sets that are counted are finite.
LEMMA Finite ==
  ASSUME Typed
  PROVE  /\ IsFiniteSet(tasks) /\ IsFiniteSet(Inserting) /\ IsFiniteSet(Spawners)
         /\ Cardinality(tasks) \in Nat /\ Cardinality(Inserting) \in Nat
         /\ Cardinality(Spawners) \in Nat
<1>1. IsFiniteSet(Ids)
  BY TaskAssumption, FS_Interval DEF Ids
<1>2. IsFiniteSet(tasks) /\ IsFiniteSet(Inserting)
  BY <1>1, TaskAssumption, FS_Subset DEF Typed, TypeOK, Inserting
<1> QED
  BY <1>2, TaskAssumption, FS_CardinalityType

\* Records that go and spawners that stay where they are cannot exceed the limit.
LEMMA FewerRecords ==
  ASSUME Typed, RecordsAndInserting, tasks' \subseteq tasks, Inserting' \subseteq Inserting
  PROVE  RecordsAndInserting'
<1>1. /\ Cardinality(tasks') <= Cardinality(tasks) /\ Cardinality(tasks') \in Nat
      /\ Cardinality(Inserting') <= Cardinality(Inserting) /\ Cardinality(Inserting') \in Nat
  BY Finite, FS_Subset, FS_CardinalityType
<1> QED
  BY <1>1, Finite, TaskAssumption DEF RecordsAndInserting

\* Records plus started tasks without one stay below the limit plus the number of spawners.
LEMMA CapacityStep ==
  ASSUME Typed, RecordsAndInserting, [Next]_vars
  PROVE  RecordsAndInserting'
<1>1. ASSUME NEW p \in Spawners, SpawnRuntime(p) PROVE RecordsAndInserting'
  <2>1. tasks' \subseteq tasks /\ Inserting' \subseteq Inserting
    BY <1>1 DEF SpawnRuntime, Typed, TypeOK, SpawnerStates, SpawnerAt, Returned, Inserting,
         records
  <2> QED
    BY <2>1, FewerRecords
<1>2. ASSUME NEW p \in Spawners, NEW s \in Sessions, SpawnSession(p, s) PROVE RecordsAndInserting'
  <2>1. tasks' \subseteq tasks /\ Inserting' \subseteq Inserting
    BY <1>2 DEF SpawnSession, Typed, TypeOK, SpawnerStates, SpawnerAt, Returned, Inserting,
         records
  <2> QED
    BY <2>1, FewerRecords
<1>3. ASSUME NEW p \in Spawners, JoinGroup(p) PROVE RecordsAndInserting'
  <2>1. tasks' \subseteq tasks /\ Inserting' \subseteq Inserting
    BY <1>3 DEF JoinGroup, Typed, TypeOK, SpawnerStates, SpawnerAt, Returned, Inserting, records
  <2> QED
    BY <2>1, FewerRecords
<1>4. ASSUME NEW p \in Spawners, Reap(p) PROVE RecordsAndInserting'
  <2>1. tasks' \subseteq tasks /\ Inserting' \subseteq Inserting
    BY <1>4 DEF Reap, Typed, TypeOK, SpawnerStates, SpawnerAt, Returned, Inserting, records
  <2> QED
    BY <2>1, FewerRecords
<1>5. ASSUME NEW p \in Spawners, Admit(p) PROVE RecordsAndInserting'
  <2>1. tasks' = tasks /\ Inserting' \subseteq Spawners
    BY <1>5 DEF Admit, Inserting
  <2>2. Cardinality(Inserting') <= Cardinality(Spawners) /\ Cardinality(Inserting') \in Nat
    BY <2>1, Finite, FS_Subset, FS_CardinalityType
  <2>3. Cardinality(tasks) < MaxSupervised
    BY <1>5 DEF Admit, Room
  <2> QED
    BY <2>1, <2>2, <2>3, Finite, TaskAssumption DEF RecordsAndInserting
<1>6. ASSUME NEW p \in Spawners, Refuse(p) PROVE RecordsAndInserting'
  <2>1. tasks' \subseteq tasks /\ Inserting' \subseteq Inserting
    BY <1>6 DEF Refuse, Typed, TypeOK, SpawnerStates, SpawnerAt, Returned, Inserting, records
  <2> QED
    BY <2>1, FewerRecords
<1>7. ASSUME NEW p \in Spawners, Insert(p) PROVE RecordsAndInserting'
  <2>1. tasks' \subseteq tasks \cup {spawner[p].task}
    BY <1>7 DEF Insert
  <2>2. Inserting' = Inserting \ {p} /\ p \in Inserting
    <3>1. spawner'[p].stage # "insert" /\ \A q \in Spawners : q # p => spawner'[q] = spawner[q]
      BY <1>7 DEF Insert, Typed, TypeOK, SpawnerStates, SpawnerAt, Returned
    <3> QED
      BY <3>1, <1>7 DEF Insert, Inserting
  <2>3. /\ Cardinality(Inserting') = Cardinality(Inserting) - 1
        /\ Cardinality(Inserting') \in Nat
    BY <2>2, Finite, FS_RemoveElement, FS_CardinalityType
  <2>4. /\ IsFiniteSet(tasks \cup {spawner[p].task})
        /\ Cardinality(tasks \cup {spawner[p].task}) <= Cardinality(tasks) + 1
        /\ Cardinality(tasks \cup {spawner[p].task}) \in Nat
    <3> DEFINE S == tasks \cup {spawner[p].task}
    <3>1. /\ IsFiniteSet(S) /\ Cardinality(tasks) \in Nat
          /\ Cardinality(S) = IF spawner[p].task \in tasks THEN Cardinality(tasks)
                                                        ELSE Cardinality(tasks) + 1
      BY Finite, FS_AddElement
    <3>2. Cardinality(S) \in Nat
      BY <3>1, FS_CardinalityType
    <3> HIDE DEF S
    <3>3. Cardinality(S) <= Cardinality(tasks) + 1
      BY <3>1
    <3> QED
      BY <3>1, <3>2, <3>3 DEF S
  <2>5. Cardinality(tasks') <= Cardinality(tasks) + 1 /\ Cardinality(tasks') \in Nat
    BY <2>1, <2>4, Finite, FS_Subset, FS_CardinalityType
  <2> QED
    BY <2>3, <2>5, Finite, TaskAssumption DEF RecordsAndInserting
<1>8. ASSUME NEW p \in Spawners, Push(p) PROVE RecordsAndInserting'
  <2>1. tasks' \subseteq tasks /\ Inserting' \subseteq Inserting
    BY <1>8 DEF Push, Typed, TypeOK, SpawnerStates, SpawnerAt, Returned, Inserting, records
  <2> QED
    BY <2>1, FewerRecords
<1>9. ASSUME NEW p \in Spawners, Revoke(p) PROVE RecordsAndInserting'
  <2>1. tasks' \subseteq tasks /\ Inserting' \subseteq Inserting
    BY <1>9 DEF Revoke, CancelTaskSync, Typed, TypeOK, SpawnerStates, SpawnerAt, Returned,
         Inserting, records
  <2> QED
    BY <2>1, FewerRecords
<1>10. ASSUME NEW c \in Closers, NEW op \in {"cancel_root", "shutdown", "abort_all_now"},
     Stop(c, op) PROVE RecordsAndInserting'
  <2>1. tasks' \subseteq tasks /\ Inserting' \subseteq Inserting
    BY <1>10 DEF Stop, Inserting, records
  <2> QED
    BY <2>1, FewerRecords
<1>11. ASSUME NEW c \in Closers, NEW s \in Sessions, CancelSession(c,
     s) PROVE RecordsAndInserting'
  <2>1. tasks' \subseteq tasks /\ Inserting' \subseteq Inserting
    BY <1>11 DEF CancelSession, Inserting, records
  <2> QED
    BY <2>1, FewerRecords
<1>12. ASSUME NEW c \in Closers, NEW t \in Ids, CancelTask(c, t) PROVE RecordsAndInserting'
  <2>1. tasks' \subseteq tasks /\ Inserting' \subseteq Inserting
    BY <1>12 DEF CancelTask, Inserting, records
  <2> QED
    BY <2>1, FewerRecords
<1>13. ASSUME NEW c \in Closers, CancelRoot(c) PROVE RecordsAndInserting'
  <2>1. tasks' \subseteq tasks /\ Inserting' \subseteq Inserting
    BY <1>13 DEF CancelRoot, Inserting, records
  <2> QED
    BY <2>1, FewerRecords
<1>14. ASSUME NEW c \in Closers, CancelGroups(c) PROVE RecordsAndInserting'
  <2>1. tasks' \subseteq tasks /\ Inserting' \subseteq Inserting
    BY <1>14 DEF CancelGroups, Inserting, records
  <2> QED
    BY <2>1, FewerRecords
<1>15. ASSUME NEW c \in Closers, Drain(c) PROVE RecordsAndInserting'
  <2>1. tasks' \subseteq tasks /\ Inserting' \subseteq Inserting
    BY <1>15 DEF Drain, Inserting, records
  <2> QED
    BY <2>1, FewerRecords
<1>16. ASSUME NEW c \in Closers, Clear(c) PROVE RecordsAndInserting'
  <2>1. tasks' \subseteq tasks /\ Inserting' \subseteq Inserting
    BY <1>16 DEF Clear, Inserting, records
  <2> QED
    BY <2>1, FewerRecords
<1>17. ASSUME NEW c \in Closers, SignalGroup(c) PROVE RecordsAndInserting'
  <2>1. tasks' \subseteq tasks /\ Inserting' \subseteq Inserting
    BY <1>17 DEF SignalGroup, Inserting, records
  <2> QED
    BY <2>1, FewerRecords
<1>18. ASSUME NEW c \in Closers, ListMembers(c) PROVE RecordsAndInserting'
  <2>1. tasks' \subseteq tasks /\ Inserting' \subseteq Inserting
    BY <1>18 DEF ListMembers, Inserting, records
  <2> QED
    BY <2>1, FewerRecords
<1>19. ASSUME NEW c \in Closers, NEW t \in closer[c].ids, JoinNext(c,
     t) PROVE RecordsAndInserting'
  <2>1. tasks' \subseteq tasks /\ Inserting' \subseteq Inserting
    BY <1>19 DEF JoinNext, Inserting, records
  <2> QED
    BY <2>1, FewerRecords
<1>20. ASSUME NEW c \in Closers, Joined(c) PROVE RecordsAndInserting'
  <2>1. tasks' \subseteq tasks /\ Inserting' \subseteq Inserting
    BY <1>20 DEF Joined, Inserting, records
  <2> QED
    BY <2>1, FewerRecords
<1>21. ASSUME NEW c \in Closers, JoinedAll(c) PROVE RecordsAndInserting'
  <2>1. tasks' \subseteq tasks /\ Inserting' \subseteq Inserting
    BY <1>21 DEF JoinedAll, Inserting, records
  <2> QED
    BY <2>1, FewerRecords
<1>22. ASSUME NEW c \in Closers, CallerDropped(c) PROVE RecordsAndInserting'
  <2>1. tasks' \subseteq tasks /\ Inserting' \subseteq Inserting
    BY <1>22 DEF CallerDropped, Inserting, records
  <2> QED
    BY <2>1, FewerRecords
<1>23. ASSUME NEW t \in Ids, Finish(t) PROVE RecordsAndInserting'
  <2>1. tasks' \subseteq tasks /\ Inserting' \subseteq Inserting
    BY <1>23 DEF Finish, Inserting, records
  <2> QED
    BY <2>1, FewerRecords
<1>24. ASSUME NEW t \in Ids, DropLease(t) PROVE RecordsAndInserting'
  <2>1. tasks' \subseteq tasks /\ Inserting' \subseteq Inserting
    BY <1>24 DEF DropLease, CancelTaskSync, Inserting, records
  <2> QED
    BY <2>1, FewerRecords
<1>25. CASE UNCHANGED vars
  <2>1. tasks' \subseteq tasks /\ Inserting' \subseteq Inserting
    BY <1>25 DEF Inserting, vars, records
  <2> QED
    BY <2>1, FewerRecords
<1> QED
  BY <1>1, <1>2, <1>3, <1>4, <1>5, <1>6, <1>7, <1>8, <1>9, <1>10, <1>11, <1>12, <1>13, <1>14,
       <1>15, <1>16, <1>17, <1>18, <1>19, <1>20, <1>21, <1>22, <1>23, <1>24, <1>25
  DEF Next, SpawnStep, CloseStep

-----------------------------------------------------------------------------
(* The theorems                                                            *)

\* The invariant holds initially.
LEMMA InitIInv ==
  ASSUME Init
  PROVE  IInv
<1>1. Typed
  <2>1. stopping \in BOOLEAN /\ root \in BOOLEAN /\ drained \in BOOLEAN
    BY Zenon DEF Init
  <2>2. spawner \in [Spawners -> SpawnerStates] /\ SpawnerShape
    BY DEF Init, SpawnerShape, SpawnerStates, SpawnerAt, Returned
  <2>3. closer \in [Closers -> CloserStates] /\ CloserShape
    BY DEF Init, CloserShape, CloserStates, CloserAt, Done
  <2>4. /\ tasks \subseteq Ids /\ token \subseteq Ids /\ live \subseteq Ids
        /\ groupOf \in [Ids -> Groups \cup {None}]
        /\ current \in [Sessions -> Groups \cup {None}] /\ members \in [Groups -> SUBSET Ids]
        /\ cancelled \subseteq Groups /\ closed \subseteq Groups
    BY DEF Init
  <2>5. /\ nextId \in 1 .. MaxTasks + 1 /\ nextGroup \in 1 .. MaxGroups + 1
        /\ calls \in 0 .. MaxCalls
    BY TaskAssumption DEF Init
  <2> QED
    BY <2>1, <2>2, <2>3, <2>4, <2>5 DEF Typed, TypeOK
<1>2. StopOrder /\ DrainedIsFinal /\ LiveIsReachable /\ ChildrenListed
  BY DEF Init, StopOrder, DrainedIsFinal, LiveIsReachable, ChildrenListed, CloserAt, Done
<1>3. IdsAreOld /\ OneSpawner
  BY DEF Init, IdsAreOld, OneSpawner, Active, SpawnerAt, Returned
<1>4. GroupsEnd
  BY DEF Init, GroupsEnd, CloserAt, Done
<1>5. RecordsAndInserting
  <2>1. tasks = {} /\ Inserting = {}
    BY DEF Init, Inserting, SpawnerAt, Returned
  <2>2. Cardinality(tasks) = 0 /\ Cardinality(Inserting) = 0
    BY <2>1, FS_EmptySet
  <2>3. Cardinality(Spawners) \in Nat \ {0}
    BY TaskAssumption, FS_EmptySet, FS_CardinalityType
  <2> QED
    BY <2>2, <2>3, TaskAssumption DEF RecordsAndInserting
<1> QED
  BY <1>1, <1>2, <1>3, <1>4, <1>5 DEF IInv

\* Every step preserves the invariant.
LEMMA IInvStep ==
  ASSUME IInv, [Next]_vars
  PROVE  IInv'
BY TypedStep, StopStep, LiveStep, IdsStep, ListedStep, GroupsStep, CapacityStep DEF IInv

\* The conjunction of the facts above holds in every reachable state.
THEOREM Inductive == Spec => []IInv
<1>1. Init => IInv
  BY InitIInv
<1>2. IInv /\ [Next]_vars => IInv'
  BY IInvStep
<1> QED
  BY <1>1, <1>2, PTL DEF Spec

\* The supervisor's maps, tokens and callers are well typed in every reachable state.
THEOREM TasksTyped == Spec => []TypeOK
<1>1. IInv => TypeOK
  BY DEF IInv, Typed
<1> QED
  BY <1>1, Inductive, PTL

\* spawn_scoped starts the future before its record exists, and cancel, lease drop and
\* shutdown take records away: even so no running future is ever lost sight of.
THEOREM NoTaskLeaked == Spec => []LiveIsReachable
<1>1. IInv => LiveIsReachable
  BY DEF IInv
<1> QED
  BY <1>1, Inductive, PTL

\* The second look at `stopping` under the tasks lock keeps a drained map empty.
THEOREM DrainedStaysEmpty == Spec => []DrainedIsFinal
<1>1. IInv => DrainedIsFinal
  BY DEF IInv
<1> QED
  BY <1>1, Inductive, PTL

\* When cancel_session has returned, only a spawner that is itself about to revoke its
\* task still has a record in that group.
THEOREM SessionsEnd == Spec => []ClosedSessionIsEmpty
<1>1. ASSUME IInv PROVE ClosedSessionIsEmpty
  <2> SUFFICES ASSUME NEW t \in tasks \cap live, groupOf[t] \in closed
               PROVE  \E p \in Spawners : spawner[p].stage \in {"push",
                    "revoke"} /\ spawner[p].task = t
    BY DEF ClosedSessionIsEmpty
  <2>1. groupOf[t] # None
    BY <1>1 DEF IInv, Typed, TypeOK, Groups, None
  <2>2. CASE t \in members[groupOf[t]]
    BY <2>2, <1>1 DEF IInv, GroupsEnd, Revoking
  <2> QED
    BY <2>1, <2>2, <1>1 DEF IInv, ChildrenListed
<1> QED
  BY <1>1, Inductive, PTL

\* MAX_SUPERVISED_TASKS is exceeded by less than the number of threads that spawn.
THEOREM RecordsBounded == Spec => []CapacityBounded
<1>1. ASSUME IInv PROVE CapacityBounded
  BY <1>1, Finite, TaskAssumption DEF IInv, RecordsAndInserting, CapacityBounded
<1> QED
  BY <1>1, Inductive, PTL

\* Together: the state is well typed, and concurrent spawns exceed the record limit by
\* less than their number.
THEOREM TasksStayConsistent == Spec => []TasksConsistent
<1>1. TypeOK /\ CapacityBounded => TasksConsistent
  BY DEF TasksConsistent
<1> QED
  BY <1>1, TasksTyped, RecordsBounded, PTL

-----------------------------------------------------------------------------
(* Event lanes: the inductive invariant                                    *)

LaneEvents == [lane : Lanes, bytes : 0 .. LaneMaxEventBytes, n : Nat]

\* Senders hold lifecycle and data events, the worker holds results.
LaneTyped ==
  /\ laneQueue \in [Lanes -> Seq(LaneEvents)] /\ laneBytes \in [Lanes -> Nat]
  /\ \A l \in Lanes : Len(laneQueue[l]) <= LaneCapacity[l]
  /\ laneSender \in [LaneProducers -> [at : {"idle", "reserved"}, event : LaneEvents]]
  /\ \A p \in LaneProducers : laneSender[p].event.lane # "result"
  /\ laneWorker \in [at : {"idle", "waiting", "reserved", "stopped"}, event : LaneEvents]
  /\ laneSchedule \in [lane : Lanes, burst : Nat] /\ laneSchedule.burst <= LaneBurst[laneSchedule.lane]
  /\ laneOpen \in BOOLEAN /\ laneAsleep \in BOOLEAN /\ laneMade \in Nat
  /\ laneResults \in Seq(Nat) /\ laneReceived \in Seq(Nat)
  /\ laneOvertaken \in [Lanes -> Nat]

\* Who can have overtaken whom: an empty lane, and the one the schedule is at, nobody;
\* the lane before it, by its burst so far; the lane after it, by a burst and that.
LaneTurns ==
  /\ laneAsleep => \A l \in Lanes : laneOvertaken[l] = 0
  /\ \A l \in Lanes : laneQueue[l] = <<>> => laneOvertaken[l] = 0
  /\ \A l \in Lanes :
       /\ laneSchedule.lane = l => laneOvertaken[l] = 0
       /\ laneSchedule.lane = NextLane(l) => laneOvertaken[l] <= laneSchedule.burst
       /\ laneSchedule.lane = NextLane(NextLane(l)) =>
            laneOvertaken[l] <= LaneBurst[NextLane(l)] + laneSchedule.burst

\* The sizes and the numbers in a queue.
LaneSizesOf(q) == [i \in DOMAIN q |-> q[i].bytes]
LaneNumbersOf(q) == [i \in DOMAIN q |-> q[i].n]

\* The bytes producers hold reserved in a lane.
LaneHeldBy(s, l) ==
  [p \in {p \in LaneProducers : s[p].at = "reserved" /\ s[p].event.lane = l} |-> s[p].event.bytes]

\* The byte counters, and the order of the results.
LaneWorkerHas(w, l) == IF l = "result" /\ w.at = "reserved" THEN w.event.bytes ELSE 0
LaneSum(q, s, w, l) == TotalBytes(LaneSizesOf(q[l])) + TotalBytes(LaneHeldBy(s, l)) + LaneWorkerHas(w, l)
LaneCounts == \A l \in Lanes : laneBytes[l] = LaneSum(laneQueue, laneSender, laneWorker, l) /\ laneBytes[l] <= LaneByteLimit[l]
LaneOrder ==
  laneWorker.at # "stopped" =>
    laneResults = laneReceived \o LaneNumbersOf(laneQueue["result"])
                  \o (IF laneWorker.at = "idle" THEN <<>> ELSE <<laneWorker.event.n>>)

LaneInv == LaneTyped /\ LaneCounts /\ LaneOrder /\ LaneTurns

-----------------------------------------------------------------------------
(* Event lanes: sums of sizes                                              *)

LaneUnits(f) == {u \in (DOMAIN f) \X (1 .. LaneMaxEventBytes) : u[2] <= f[u[1]]}

LEMMA TotalNat ==
  ASSUME NEW f, IsFiniteSet(DOMAIN f)
  PROVE  IsFiniteSet(LaneUnits(f)) /\ TotalBytes(f) \in Nat
<1>1. IsFiniteSet(1 .. LaneMaxEventBytes)
  BY LaneAssumption, FS_Interval
<1>2. IsFiniteSet((DOMAIN f) \X (1 .. LaneMaxEventBytes))
  BY <1>1, FS_Product
<1>3. LaneUnits(f) \in SUBSET ((DOMAIN f) \X (1 .. LaneMaxEventBytes))
  BY DEF LaneUnits
<1>4. IsFiniteSet(LaneUnits(f))
  BY <1>2, <1>3, FS_Subset
<1> QED
  BY <1>4, FS_CardinalityType DEF TotalBytes, LaneUnits

LEMMA TotalEmpty ==
  ASSUME NEW f, DOMAIN f = {}
  PROVE  TotalBytes(f) = 0
<1>1. {u \in (DOMAIN f) \X (1 .. LaneMaxEventBytes) : u[2] <= f[u[1]]} = {}
  OBVIOUS
<1> QED
  BY <1>1, FS_EmptySet DEF TotalBytes

\* One more size.
LaneAdds(f, g, x) ==
  /\ IsFiniteSet(DOMAIN f) /\ x \notin DOMAIN f /\ DOMAIN g = (DOMAIN f) \cup {x}
  /\ g[x] \in 0 .. LaneMaxEventBytes /\ \A y \in DOMAIN f : g[y] = f[y]
LEMMA TotalAdd ==
  ASSUME NEW f, NEW g, NEW x, LaneAdds(f, g, x)
  PROVE  TotalBytes(g) = TotalBytes(f) + g[x] /\ TotalBytes(f) \in Nat
<1> USE DEF LaneAdds
<1> DEFINE new == {x} \X (1 .. g[x])
<1>0. LaneMaxEventBytes \in Nat /\ g[x] \in Nat /\ g[x] <= LaneMaxEventBytes
  BY LaneAssumption
<1>1. IsFiniteSet(LaneUnits(f)) /\ TotalBytes(f) \in Nat
  BY TotalNat
<1>2. IsFiniteSet(1 .. g[x]) /\ Cardinality(1 .. g[x]) = g[x]
  BY <1>0, FS_Interval
<1>3. IsFiniteSet(new) /\ Cardinality(new) = g[x]
  <2>1. IsFiniteSet({x}) /\ Cardinality({x}) = 1
    BY FS_Singleton
  <2>2. IsFiniteSet(new) /\ Cardinality(new) = Cardinality({x}) * Cardinality(1 .. g[x])
    BY <1>2, <2>1, FS_Product
  <2> QED
    BY <1>0, <1>2, <2>1, <2>2
<1>4. LaneUnits(g) = LaneUnits(f) \cup new
  <2>1. \A u : u \in LaneUnits(g) => u \in LaneUnits(f) \cup new
    BY <1>0 DEF LaneUnits
  <2>2. \A u : u \in LaneUnits(f) => u \in LaneUnits(g)
    BY DEF LaneUnits
  <2>3. \A u : u \in new => u \in LaneUnits(g)
    BY <1>0 DEF LaneUnits
  <2> QED
    BY <2>1, <2>2, <2>3
<1>5. LaneUnits(f) \cap new = {}
  BY DEF LaneUnits
<1> HIDE DEF new
<1>6. Cardinality(LaneUnits(g)) = Cardinality(LaneUnits(f)) + Cardinality(new) - 0
  BY <1>1, <1>3, <1>4, <1>5, FS_Union, FS_EmptySet
<1> QED
  BY <1>0, <1>1, <1>3, <1>6 DEF TotalBytes, LaneUnits

\* The places of the sizes do not matter.
LEMMA TotalShift ==
  ASSUME NEW m \in Nat, NEW f, DOMAIN f = 2 .. m + 1, NEW g, DOMAIN g = 1 .. m,
         \A i \in 1 .. m : g[i] = f[i + 1]
  PROVE  TotalBytes(g) = TotalBytes(f)
<1> DEFINE h == [u \in LaneUnits(g) |-> <<u[1] + 1, u[2]>>]
<1>1. IsFiniteSet(LaneUnits(g))
  <2>1. IsFiniteSet(DOMAIN g)
    BY FS_Interval
  <2> QED
    BY <2>1, TotalNat
<1>2. \A u \in LaneUnits(g) : u[1] \in 1 .. m /\ u[2] \in 1 .. LaneMaxEventBytes /\ u = <<u[1], u[2]>> /\ u[2] <= g[u[1]]
  BY DEF LaneUnits
<1>3. \A u \in LaneUnits(g) : h[u] \in LaneUnits(f)
  BY <1>2 DEF LaneUnits
<1>4. \A u, v \in LaneUnits(g) : h[u] = h[v] => u = v
  <2> SUFFICES ASSUME NEW u \in LaneUnits(g), NEW v \in LaneUnits(g), h[u] = h[v] PROVE u = v
    OBVIOUS
  <2>1. u[1] + 1 = v[1] + 1 /\ u[2] = v[2]
    OBVIOUS
  <2> QED
    BY <1>2, <2>1
<1>5. \A v \in LaneUnits(f) : \E u \in LaneUnits(g) : h[u] = v
  <2> SUFFICES ASSUME NEW v \in LaneUnits(f) PROVE \E u \in LaneUnits(g) : h[u] = v
    OBVIOUS
  <2>1. v[1] \in 2 .. m + 1 /\ v[2] \in 1 .. LaneMaxEventBytes /\ v[2] <= f[v[1]] /\ v = <<v[1], v[2]>>
    BY DEF LaneUnits
  <2>2. v[1] - 1 \in 1 .. m /\ (v[1] - 1) + 1 = v[1]
    BY <2>1
  <2>3. <<v[1] - 1, v[2]>> \in LaneUnits(g)
    BY <2>1, <2>2 DEF LaneUnits
  <2>4. h[<<v[1] - 1, v[2]>>] = v
    BY <2>1, <2>2, <2>3
  <2> QED
    BY <2>3, <2>4
<1>6. h \in Bijection(LaneUnits(g), LaneUnits(f))
  BY <1>3, <1>4, <1>5 DEF Bijection, Injection, Surjection, IsInjective
<1>7. ExistsBijection(LaneUnits(g), LaneUnits(f))
  BY <1>6 DEF ExistsBijection
<1>8. Cardinality(LaneUnits(f)) = Cardinality(LaneUnits(g))
  BY <1>1, <1>7, FS_Bijection
<1> QED
  BY <1>8 DEF TotalBytes, LaneUnits


LEMMA TotalQueued ==
  ASSUME NEW q \in Seq(LaneEvents)
  PROVE  TotalBytes(LaneSizesOf(q)) \in Nat
<1>1. IsFiniteSet(DOMAIN LaneSizesOf(q))
  BY LenProperties, FS_Interval DEF LaneSizesOf
<1> QED
  BY <1>1, TotalNat

LEMMA TotalAppended ==
  ASSUME NEW q \in Seq(LaneEvents), NEW e \in LaneEvents
  PROVE  TotalBytes(LaneSizesOf(Append(q, e))) = TotalBytes(LaneSizesOf(q)) + e.bytes
<1> DEFINE f == LaneSizesOf(q)  g == LaneSizesOf(Append(q, e))
<1>1. Len(q) \in Nat /\ DOMAIN f = 1 .. Len(q) /\ IsFiniteSet(1 .. Len(q))
  BY LenProperties, FS_Interval DEF LaneSizesOf
<1>2. /\ Append(q, e) \in Seq(LaneEvents) /\ Len(Append(q, e)) = Len(q) + 1
      /\ \A i \in 1 .. Len(q) : Append(q, e)[i] = q[i]
      /\ Append(q, e)[Len(q) + 1] = e
  BY AppendProperties
<1>3. DOMAIN g = 1 .. Len(q) + 1 /\ DOMAIN q = 1 .. Len(q) /\ DOMAIN Append(q, e) = 1 .. Len(q) + 1
  BY <1>2, LenProperties DEF LaneSizesOf
<1>4. 1 .. Len(q) + 1 = (1 .. Len(q)) \cup {Len(q) + 1} /\ Len(q) + 1 \notin 1 .. Len(q)
  BY <1>1
<1>5. g[Len(q) + 1] = e.bytes /\ e.bytes \in 0 .. LaneMaxEventBytes
  BY <1>2, <1>3, <1>4 DEF LaneSizesOf, LaneEvents
<1>6. \A y \in 1 .. Len(q) : g[y] = f[y]
  BY <1>2, <1>3, <1>4 DEF LaneSizesOf
<1> HIDE DEF f, g
<1>7. TotalBytes(g) = TotalBytes(f) + g[Len(q) + 1]
  <2>1. LaneAdds(f, g, Len(q) + 1)
    BY <1>1, <1>3, <1>4, <1>5, <1>6 DEF LaneAdds
  <2> QED
    BY <2>1, TotalAdd
<1> QED
  BY <1>5, <1>7 DEF f, g

LEMMA TotalTaken ==
  ASSUME NEW q \in Seq(LaneEvents), q # <<>>
  PROVE  TotalBytes(LaneSizesOf(q)) = TotalBytes(LaneSizesOf(Tail(q))) + Head(q).bytes
<1> DEFINE g == LaneSizesOf(q)  t == LaneSizesOf(Tail(q))  f == [i \in 2 .. Len(q) |-> q[i].bytes]
<1>1. Len(q) \in Nat \ {0} /\ DOMAIN q = 1 .. Len(q) /\ Head(q) = q[1] /\ Head(q) \in LaneEvents
  BY EmptySeq, LenProperties, HeadTailProperties
<1>2. /\ Tail(q) \in Seq(LaneEvents) /\ Len(Tail(q)) = Len(q) - 1
      /\ \A i \in 1 .. Len(q) - 1 : Tail(q)[i] = q[i + 1]
  BY HeadTailProperties
<1>3. DOMAIN t = 1 .. Len(q) - 1 /\ DOMAIN Tail(q) = 1 .. Len(q) - 1 /\ DOMAIN g = 1 .. Len(q)
  BY <1>1, <1>2, LenProperties DEF LaneSizesOf
<1>4. \A i \in 1 .. Len(q) - 1 : t[i] = f[i + 1]
  BY <1>1, <1>2, <1>3 DEF LaneSizesOf
<1>5. /\ Len(q) - 1 \in Nat /\ DOMAIN f = 2 .. (Len(q) - 1) + 1 /\ 1 .. Len(q) = (2 .. Len(q)) \cup {1}
      /\ 1 \notin 2 .. Len(q) /\ IsFiniteSet(2 .. Len(q)) /\ DOMAIN f = 2 .. Len(q)
  BY <1>1, FS_Interval
<1>6. g[1] = Head(q).bytes /\ g[1] \in 0 .. LaneMaxEventBytes /\ \A y \in 2 .. Len(q) : g[y] = f[y]
  BY <1>1, <1>5 DEF LaneSizesOf, LaneEvents
<1> HIDE DEF f, g, t
<1>7. TotalBytes(t) = TotalBytes(f)
  BY <1>3, <1>4, <1>5, TotalShift
<1>8. TotalBytes(g) = TotalBytes(f) + g[1]
  <2>1. LaneAdds(f, g, 1)
    BY <1>3, <1>5, <1>6 DEF LaneAdds
  <2> QED
    BY <2>1, TotalAdd
<1> QED
  BY <1>6, <1>7, <1>8 DEF g, t

LaneSenders == [LaneProducers -> [at : {"idle", "reserved"}, event : LaneEvents]]

LEMMA TotalHeld ==
  ASSUME NEW s, NEW l
  PROVE  TotalBytes(LaneHeldBy(s, l)) \in Nat
<1>1. DOMAIN LaneHeldBy(s, l) \in SUBSET LaneProducers
  BY DEF LaneHeldBy
<1>2. IsFiniteSet(DOMAIN LaneHeldBy(s, l))
  BY <1>1, FS_Subset, LaneAssumption
<1> QED
  BY <1>2, TotalNat

LaneJoins(s, r, p, e) == s \in LaneSenders /\ s[p].at = "idle" /\ r = [s EXCEPT ![p] = At("reserved", e)]
LEMMA TotalJoined ==
  ASSUME NEW s, NEW r, NEW p \in LaneProducers, NEW e \in LaneEvents, LaneJoins(s, r, p, e)
  PROVE  /\ TotalBytes(LaneHeldBy(r, e.lane)) = TotalBytes(LaneHeldBy(s, e.lane)) + e.bytes
         /\ \A l : l # e.lane => LaneHeldBy(r, l) = LaneHeldBy(s, l)
<1> DEFINE f == LaneHeldBy(s, e.lane)  g == LaneHeldBy(r, e.lane)
<1>1. /\ r[p].at = "reserved" /\ r[p].event = e /\ \A x \in LaneProducers : x # p => r[x] = s[x]
  BY DEF LaneSenders, At, LaneJoins
<1>2. DOMAIN f \in SUBSET LaneProducers /\ IsFiniteSet(DOMAIN f)
  <2>1. DOMAIN f \in SUBSET LaneProducers
    BY DEF LaneHeldBy
  <2> QED
    BY <2>1, FS_Subset, LaneAssumption
<1>3. DOMAIN g = (DOMAIN f) \cup {p} /\ p \notin DOMAIN f
  BY <1>1 DEF LaneHeldBy, LaneJoins
<1>4. g[p] = e.bytes /\ e.bytes \in 0 .. LaneMaxEventBytes
  BY <1>1 DEF LaneHeldBy, LaneEvents
<1>5. \A y \in DOMAIN f : g[y] = f[y]
  BY <1>1, <1>3 DEF LaneHeldBy
<1>6. \A l : l # e.lane => LaneHeldBy(r, l) = LaneHeldBy(s, l)
  <2> SUFFICES ASSUME NEW l, l # e.lane PROVE LaneHeldBy(r, l) = LaneHeldBy(s, l)
    OBVIOUS
  <2>1. {x \in LaneProducers : r[x].at = "reserved" /\ r[x].event.lane = l}
          = {x \in LaneProducers : s[x].at = "reserved" /\ s[x].event.lane = l}
    BY <1>1 DEF LaneJoins
  <2>2. \A x \in {x \in LaneProducers : s[x].at = "reserved" /\ s[x].event.lane = l} : r[x] = s[x]
    BY <1>1 DEF LaneJoins
  <2> QED
    BY <2>1, <2>2 DEF LaneHeldBy
<1> HIDE DEF f, g
<1>7. LaneAdds(f, g, p)
  BY <1>2, <1>3, <1>4, <1>5 DEF LaneAdds
<1>8. TotalBytes(g) = TotalBytes(f) + e.bytes
  BY <1>4, <1>7, TotalAdd
<1> QED
  BY <1>6, <1>8 DEF f, g

LaneLeaves(s, r, p) == s \in LaneSenders /\ s[p].at = "reserved" /\ r = [s EXCEPT ![p] = LaneIdle]
LEMMA TotalLeft ==
  ASSUME NEW s, NEW r, NEW p \in LaneProducers, LaneLeaves(s, r, p)
  PROVE  /\ r \in LaneSenders
         /\ TotalBytes(LaneHeldBy(s, s[p].event.lane)) = TotalBytes(LaneHeldBy(r, s[p].event.lane)) + s[p].event.bytes
         /\ \A l : l # s[p].event.lane => LaneHeldBy(r, l) = LaneHeldBy(s, l)
<1>1. LaneIdle \in [at : {"idle", "reserved"}, event : LaneEvents] /\ LaneIdle.at = "idle"
  BY LaneAssumption DEF LaneIdle, At, NoEvent, Event, LaneEvents, Lanes
<1>2. r \in LaneSenders /\ r[p].at = "idle" /\ s[p].event \in LaneEvents
  BY <1>1 DEF LaneSenders, LaneLeaves
<1>3. s[p] = At("reserved", s[p].event)
  BY DEF LaneSenders, At, LaneLeaves
<1>4. s = [r EXCEPT ![p] = At("reserved", s[p].event)]
  BY <1>3 DEF LaneSenders, LaneLeaves
<1> QED
  <2>1. LaneJoins(r, s, p, s[p].event)
    BY <1>2, <1>4 DEF LaneJoins
  <2> QED
    BY <1>2, <2>1, TotalJoined

-----------------------------------------------------------------------------
(* Event lanes: the order of results                                       *)

LEMMA NumbersSeq ==
  ASSUME NEW q \in Seq(LaneEvents)
  PROVE  LaneNumbersOf(q) \in Seq(Nat) /\ Len(LaneNumbersOf(q)) = Len(q) /\ \A i \in 1 .. Len(q) : LaneNumbersOf(q)[i] = q[i].n
<1>1. Len(q) \in Nat /\ DOMAIN q = 1 .. Len(q) /\ \A i \in 1 .. Len(q) : q[i] \in LaneEvents
  BY LenProperties, ElementOfSeq
<1>2. \A i \in 1 .. Len(q) : q[i].n \in Nat
  BY <1>1 DEF LaneEvents
<1> QED
  BY <1>1, <1>2 DEF LaneNumbersOf

LEMMA NumbersAppended ==
  ASSUME NEW q \in Seq(LaneEvents), NEW e \in LaneEvents
  PROVE  LaneNumbersOf(Append(q, e)) = Append(LaneNumbersOf(q), e.n)
<1> DEFINE a == LaneNumbersOf(Append(q, e))  b == Append(LaneNumbersOf(q), e.n)
<1>1. e.n \in Nat /\ Len(q) \in Nat
  BY LenProperties DEF LaneEvents
<1>2. /\ Append(q, e) \in Seq(LaneEvents) /\ Len(Append(q, e)) = Len(q) + 1
      /\ \A i \in 1 .. Len(q) : Append(q, e)[i] = q[i]
      /\ Append(q, e)[Len(q) + 1] = e
  BY AppendProperties
<1>3. /\ LaneNumbersOf(q) \in Seq(Nat) /\ Len(LaneNumbersOf(q)) = Len(q)
      /\ \A i \in 1 .. Len(q) : LaneNumbersOf(q)[i] = q[i].n
  BY NumbersSeq
<1>4. /\ a \in Seq(Nat) /\ Len(a) = Len(q) + 1 /\ \A i \in 1 .. Len(q) + 1 : a[i] = Append(q, e)[i].n
  BY <1>2, NumbersSeq
<1>5. /\ b \in Seq(Nat) /\ Len(b) = Len(q) + 1 /\ b[Len(q) + 1] = e.n
      /\ \A i \in 1 .. Len(q) : b[i] = LaneNumbersOf(q)[i]
  BY <1>1, <1>3, AppendProperties
<1> HIDE DEF a, b
<1>6. \A i \in 1 .. Len(q) + 1 : a[i] = b[i]
  <2> SUFFICES ASSUME NEW i \in 1 .. Len(q) + 1 PROVE a[i] = b[i]
    OBVIOUS
  <2>1. i \in 1 .. Len(q) \/ i = Len(q) + 1
    BY <1>1
  <2> QED
    BY <1>2, <1>3, <1>4, <1>5, <2>1
<1> QED
  BY <1>4, <1>5, <1>6, SeqEqual DEF a, b

LEMMA NumbersTaken ==
  ASSUME NEW q \in Seq(LaneEvents), q # <<>>, NEW r \in Seq(Nat)
  PROVE  /\ Append(r, Head(q).n) \o LaneNumbersOf(Tail(q)) = r \o LaneNumbersOf(q)
         /\ Append(r, Head(q).n) \in Seq(Nat)
<1> DEFINE a == Append(r, Head(q).n)  t == LaneNumbersOf(Tail(q))  b == LaneNumbersOf(q)
<1>1. /\ Len(q) \in Nat \ {0} /\ Head(q) = q[1] /\ Head(q).n \in Nat /\ Len(r) \in Nat
      /\ Tail(q) \in Seq(LaneEvents) /\ Len(Tail(q)) = Len(q) - 1
      /\ \A i \in 1 .. Len(q) - 1 : Tail(q)[i] = q[i + 1]
  <2>1. Len(q) \in Nat \ {0} /\ Len(r) \in Nat
    BY EmptySeq, LenProperties
  <2>2. Head(q) = q[1] /\ Head(q) \in LaneEvents
    BY HeadTailProperties
  <2>3. Tail(q) \in Seq(LaneEvents) /\ Len(Tail(q)) = Len(q) - 1 /\ \A i \in 1 .. Len(Tail(q)) : Tail(q)[i] = q[i + 1]
    BY HeadTailProperties
  <2> QED
    BY <2>1, <2>2, <2>3 DEF LaneEvents
<1>2. /\ a \in Seq(Nat) /\ Len(a) = Len(r) + 1 /\ a[Len(r) + 1] = q[1].n /\ \A i \in 1 .. Len(r) : a[i] = r[i]
  BY <1>1, AppendProperties
<1>3. /\ b \in Seq(Nat) /\ Len(b) = Len(q) /\ \A i \in 1 .. Len(q) : b[i] = q[i].n
      /\ t \in Seq(Nat) /\ Len(t) = Len(q) - 1 /\ \A i \in 1 .. Len(q) - 1 : t[i] = Tail(q)[i].n
  BY <1>1, NumbersSeq
<1> HIDE DEF a, b, t
<1>4. /\ a \o t \in Seq(Nat) /\ Len(a \o t) = Len(r) + Len(q)
      /\ \A i \in 1 .. Len(r) + Len(q) : (a \o t)[i] = IF i <= Len(r) + 1 THEN a[i] ELSE t[i - (Len(r) + 1)]
  <2>1. /\ a \o t \in Seq(Nat) /\ Len(a \o t) = Len(a) + Len(t)
        /\ \A i \in 1 .. Len(a) + Len(t) : (a \o t)[i] = IF i <= Len(a) THEN a[i] ELSE t[i - Len(a)]
    <3>1. a \in Seq(Nat) /\ t \in Seq(Nat)
      BY <1>2, <1>3
    <3> QED
      BY <3>1, ConcatProperties
  <2>2. Len(a) = Len(r) + 1 /\ Len(a) + Len(t) = Len(r) + Len(q)
    BY <1>1, <1>2, <1>3
  <2> QED
    BY <2>1, <2>2
<1>5. /\ r \o b \in Seq(Nat) /\ Len(r \o b) = Len(r) + Len(q)
      /\ \A i \in 1 .. Len(r) + Len(q) : (r \o b)[i] = IF i <= Len(r) THEN r[i] ELSE b[i - Len(r)]
  <2>1. /\ r \o b \in Seq(Nat) /\ Len(r \o b) = Len(r) + Len(b)
        /\ \A i \in 1 .. Len(r) + Len(b) : (r \o b)[i] = IF i <= Len(r) THEN r[i] ELSE b[i - Len(r)]
    <3>1. b \in Seq(Nat)
      BY <1>3
    <3> QED
      BY <3>1, ConcatProperties
  <2>2. Len(b) = Len(q)
    BY <1>3
  <2> QED
    BY <2>1, <2>2
<1>6. \A i \in 1 .. Len(r) + Len(q) : (a \o t)[i] = (r \o b)[i]
  <2> SUFFICES ASSUME NEW i \in 1 .. Len(r) + Len(q) PROVE (a \o t)[i] = (r \o b)[i]
    OBVIOUS
  <2>1. CASE i <= Len(r)
    BY <1>1, <1>2, <1>4, <1>5, <2>1
  <2>2. CASE i = Len(r) + 1
    BY <1>1, <1>2, <1>3, <1>4, <1>5, <2>2
  <2>3. CASE i > Len(r) + 1
    <3>1. i - (Len(r) + 1) \in 1 .. Len(q) - 1 /\ i - Len(r) \in 1 .. Len(q) /\ i - Len(r) = (i - (Len(r) + 1)) + 1
      BY <1>1, <2>3
    <3>2. (a \o t)[i] = t[i - (Len(r) + 1)] /\ (r \o b)[i] = b[i - Len(r)]
      BY <1>1, <1>4, <1>5, <2>3
    <3> QED
      BY <1>1, <1>3, <3>1, <3>2
  <2>4. i <= Len(r) \/ i = Len(r) + 1 \/ i > Len(r) + 1
    BY <1>1
  <2> QED
    BY <2>1, <2>2, <2>3, <2>4
<1>7. a \o t = r \o b
  BY <1>4, <1>5, <1>6, SeqEqual
<1> QED
  BY <1>2, <1>7 DEF a, b, t

-----------------------------------------------------------------------------
(* Event lanes: one lemma per action                                       *)

LEMMA LaneFacts ==
  ASSUME LaneTyped
  PROVE  \A l \in Lanes :
           /\ TotalBytes(LaneSizesOf(laneQueue[l])) \in Nat /\ TotalBytes(LaneHeldBy(laneSender, l)) \in Nat
           /\ LaneWorkerHas(laneWorker, l) \in Nat /\ laneBytes[l] \in Nat /\ laneQueue[l] \in Seq(LaneEvents)
           /\ LaneByteLimit[l] \in Nat
<1>0. LaneMaxEventBytes \in Nat
  BY LaneAssumption
<1>1. laneWorker.event.bytes \in 0 .. LaneMaxEventBytes
  BY DEF LaneTyped, LaneEvents
<1>2. laneWorker.event.bytes \in Nat
  BY <1>0, <1>1
<1>3. \A l \in Lanes : laneQueue[l] \in Seq(LaneEvents) /\ laneBytes[l] \in Nat /\ LaneByteLimit[l] \in Nat
  BY LaneAssumption DEF LaneTyped
<1>4. \A l \in Lanes : TotalBytes(LaneSizesOf(laneQueue[l])) \in Nat
  BY <1>3, TotalQueued
<1> QED
  BY <1>2, <1>3, <1>4, TotalHeld DEF LaneWorkerHas

LEMMA LaneSame ==
  ASSUME LaneTyped
  PROVE  (LaneBytesExact <=> LaneCounts) /\ (ResultsKept <=> LaneOrder)
<1>1. \A l \in Lanes : BytesIn(l) = TotalBytes(LaneSizesOf(laneQueue[l]))
  BY DEF BytesIn, LaneSizesOf
<1>2. \A l \in Lanes : Reserving(l) = TotalBytes(LaneHeldBy(laneSender, l)) + LaneWorkerHas(laneWorker, l)
  BY DEF Reserving, LaneHeldBy, LaneWorkerHas
<1>3. \A l \in Lanes : BytesIn(l) + Reserving(l) = LaneSum(laneQueue, laneSender, laneWorker, l)
  BY <1>1, <1>2, LaneFacts DEF LaneSum
<1>4. LaneBytesExact <=> LaneCounts
  BY <1>3 DEF LaneBytesExact, LaneCounts
<1>5. ResultsKept <=> LaneOrder
  BY DEF ResultsKept, LaneOrder, LaneNumbersOf
<1> QED
  BY <1>4, <1>5

LEMMA LaneRing ==
  /\ NextLane("result") = "control" /\ NextLane("control") = "data" /\ NextLane("data") = "result"
  /\ \A l \in Lanes : NextLane(l) \in Lanes /\ NextLane(l) # l /\ NextLane(NextLane(l)) # l
                      /\ NextLane(NextLane(NextLane(l))) = l
BY DEF NextLane, Lanes

LEMMA LaneNoEvent == NoEvent \in LaneEvents /\ NoEvent.lane # "result" /\ NoEvent.bytes = 0
BY LaneAssumption DEF NoEvent, Event, LaneEvents, Lanes

\* The sum of one lane changes by d, and its counter with it.
LaneSumMoves(lane, d) ==
  /\ LaneSum(laneQueue', laneSender', laneWorker', lane) = LaneSum(laneQueue, laneSender, laneWorker, lane) + d
  /\ \A l \in Lanes : l # lane =>
       LaneSum(laneQueue', laneSender', laneWorker', l) = LaneSum(laneQueue, laneSender, laneWorker, l)
LaneMoves(lane, d) ==
  /\ laneBytes'[lane] = laneBytes[lane] + d /\ laneBytes[lane] + d <= LaneByteLimit[lane]
  /\ \A l \in Lanes : l # lane => laneBytes'[l] = laneBytes[l]
  /\ LaneSumMoves(lane, d)
LEMMA LaneCountsMove ==
  ASSUME LaneTyped, LaneCounts, NEW lane \in Lanes, NEW d \in Int, LaneMoves(lane, d)
  PROVE  LaneCounts'
BY DEF LaneCounts, LaneTyped, LaneMoves, LaneSumMoves

\* The sum of a lane, its three parts being numbers.
LEMMA LaneSumIs ==
  ASSUME LaneTyped, NEW l \in Lanes
  PROVE  \E a, b, c \in Nat :
           /\ a = TotalBytes(LaneSizesOf(laneQueue[l])) /\ b = TotalBytes(LaneHeldBy(laneSender, l))
           /\ c = LaneWorkerHas(laneWorker, l) /\ LaneSum(laneQueue, laneSender, laneWorker, l) = a + b + c
<1>1. /\ TotalBytes(LaneSizesOf(laneQueue[l])) \in Nat /\ TotalBytes(LaneHeldBy(laneSender, l)) \in Nat
      /\ LaneWorkerHas(laneWorker, l) \in Nat
  BY LaneFacts
<1> QED
  BY <1>1 DEF LaneSum
LEMMA LaneCountsStay ==
  ASSUME LaneCounts, UNCHANGED laneBytes, \A l \in Lanes : LaneSum(laneQueue', laneSender', laneWorker', l) = LaneSum(laneQueue, laneSender, laneWorker, l)
  PROVE  LaneCounts'
BY DEF LaneCounts

\* Who waits is not overtaken by a step that receives nothing.
LEMMA LaneTurnsKept ==
  ASSUME LaneTurns, UNCHANGED <<laneSchedule, laneOvertaken>>, laneAsleep' => laneAsleep,
         \A l \in Lanes : laneQueue'[l] = <<>> => laneQueue[l] = <<>>
  PROVE  LaneTurns'
BY DEF LaneTurns

LEMMA SendReserveInv ==
  ASSUME LaneInv, NEW p \in LaneProducers, NEW lane \in Lanes, NEW bytes \in LaneSizes,
         SendReserve(p, lane, bytes), UNCHANGED laneAsleep
  PROVE  LaneInv'
<1> DEFINE e == Event(lane, bytes, 0)
<1>0. LaneTyped /\ LaneCounts /\ LaneOrder /\ LaneTurns
  BY DEF LaneInv
<1>1. e \in LaneEvents /\ e.lane = lane /\ e.bytes = bytes /\ lane # "result" /\ bytes \in Nat
  BY LaneAssumption DEF SendReserve, Event, LaneEvents, LaneSizes
<1> HIDE DEF e
<1>2. /\ laneSender \in LaneSenders /\ laneSender[p].at = "idle" /\ laneMade' = laneMade + 1
      /\ laneBytes' = [laneBytes EXCEPT ![lane] = @ + bytes]
      /\ laneSender' = [laneSender EXCEPT ![p] = At("reserved", e)]
      /\ laneBytes[lane] + bytes <= LaneByteLimit[lane]
      /\ UNCHANGED <<laneQueue, laneWorker, laneSchedule, laneAsleep, laneOpen, laneResults, laneReceived, laneOvertaken>>
  BY <1>0 DEF SendReserve, CanReserve, LaneTyped, LaneSenders, e
<1>3. laneSender' \in LaneSenders /\ laneSender'[p].event = e /\ \A x \in LaneProducers : x # p => laneSender'[x] = laneSender[x]
  BY <1>1, <1>2 DEF LaneSenders, At
<1>4. laneBytes' \in [Lanes -> Nat] /\ laneBytes'[lane] = laneBytes[lane] + bytes
      /\ \A l \in Lanes : l # lane => laneBytes'[l] = laneBytes[l]
  BY <1>0, <1>1, <1>2 DEF LaneTyped
<1>5. LaneTyped'
  BY <1>0, <1>1, <1>2, <1>3, <1>4 DEF LaneTyped, LaneSenders
<1>6. LaneCounts'
  <2>0. LaneJoins(laneSender, laneSender', p, e)
    BY <1>2 DEF LaneJoins
  <2>1. TotalBytes(LaneHeldBy(laneSender', lane)) = TotalBytes(LaneHeldBy(laneSender, lane)) + bytes
        /\ \A l : l # lane => LaneHeldBy(laneSender', l) = LaneHeldBy(laneSender, l)
    BY <1>1, <2>0, TotalJoined
  <2>2. LaneWorkerHas(laneWorker, lane) = 0 /\ LaneWorkerHas(laneWorker', lane) = 0 /\ \A l \in Lanes : LaneWorkerHas(laneWorker', l) = LaneWorkerHas(laneWorker, l)
    BY <1>1, <1>2 DEF LaneWorkerHas
  <2>3. LaneSum(laneQueue', laneSender', laneWorker', lane) = LaneSum(laneQueue, laneSender, laneWorker, lane) + bytes
    <3>1. PICK a, b, c \in Nat :
            /\ a = TotalBytes(LaneSizesOf(laneQueue[lane])) /\ b = TotalBytes(LaneHeldBy(laneSender, lane))
            /\ c = LaneWorkerHas(laneWorker, lane) /\ LaneSum(laneQueue, laneSender, laneWorker, lane) = a + b + c
      BY <1>0, LaneSumIs
    <3>2. LaneSum(laneQueue', laneSender', laneWorker', lane) = a + (b + bytes) + c
      BY <1>2, <2>1, <2>2, <3>1 DEF LaneSum
    <3> QED
      BY <1>1, <3>1, <3>2
  <2>4. \A l \in Lanes : l # lane =>
          LaneSum(laneQueue', laneSender', laneWorker', l) = LaneSum(laneQueue, laneSender, laneWorker, l)
    BY <1>2, <2>1, <2>2 DEF LaneSum
  <2>5. LaneMoves(lane, bytes)
    BY <1>2, <1>4, <2>3, <2>4 DEF LaneMoves, LaneSumMoves
  <2>6. bytes \in Int
    BY <1>1
  <2> QED
    BY <1>0, <2>5, <2>6, LaneCountsMove
<1>7. LaneOrder'
  BY <1>0, <1>2 DEF LaneOrder
<1>8. LaneTurns'
  BY <1>0, <1>2, LaneTurnsKept
<1> QED
  BY <1>5, <1>6, <1>7, <1>8 DEF LaneInv

LEMMA SendPushInv ==
  ASSUME LaneInv, NEW p \in LaneProducers, SendPush(p), UNCHANGED laneAsleep
  PROVE  LaneInv'
<1> DEFINE e == laneSender[p].event
<1>0. LaneTyped /\ LaneCounts /\ LaneOrder /\ LaneTurns
  BY DEF LaneInv
<1>1. /\ laneSender \in LaneSenders /\ laneSender[p].at = "reserved" /\ e \in LaneEvents /\ e.lane \in Lanes
      /\ e.lane # "result" /\ e.bytes \in Nat
      /\ laneSender' = [laneSender EXCEPT ![p] = LaneIdle]
      /\ UNCHANGED <<laneWorker, laneSchedule, laneAsleep, laneOpen, laneMade, laneResults, laneReceived, laneOvertaken>>
  <2>1. laneSender \in LaneSenders /\ e.lane # "result"
    BY <1>0 DEF LaneTyped, LaneSenders
  <2>2. e \in LaneEvents /\ e.lane \in Lanes /\ e.bytes \in Nat
    BY <2>1, LaneAssumption DEF LaneSenders, LaneEvents
  <2> QED
    BY <2>1, <2>2 DEF SendPush
<1>2. /\ laneSender' \in LaneSenders
      /\ TotalBytes(LaneHeldBy(laneSender, e.lane)) = TotalBytes(LaneHeldBy(laneSender', e.lane)) + e.bytes
      /\ \A l : l # e.lane => LaneHeldBy(laneSender', l) = LaneHeldBy(laneSender, l)
      /\ \A x \in LaneProducers : laneSender'[x].event.lane # "result"
  <2>1. \A x \in LaneProducers : laneSender'[x] = IF x = p THEN LaneIdle ELSE laneSender[x]
    BY <1>1 DEF LaneSenders
  <2>2. LaneIdle.event.lane # "result"
    BY LaneNoEvent DEF LaneIdle, At
  <2>3. \A x \in LaneProducers : laneSender'[x].event.lane # "result"
    BY <1>0, <2>1, <2>2 DEF LaneTyped
  <2>4. LaneLeaves(laneSender, laneSender', p)
    BY <1>1 DEF LaneLeaves
  <2>5. /\ laneSender' \in LaneSenders
        /\ TotalBytes(LaneHeldBy(laneSender, e.lane)) = TotalBytes(LaneHeldBy(laneSender', e.lane)) + e.bytes
        /\ \A l : l # e.lane => LaneHeldBy(laneSender', l) = LaneHeldBy(laneSender, l)
    BY <2>4, TotalLeft
  <2> QED
    BY <2>3, <2>5
<1>3. \A l \in Lanes : TotalBytes(LaneHeldBy(laneSender', l)) \in Nat
  BY TotalHeld
<1>4. \A l \in Lanes : LaneWorkerHas(laneWorker', l) = LaneWorkerHas(laneWorker, l)
  BY <1>1 DEF LaneWorkerHas
<1>5. CASE /\ laneOpen /\ Len(laneQueue[e.lane]) < LaneCapacity[e.lane]
           /\ laneQueue' = [laneQueue EXCEPT ![e.lane] = Append(@, e)] /\ UNCHANGED laneBytes
  <2>1. laneQueue[e.lane] \in Seq(LaneEvents) /\ laneQueue \in [Lanes -> Seq(LaneEvents)]
    BY <1>0, <1>1 DEF LaneTyped
  <2>2. Append(laneQueue[e.lane], e) \in Seq(LaneEvents) /\ Append(laneQueue[e.lane], e) # <<>>
        /\ Len(Append(laneQueue[e.lane], e)) = Len(laneQueue[e.lane]) + 1
    BY <1>1, <2>1, AppendProperties
  <2>3. /\ laneQueue' \in [Lanes -> Seq(LaneEvents)] /\ laneQueue'[e.lane] = Append(laneQueue[e.lane], e)
        /\ \A l \in Lanes : l # e.lane => laneQueue'[l] = laneQueue[l]
    BY <1>1, <1>5, <2>1, <2>2
  <2>4. \A l \in Lanes : Len(laneQueue'[l]) <= LaneCapacity[l]
    <3>1. Len(laneQueue[e.lane]) \in Nat /\ LaneCapacity[e.lane] \in Nat
      BY <1>1, <2>1, LenProperties, LaneAssumption
    <3> QED
      BY <1>0, <1>5, <2>2, <2>3, <3>1 DEF LaneTyped
  <2>5. LaneTyped'
    BY <1>0, <1>1, <1>2, <1>5, <2>3, <2>4 DEF LaneTyped, LaneSenders
  <2>6. LaneCounts'
    <3>1. TotalBytes(LaneSizesOf(laneQueue'[e.lane])) = TotalBytes(LaneSizesOf(laneQueue[e.lane])) + e.bytes
      BY <1>1, <2>1, <2>3, TotalAppended
    <3>2. LaneSum(laneQueue', laneSender', laneWorker', e.lane) = LaneSum(laneQueue, laneSender, laneWorker, e.lane)
      <4>1. PICK a, b, c \in Nat :
              /\ a = TotalBytes(LaneSizesOf(laneQueue[e.lane])) /\ b = TotalBytes(LaneHeldBy(laneSender, e.lane))
              /\ c = LaneWorkerHas(laneWorker, e.lane) /\ LaneSum(laneQueue, laneSender, laneWorker, e.lane) = a + b + c
        BY <1>0, <1>1, LaneSumIs
      <4>2. PICK h \in Nat : h = TotalBytes(LaneHeldBy(laneSender', e.lane))
        BY <1>1, <1>3
      <4>3. b = h + e.bytes
        BY <1>2, <4>1, <4>2
      <4>4. LaneSum(laneQueue', laneSender', laneWorker', e.lane) = (a + e.bytes) + h + c
        BY <1>1, <1>4, <3>1, <4>1, <4>2 DEF LaneSum
      <4> QED
        BY <1>1, <4>1, <4>3, <4>4
    <3>3. \A l \in Lanes : l # e.lane => LaneSum(laneQueue', laneSender', laneWorker', l) = LaneSum(laneQueue, laneSender, laneWorker, l)
      BY <1>2, <1>4, <2>3 DEF LaneSum
    <3> QED
      BY <1>0, <1>5, <3>2, <3>3, LaneCountsStay
  <2>7. LaneOrder'
    <3>1. laneQueue'["result"] = laneQueue["result"]
      BY <1>1, <2>3 DEF Lanes
    <3> QED
      BY <1>0, <1>1, <3>1 DEF LaneOrder
  <2>8. LaneTurns'
    BY <1>0, <1>1, <2>2, <2>3, LaneTurnsKept
  <2> QED
    BY <2>5, <2>6, <2>7, <2>8 DEF LaneInv
<1>6. CASE laneBytes' = [laneBytes EXCEPT ![e.lane] = @ - e.bytes] /\ UNCHANGED laneQueue
  <2>1. laneBytes[e.lane] - e.bytes \in Nat /\ laneBytes[e.lane] \in Nat /\ laneBytes[e.lane] <= LaneByteLimit[e.lane]
        /\ LaneByteLimit[e.lane] \in Nat
    <3>1. laneBytes[e.lane] = LaneSum(laneQueue, laneSender, laneWorker, e.lane) /\ laneBytes[e.lane] <= LaneByteLimit[e.lane]
      BY <1>0, <1>1 DEF LaneCounts
    <3>2. PICK a, b, c \in Nat :
            /\ a = TotalBytes(LaneSizesOf(laneQueue[e.lane])) /\ b = TotalBytes(LaneHeldBy(laneSender, e.lane))
            /\ c = LaneWorkerHas(laneWorker, e.lane) /\ LaneSum(laneQueue, laneSender, laneWorker, e.lane) = a + b + c
      BY <1>0, <1>1, LaneSumIs
    <3>3. PICK h \in Nat : h = TotalBytes(LaneHeldBy(laneSender', e.lane))
      BY <1>1, <1>3
    <3>4. b = h + e.bytes
      BY <1>2, <3>2, <3>3
    <3>5. LaneByteLimit[e.lane] \in Nat
      BY <1>1, LaneAssumption
    <3> QED
      BY <1>1, <3>1, <3>2, <3>4, <3>5
  <2>2. /\ laneBytes' \in [Lanes -> Nat] /\ laneBytes'[e.lane] = laneBytes[e.lane] - e.bytes
        /\ \A l \in Lanes : l # e.lane => laneBytes'[l] = laneBytes[l]
    BY <1>0, <1>1, <1>6, <2>1 DEF LaneTyped
  <2>3. LaneTyped'
    BY <1>0, <1>1, <1>2, <1>6, <2>2 DEF LaneTyped, LaneSenders
  <2>4. LaneCounts'
    <3>1. LaneSum(laneQueue', laneSender', laneWorker', e.lane) = LaneSum(laneQueue, laneSender, laneWorker, e.lane) + (0 - e.bytes)
      <4>1. PICK a, b, c \in Nat :
              /\ a = TotalBytes(LaneSizesOf(laneQueue[e.lane])) /\ b = TotalBytes(LaneHeldBy(laneSender, e.lane))
              /\ c = LaneWorkerHas(laneWorker, e.lane) /\ LaneSum(laneQueue, laneSender, laneWorker, e.lane) = a + b + c
        BY <1>0, <1>1, LaneSumIs
      <4>2. PICK h \in Nat : h = TotalBytes(LaneHeldBy(laneSender', e.lane))
        BY <1>1, <1>3
      <4>3. b = h + e.bytes
        BY <1>2, <4>1, <4>2
      <4>4. LaneSum(laneQueue', laneSender', laneWorker', e.lane) = a + h + c
        BY <1>1, <1>4, <1>6, <4>1, <4>2 DEF LaneSum
      <4> QED
        BY <1>1, <4>1, <4>3, <4>4
    <3>2. \A l \in Lanes : l # e.lane => LaneSum(laneQueue', laneSender', laneWorker', l) = LaneSum(laneQueue, laneSender, laneWorker, l)
      BY <1>2, <1>4, <1>6 DEF LaneSum
    <3>3. laneBytes'[e.lane] = laneBytes[e.lane] + (0 - e.bytes)
      BY <1>1, <2>1, <2>2
    <3>4. (0 - e.bytes) \in Int /\ laneBytes[e.lane] + (0 - e.bytes) <= LaneByteLimit[e.lane]
      BY <1>1, <2>1
    <3>5. LaneMoves(e.lane, 0 - e.bytes)
      BY <2>2, <3>1, <3>2, <3>3, <3>4 DEF LaneMoves, LaneSumMoves
    <3>6. PICK lane \in Lanes, d \in Int : LaneMoves(lane, d)
      BY <1>1, <3>4, <3>5
    <3> QED
      BY <1>0, <3>6, LaneCountsMove
  <2>5. LaneOrder'
    BY <1>0, <1>1, <1>6 DEF LaneOrder
  <2>6. LaneTurns'
    BY <1>0, <1>1, <1>6, LaneTurnsKept
  <2> QED
    BY <2>3, <2>4, <2>5, <2>6 DEF LaneInv
<1> QED
  BY <1>5, <1>6 DEF SendPush, ReleaseBytes

-----------------------------------------------------------------------------
(* Event lanes: the command worker                                         *)

LEMMA NumbersEmitted ==
  ASSUME NEW s \in Seq(Nat), NEW n \in Nat
  PROVE  Append(s \o <<>>, n) = s \o <<n>> /\ Append(s, n) \in Seq(Nat)
<1>1. s \o <<>> = s
  BY ConcatEmptySeq
<1>2. Append(s, n) = s \o <<n>>
  BY AppendIsConcat
<1> QED
  BY <1>1, <1>2, AppendProperties

LEMMA NumbersPushed ==
  ASSUME NEW r \in Seq(Nat), NEW b \in Seq(Nat), NEW n \in Nat
  PROVE  r \o Append(b, n) \o <<>> = r \o b \o <<n>>
<1>1. Append(b, n) = b \o <<n>> /\ Append(b, n) \in Seq(Nat) /\ <<n>> \in Seq(Nat)
  BY AppendIsConcat, AppendProperties
<1>2. r \o (b \o <<n>>) = r \o b \o <<n>>
  BY <1>1, ConcatAssociative
<1>3. r \o Append(b, n) \in Seq(Nat)
  BY <1>1, ConcatProperties
<1>4. r \o Append(b, n) \o <<>> = r \o Append(b, n)
  BY <1>3, ConcatEmptySeq
<1> QED
  BY <1>1, <1>2, <1>4

LEMMA EmitResultInv ==
  ASSUME LaneInv, NEW bytes \in LaneSizes, EmitResult(bytes), UNCHANGED laneAsleep
  PROVE  LaneInv'
<1> DEFINE e == Event("result", IF bytes > LaneMaxEventBytes THEN 1 ELSE bytes, laneMade + 1)
<1>0. LaneTyped /\ LaneCounts /\ LaneOrder /\ LaneTurns
  BY DEF LaneInv
<1>1. e \in LaneEvents /\ e.n \in Nat
  BY <1>0, LaneAssumption DEF Event, LaneEvents, LaneSizes, Lanes, LaneTyped
<1> HIDE DEF e
<1>2. /\ laneWorker.at = "idle" /\ laneMade' = laneMade + 1 /\ laneWorker' = At("waiting", e)
      /\ laneResults' = Append(laneResults, e.n)
      /\ UNCHANGED <<laneQueue, laneBytes, laneSender, laneSchedule, laneAsleep, laneOpen, laneReceived, laneOvertaken>>
  BY DEF EmitResult, e
<1>3. laneWorker'.at = "waiting" /\ laneWorker'.event = e
  BY <1>2 DEF At
<1>4. laneWorker' \in [at : {"idle", "waiting", "reserved", "stopped"}, event : LaneEvents]
  BY <1>1, <1>2 DEF At
<1>5. laneResults' \in Seq(Nat)
  BY <1>0, <1>1, <1>2, NumbersEmitted DEF LaneTyped
<1>6. LaneTyped'
  BY <1>0, <1>2, <1>4, <1>5 DEF LaneTyped
<1>7. LaneCounts'
  <2>1. \A l \in Lanes : LaneWorkerHas(laneWorker', l) = LaneWorkerHas(laneWorker, l)
    BY <1>2, <1>3 DEF LaneWorkerHas
  <2>2. \A l \in Lanes : LaneSum(laneQueue', laneSender', laneWorker', l) = LaneSum(laneQueue, laneSender, laneWorker, l)
    BY <1>2, <2>1 DEF LaneSum
  <2> QED
    BY <1>0, <1>2, <2>2, LaneCountsStay
<1>8. LaneOrder'
  <2>1. laneQueue["result"] \in Seq(LaneEvents) /\ laneReceived \in Seq(Nat)
    BY <1>0 DEF LaneTyped, Lanes
  <2>2. LaneNumbersOf(laneQueue["result"]) \in Seq(Nat)
    BY <2>1, NumbersSeq
  <2>3. PICK s : s = laneReceived \o LaneNumbersOf(laneQueue["result"])
    OBVIOUS
  <2>4. s \in Seq(Nat)
    BY <2>1, <2>2, <2>3, ConcatProperties
  <2>5. laneResults = s \o <<>>
    BY <1>0, <1>2, <2>3 DEF LaneOrder
  <2>6. laneResults' = s \o <<e.n>>
    BY <1>1, <1>2, <2>4, <2>5, NumbersEmitted
  <2>7. s = laneReceived' \o LaneNumbersOf(laneQueue'["result"])
    BY <1>2, <2>3
  <2> QED
    BY <1>3, <2>6, <2>7 DEF LaneOrder
<1>9. LaneTurns'
  BY <1>0, <1>2, LaneTurnsKept
<1> QED
  BY <1>6, <1>7, <1>8, <1>9 DEF LaneInv

LEMMA ResultReserveInv ==
  ASSUME LaneInv, ResultReserve, UNCHANGED laneAsleep
  PROVE  LaneInv'
<1>0. LaneTyped /\ LaneCounts /\ LaneOrder /\ LaneTurns
  BY DEF LaneInv
<1>1. PICK e \in LaneEvents : e = laneWorker.event
  BY <1>0 DEF LaneTyped
<1>2. /\ laneWorker.at = "waiting" /\ laneBytes["result"] + e.bytes <= LaneByteLimit["result"]
      /\ laneBytes' = [laneBytes EXCEPT !["result"] = @ + e.bytes] /\ laneWorker' = At("reserved", e)
      /\ UNCHANGED <<laneQueue, laneSender, laneSchedule, laneAsleep, laneOpen, laneMade, laneResults, laneReceived, laneOvertaken>>
  BY <1>1 DEF ResultReserve, CanReserve
<1>3. e.bytes \in Nat /\ "result" \in Lanes
  BY <1>1, LaneAssumption DEF LaneEvents, Lanes
<1>4. laneWorker'.at = "reserved" /\ laneWorker'.event = e
  BY <1>2 DEF At
<1>5. laneWorker' \in [at : {"idle", "waiting", "reserved", "stopped"}, event : LaneEvents]
  BY <1>1, <1>2 DEF At
<1>6. /\ laneBytes' \in [Lanes -> Nat] /\ laneBytes'["result"] = laneBytes["result"] + e.bytes
      /\ \A l \in Lanes : l # "result" => laneBytes'[l] = laneBytes[l]
  BY <1>0, <1>2, <1>3 DEF LaneTyped
<1>7. LaneTyped'
  BY <1>0, <1>2, <1>5, <1>6 DEF LaneTyped
<1>8. LaneCounts'
  <2>1. /\ LaneWorkerHas(laneWorker, "result") = 0 /\ LaneWorkerHas(laneWorker', "result") = e.bytes
        /\ \A l \in Lanes : l # "result" => LaneWorkerHas(laneWorker', l) = LaneWorkerHas(laneWorker, l)
    BY <1>2, <1>4 DEF LaneWorkerHas
  <2>2. PICK a, b, c \in Nat :
          /\ a = TotalBytes(LaneSizesOf(laneQueue["result"])) /\ b = TotalBytes(LaneHeldBy(laneSender, "result"))
          /\ c = LaneWorkerHas(laneWorker, "result") /\ LaneSum(laneQueue, laneSender, laneWorker, "result") = a + b + c
    BY <1>0, <1>3, LaneSumIs
  <2>3. LaneSum(laneQueue', laneSender', laneWorker', "result") = a + b + e.bytes
    BY <1>2, <2>1, <2>2 DEF LaneSum
  <2>4. LaneSum(laneQueue', laneSender', laneWorker', "result") = LaneSum(laneQueue, laneSender, laneWorker, "result") + e.bytes
    BY <1>3, <2>1, <2>2, <2>3
  <2>5. \A l \in Lanes : l # "result" =>
          LaneSum(laneQueue', laneSender', laneWorker', l) = LaneSum(laneQueue, laneSender, laneWorker, l)
    BY <1>2, <2>1 DEF LaneSum
  <2>6. LaneMoves("result", e.bytes) /\ e.bytes \in Int
    BY <1>2, <1>3, <1>6, <2>4, <2>5 DEF LaneMoves, LaneSumMoves
  <2> QED
    BY <1>0, <1>3, <2>6, LaneCountsMove
<1>9. LaneOrder'
  BY <1>0, <1>1, <1>2, <1>4 DEF LaneOrder
<1>10. LaneTurns'
  BY <1>0, <1>2, LaneTurnsKept
<1> QED
  BY <1>7, <1>8, <1>9, <1>10 DEF LaneInv

LEMMA ResultPushInv ==
  ASSUME LaneInv, ResultPush, UNCHANGED laneAsleep
  PROVE  LaneInv'
<1>0. LaneTyped /\ LaneCounts /\ LaneOrder /\ LaneTurns
  BY DEF LaneInv
<1>1. PICK e \in LaneEvents : e = laneWorker.event
  BY <1>0 DEF LaneTyped
<1>2. /\ laneWorker.at = "reserved" /\ Len(laneQueue["result"]) < LaneCapacity["result"]
      /\ laneQueue' = [laneQueue EXCEPT !["result"] = Append(@, e)] /\ laneWorker' = LaneIdle
      /\ UNCHANGED <<laneBytes, laneSender, laneSchedule, laneAsleep, laneOpen, laneMade, laneResults, laneReceived, laneOvertaken>>
  BY <1>1 DEF ResultPush
<1>3. e.bytes \in Nat /\ e.n \in Nat /\ "result" \in Lanes
  BY <1>1, LaneAssumption DEF LaneEvents, Lanes
<1>4. laneWorker'.at = "idle" /\ laneWorker' \in [at : {"idle", "waiting", "reserved", "stopped"}, event : LaneEvents]
  BY <1>2, LaneNoEvent DEF LaneIdle, At
<1>5. laneQueue["result"] \in Seq(LaneEvents) /\ laneQueue \in [Lanes -> Seq(LaneEvents)]
  BY <1>0, <1>3 DEF LaneTyped
<1>6. /\ Append(laneQueue["result"], e) \in Seq(LaneEvents) /\ Append(laneQueue["result"], e) # <<>>
      /\ Len(Append(laneQueue["result"], e)) = Len(laneQueue["result"]) + 1
  BY <1>1, <1>5, AppendProperties
<1>7. /\ laneQueue' \in [Lanes -> Seq(LaneEvents)] /\ laneQueue'["result"] = Append(laneQueue["result"], e)
      /\ \A l \in Lanes : l # "result" => laneQueue'[l] = laneQueue[l]
  BY <1>2, <1>3, <1>5, <1>6
<1>8. \A l \in Lanes : Len(laneQueue'[l]) <= LaneCapacity[l]
  <2>1. Len(laneQueue["result"]) \in Nat /\ LaneCapacity["result"] \in Nat
    BY <1>3, <1>5, LenProperties, LaneAssumption
  <2> QED
    BY <1>0, <1>2, <1>6, <1>7, <2>1 DEF LaneTyped
<1>9. LaneTyped'
  BY <1>0, <1>2, <1>4, <1>7, <1>8 DEF LaneTyped
<1>10. LaneCounts'
  <2>1. /\ LaneWorkerHas(laneWorker, "result") = e.bytes /\ LaneWorkerHas(laneWorker', "result") = 0
        /\ \A l \in Lanes : l # "result" => LaneWorkerHas(laneWorker', l) = LaneWorkerHas(laneWorker, l)
    BY <1>1, <1>2, <1>4 DEF LaneWorkerHas
  <2>2. PICK a, b, c \in Nat :
          /\ a = TotalBytes(LaneSizesOf(laneQueue["result"])) /\ b = TotalBytes(LaneHeldBy(laneSender, "result"))
          /\ c = LaneWorkerHas(laneWorker, "result") /\ LaneSum(laneQueue, laneSender, laneWorker, "result") = a + b + c
    BY <1>0, <1>3, LaneSumIs
  <2>3. TotalBytes(LaneSizesOf(laneQueue'["result"])) = a + e.bytes
    BY <1>1, <1>5, <1>7, <2>2, TotalAppended
  <2>4. LaneSum(laneQueue', laneSender', laneWorker', "result") = (a + e.bytes) + b + 0
    BY <1>2, <2>1, <2>2, <2>3 DEF LaneSum
  <2>5. LaneSum(laneQueue', laneSender', laneWorker', "result") = LaneSum(laneQueue, laneSender, laneWorker, "result")
    BY <1>3, <2>1, <2>2, <2>4
  <2>6. \A l \in Lanes : l # "result" =>
          LaneSum(laneQueue', laneSender', laneWorker', l) = LaneSum(laneQueue, laneSender, laneWorker, l)
    BY <1>2, <1>7, <2>1 DEF LaneSum
  <2> QED
    BY <1>0, <1>2, <2>5, <2>6, LaneCountsStay
<1>11. LaneOrder'
  <2>1. laneReceived \in Seq(Nat)
    BY <1>0 DEF LaneTyped
  <2>2. PICK b \in Seq(Nat) : b = LaneNumbersOf(laneQueue["result"])
    BY <1>5, NumbersSeq
  <2>3. LaneNumbersOf(laneQueue'["result"]) = Append(b, e.n)
    BY <1>1, <1>5, <1>7, <2>2, NumbersAppended
  <2>4. laneResults = laneReceived \o b \o <<e.n>>
    BY <1>0, <1>1, <1>2, <2>2 DEF LaneOrder
  <2>5. laneResults = laneReceived \o Append(b, e.n) \o <<>>
    BY <1>3, <2>1, <2>4, NumbersPushed
  <2> QED
    BY <1>2, <1>4, <2>3, <2>5 DEF LaneOrder
<1>12. LaneTurns'
  BY <1>0, <1>2, <1>6, <1>7, LaneTurnsKept
<1> QED
  BY <1>9, <1>10, <1>11, <1>12 DEF LaneInv

LEMMA ResultClosedInv ==
  ASSUME LaneInv, ResultClosed, UNCHANGED laneAsleep
  PROVE  LaneInv'
<1>0. LaneTyped /\ LaneCounts /\ LaneOrder /\ LaneTurns
  BY DEF LaneInv
<1>1. PICK e \in LaneEvents : e = laneWorker.event
  BY <1>0 DEF LaneTyped
<1>2. /\ laneWorker.at \in {"waiting", "reserved"} /\ laneWorker' = At("stopped", NoEvent)
      /\ UNCHANGED <<laneQueue, laneSender, laneSchedule, laneAsleep, laneOpen, laneMade, laneResults, laneReceived, laneOvertaken>>
  BY <1>1 DEF ResultClosed
<1>3. e.bytes \in Nat /\ "result" \in Lanes
  BY <1>1, LaneAssumption DEF LaneEvents, Lanes
<1>4. laneWorker'.at = "stopped" /\ laneWorker' \in [at : {"idle", "waiting", "reserved", "stopped"}, event : LaneEvents]
  BY <1>2, LaneNoEvent DEF At
<1>5. LaneOrder'
  BY <1>4 DEF LaneOrder
<1>6. LaneTurns'
  BY <1>0, <1>2, LaneTurnsKept
<1>7. \A l \in Lanes : l # "result" => LaneWorkerHas(laneWorker', l) = LaneWorkerHas(laneWorker, l)
  BY DEF LaneWorkerHas
<1>8. LaneWorkerHas(laneWorker', "result") = 0
  BY <1>4 DEF LaneWorkerHas
<1>9. CASE laneWorker.at = "reserved" /\ laneBytes' = [laneBytes EXCEPT !["result"] = @ - e.bytes]
  <2>1. LaneWorkerHas(laneWorker, "result") = e.bytes
    BY <1>1, <1>9 DEF LaneWorkerHas
  <2>2. PICK a, b, c \in Nat :
          /\ a = TotalBytes(LaneSizesOf(laneQueue["result"])) /\ b = TotalBytes(LaneHeldBy(laneSender, "result"))
          /\ c = LaneWorkerHas(laneWorker, "result") /\ LaneSum(laneQueue, laneSender, laneWorker, "result") = a + b + c
    BY <1>0, <1>3, LaneSumIs
  <2>3. laneBytes["result"] = a + b + e.bytes /\ laneBytes["result"] <= LaneByteLimit["result"] /\ LaneByteLimit["result"] \in Nat
    BY <1>0, <1>3, <2>1, <2>2, LaneAssumption DEF LaneCounts
  <2>4. /\ laneBytes' \in [Lanes -> Nat] /\ laneBytes'["result"] = laneBytes["result"] + (0 - e.bytes)
        /\ \A l \in Lanes : l # "result" => laneBytes'[l] = laneBytes[l]
    BY <1>0, <1>3, <1>9, <2>3 DEF LaneTyped
  <2>5. LaneTyped'
    BY <1>0, <1>2, <1>4, <2>4 DEF LaneTyped
  <2>6. LaneSum(laneQueue', laneSender', laneWorker', "result") = a + b + 0
    BY <1>2, <1>8, <2>2 DEF LaneSum
  <2>7. LaneSum(laneQueue', laneSender', laneWorker', "result") = LaneSum(laneQueue, laneSender, laneWorker, "result") + (0 - e.bytes)
    BY <1>3, <2>1, <2>2, <2>6
  <2>8. \A l \in Lanes : l # "result" =>
          LaneSum(laneQueue', laneSender', laneWorker', l) = LaneSum(laneQueue, laneSender, laneWorker, l)
    BY <1>2, <1>7 DEF LaneSum
  <2>9. (0 - e.bytes) \in Int /\ laneBytes["result"] + (0 - e.bytes) <= LaneByteLimit["result"]
    BY <1>3, <2>3
  <2>10. LaneMoves("result", 0 - e.bytes)
    BY <2>4, <2>7, <2>8, <2>9 DEF LaneMoves, LaneSumMoves
  <2>11. LaneCounts'
    BY <1>0, <1>3, <2>9, <2>10, LaneCountsMove
  <2> QED
    BY <1>5, <1>6, <2>5, <2>11 DEF LaneInv
<1>10. CASE laneWorker.at = "waiting" /\ UNCHANGED laneBytes
  <2>1. \A l \in Lanes : LaneWorkerHas(laneWorker', l) = LaneWorkerHas(laneWorker, l)
    BY <1>4, <1>10 DEF LaneWorkerHas
  <2>2. \A l \in Lanes : LaneSum(laneQueue', laneSender', laneWorker', l) = LaneSum(laneQueue, laneSender, laneWorker, l)
    BY <1>2, <2>1 DEF LaneSum
  <2>3. LaneCounts'
    BY <1>0, <1>10, <2>2, LaneCountsStay
  <2>4. LaneTyped'
    BY <1>0, <1>2, <1>4, <1>10 DEF LaneTyped
  <2> QED
    BY <1>5, <1>6, <2>3, <2>4 DEF LaneInv
<1> QED
  BY <1>1, <1>2, <1>9, <1>10 DEF ResultClosed, ReleaseBytes

-----------------------------------------------------------------------------
(* Event lanes: the receiver                                               *)

\* What LaneTurns says of the two lanes the schedule s is not at.
LaneTakes(s) ==
  \A l \in Lanes :
    /\ s.lane = NextLane(l) => laneOvertaken[l] <= s.burst
    /\ s.lane = NextLane(NextLane(l)) => laneOvertaken[l] <= LaneBurst[NextLane(l)] + s.burst
LanePlaces == [lane : Lanes, burst : Nat]

LEMMA ReceivedInv ==
  ASSUME LaneInv, NEW s \in LanePlaces, laneQueue[s.lane] # <<>>, s.burst + 1 <= LaneBurst[s.lane],
         LaneTakes(s), Received(s), laneAsleep' = FALSE
  PROVE  LaneInv'
<1>0. LaneTyped /\ LaneCounts /\ LaneOrder /\ LaneTurns
  BY DEF LaneInv
<1>1. PICK lane \in Lanes, k \in Nat : lane = s.lane /\ k = s.burst
  BY DEF LanePlaces
<1>2. PICK q \in Seq(LaneEvents) : q = laneQueue[lane]
  BY <1>0, <1>1 DEF LaneTyped
<1>3. q # <<>> /\ Len(q) \in Nat \ {0} /\ Head(q) \in LaneEvents /\ Tail(q) \in Seq(LaneEvents) /\ Len(Tail(q)) = Len(q) - 1
  <2>1. q # <<>>
    BY <1>1, <1>2
  <2>2. Len(q) \in Nat \ {0}
    BY <2>1, EmptySeq
  <2>3. Head(q) \in LaneEvents /\ Tail(q) \in Seq(LaneEvents) /\ Len(Tail(q)) = Len(q) - 1
    BY <2>1, HeadTailProperties
  <2> QED
    BY <2>1, <2>2, <2>3
<1>4. PICK e \in LaneEvents : e = Head(q)
  BY <1>3
<1>5. e.bytes \in Nat /\ e.n \in Nat /\ "result" \in Lanes
  BY LaneAssumption DEF LaneEvents, Lanes
<1>6. /\ laneQueue' = [laneQueue EXCEPT ![lane] = Tail(@)] /\ laneBytes' = [laneBytes EXCEPT ![lane] = @ - e.bytes]
      /\ laneSchedule' = [s EXCEPT !.burst = @ + 1]
      /\ laneReceived' = IF lane = "result" THEN Append(laneReceived, e.n) ELSE laneReceived
      /\ laneOvertaken' = [l \in Lanes |-> IF l = lane \/ laneQueue[l] = <<>> THEN 0 ELSE laneOvertaken[l] + 1]
      /\ UNCHANGED <<laneSender, laneWorker, laneOpen, laneMade, laneResults>>
  BY <1>1, <1>2, <1>4 DEF Received, ReleaseBytes
<1>7. laneSchedule' \in [lane : Lanes, burst : Nat] /\ laneSchedule'.lane = lane /\ laneSchedule'.burst = k + 1
  BY <1>1, <1>6 DEF LanePlaces
<1>8. /\ laneQueue' \in [Lanes -> Seq(LaneEvents)] /\ laneQueue'[lane] = Tail(q)
      /\ \A l \in Lanes : l # lane => laneQueue'[l] = laneQueue[l]
  BY <1>0, <1>2, <1>3, <1>6 DEF LaneTyped
<1>9. \A l \in Lanes : Len(laneQueue'[l]) <= LaneCapacity[l]
  <2>1. Len(q) <= LaneCapacity[lane] /\ LaneCapacity[lane] \in Nat
    BY <1>0, <1>2, LaneAssumption DEF LaneTyped
  <2>2. Len(Tail(q)) <= LaneCapacity[lane]
    BY <1>3, <2>1
  <2>3. \A l \in Lanes : Len(laneQueue[l]) <= LaneCapacity[l]
    BY <1>0 DEF LaneTyped
  <2> QED
    BY <1>8, <2>2, <2>3
<1>10. PICK a, b, c \in Nat :
         /\ a = TotalBytes(LaneSizesOf(laneQueue[lane])) /\ b = TotalBytes(LaneHeldBy(laneSender, lane))
         /\ c = LaneWorkerHas(laneWorker, lane) /\ LaneSum(laneQueue, laneSender, laneWorker, lane) = a + b + c
  BY <1>0, LaneSumIs
<1>11. PICK t \in Nat : t = TotalBytes(LaneSizesOf(Tail(q)))
  BY <1>3, TotalQueued
<1>12. a = t + e.bytes
  BY <1>2, <1>3, <1>4, <1>10, <1>11, TotalTaken
<1>13. laneBytes[lane] = a + b + c /\ laneBytes[lane] <= LaneByteLimit[lane] /\ LaneByteLimit[lane] \in Nat
  BY <1>0, <1>10, LaneAssumption DEF LaneCounts
<1>14. /\ laneBytes' \in [Lanes -> Nat] /\ laneBytes'[lane] = laneBytes[lane] + (0 - e.bytes)
       /\ \A l \in Lanes : l # lane => laneBytes'[l] = laneBytes[l]
  <2>1. laneBytes[lane] - e.bytes \in Nat /\ laneBytes[lane] - e.bytes = laneBytes[lane] + (0 - e.bytes)
    <3>1. PICK m \in Nat : m = e.bytes
      BY <1>5
    <3>2. laneBytes[lane] = (t + m) + b + c
      BY <1>12, <1>13, <3>1
    <3>3. (t + m) + b + c - m = t + b + c
      OBVIOUS
    <3>4. laneBytes[lane] - m \in Nat /\ laneBytes[lane] - m = laneBytes[lane] + (0 - m)
      BY <3>2, <3>3
    <3> QED
      BY <3>1, <3>4
  <2> QED
    BY <1>0, <1>6, <2>1 DEF LaneTyped
<1>15. laneReceived' \in Seq(Nat)
  BY <1>0, <1>5, <1>6, AppendProperties DEF LaneTyped
<1>16. /\ laneOvertaken' \in [Lanes -> Nat]
       /\ \A l \in Lanes : laneOvertaken'[l] = IF l = lane \/ laneQueue[l] = <<>> THEN 0 ELSE laneOvertaken[l] + 1
  <2>1. \A l \in Lanes : laneOvertaken[l] \in Nat
    BY <1>0 DEF LaneTyped
  <2>2. laneOvertaken' = [l \in Lanes |-> IF l = lane \/ laneQueue[l] = <<>> THEN 0 ELSE laneOvertaken[l] + 1]
    BY <1>6
  <2> QED
    BY <2>1, <2>2
<1>17. LaneTyped'
  <2>1. laneSchedule'.burst <= LaneBurst[laneSchedule'.lane]
    BY <1>1, <1>7
  <2> QED
    BY <1>0, <1>6, <1>7, <1>8, <1>9, <1>14, <1>15, <1>16, <2>1 DEF LaneTyped
<1>18. LaneCounts'
  <2>1. LaneSum(laneQueue', laneSender', laneWorker', lane) = t + b + c
    BY <1>6, <1>8, <1>10, <1>11 DEF LaneSum
  <2>2. LaneSum(laneQueue', laneSender', laneWorker', lane) = LaneSum(laneQueue, laneSender, laneWorker, lane) + (0 - e.bytes)
    <3>1. PICK m \in Nat : m = e.bytes
      BY <1>5
    <3>2. LaneSum(laneQueue, laneSender, laneWorker, lane) = (t + m) + b + c
      BY <1>10, <1>12, <3>1
    <3>3. t + b + c = ((t + m) + b + c) + (0 - m)
      OBVIOUS
    <3> QED
      BY <2>1, <3>1, <3>2, <3>3
  <2>3. \A l \in Lanes : l # lane =>
          LaneSum(laneQueue', laneSender', laneWorker', l) = LaneSum(laneQueue, laneSender, laneWorker, l)
    BY <1>6, <1>8 DEF LaneSum
  <2>4. (0 - e.bytes) \in Int /\ laneBytes[lane] + (0 - e.bytes) <= LaneByteLimit[lane]
    BY <1>5, <1>13
  <2>5. LaneMoves(lane, 0 - e.bytes)
    BY <1>14, <2>2, <2>3, <2>4 DEF LaneMoves, LaneSumMoves
  <2> QED
    BY <1>0, <2>4, <2>5, LaneCountsMove
<1>19. LaneOrder'
  <2>1. laneReceived' \o LaneNumbersOf(laneQueue'["result"]) = laneReceived \o LaneNumbersOf(laneQueue["result"])
    <3>1. CASE lane = "result"
      <4>1. laneReceived \in Seq(Nat)
        BY <1>0 DEF LaneTyped
      <4>2. Append(laneReceived, Head(q).n) \o LaneNumbersOf(Tail(q)) = laneReceived \o LaneNumbersOf(q)
        BY <1>3, <4>1, NumbersTaken
      <4> QED
        BY <1>2, <1>4, <1>6, <1>8, <3>1, <4>2
    <3>2. CASE lane # "result"
      BY <1>5, <1>6, <1>8, <3>2
    <3> QED
      BY <3>1, <3>2
  <2> QED
    BY <1>0, <1>6, <2>1 DEF LaneOrder
<1>20. LaneTurns'
  <2>1. ~laneAsleep'
    OBVIOUS
  <2>2. \A l \in Lanes : laneQueue'[l] = <<>> => laneOvertaken'[l] = 0
    BY <1>8, <1>16
  <2>3. ASSUME NEW l \in Lanes PROVE
          /\ laneSchedule'.lane = l => laneOvertaken'[l] = 0
          /\ laneSchedule'.lane = NextLane(l) => laneOvertaken'[l] <= laneSchedule'.burst
          /\ laneSchedule'.lane = NextLane(NextLane(l)) => laneOvertaken'[l] <= LaneBurst[NextLane(l)] + laneSchedule'.burst
    <3>1. laneOvertaken[l] \in Nat /\ LaneBurst[NextLane(l)] \in Nat
      BY <1>0, LaneRing, LaneAssumption DEF LaneTyped
    <3>2. lane = NextLane(l) => laneOvertaken[l] <= k
      BY <1>1 DEF LaneTakes
    <3>3. lane = NextLane(NextLane(l)) => laneOvertaken[l] <= LaneBurst[NextLane(l)] + k
      BY <1>1 DEF LaneTakes
    <3> QED
      BY <1>7, <1>16, <3>1, <3>2, <3>3
  <2> QED
    BY <2>1, <2>2, <2>3 DEF LaneTurns
<1> QED
  BY <1>17, <1>18, <1>19, <1>20 DEF LaneInv

\* The schedule moves on from a lane whose head has not been overtaken.
LEMMA AdvanceTakes ==
  ASSUME LaneTyped, NEW s \in LanePlaces, s.burst <= LaneBurst[s.lane], LaneTakes(s), laneOvertaken[s.lane] = 0
  PROVE  Advance(s) \in LanePlaces /\ Advance(s).lane = NextLane(s.lane) /\ Advance(s).burst = 0 /\ LaneTakes(Advance(s))
<1>1. PICK lane \in Lanes, k \in Nat : lane = s.lane /\ k = s.burst
  BY DEF LanePlaces
<1>2. Advance(s) = [lane |-> NextLane(lane), burst |-> 0] /\ NextLane(lane) \in Lanes
  BY <1>1, LaneRing DEF Advance
<1>3. Advance(s) \in LanePlaces /\ Advance(s).lane = NextLane(lane) /\ Advance(s).burst = 0
  BY <1>2 DEF LanePlaces
<1>4. ASSUME NEW l \in Lanes PROVE
        /\ NextLane(lane) = NextLane(l) => laneOvertaken[l] <= 0
        /\ NextLane(lane) = NextLane(NextLane(l)) => laneOvertaken[l] <= LaneBurst[NextLane(l)] + 0
  <2>1. NextLane(lane) = NextLane(l) => l = lane
    BY LaneRing
  <2>2. NextLane(lane) = NextLane(NextLane(l)) => NextLane(l) = lane
    BY LaneRing
  <2>3. laneOvertaken[l] \in Nat /\ LaneBurst[NextLane(l)] \in Nat
    BY LaneRing, LaneAssumption DEF LaneTyped
  <2>4. lane = NextLane(l) => laneOvertaken[l] <= k
    BY <1>1 DEF LaneTakes
  <2>5. k <= LaneBurst[lane] /\ laneOvertaken[lane] = 0
    BY <1>1
  <2> QED
    BY <2>1, <2>2, <2>3, <2>4, <2>5
<1> QED
  BY <1>1, <1>3, <1>4 DEF LaneTakes

LEMMA FirstLookTakes ==
  ASSUME LaneTyped, LaneTurns
  PROVE  FirstLook(laneSchedule) \in LanePlaces
         /\ FirstLook(laneSchedule).burst + 1 <= LaneBurst[FirstLook(laneSchedule).lane]
         /\ LaneTakes(FirstLook(laneSchedule))
<1>1. laneSchedule \in LanePlaces /\ laneSchedule.burst <= LaneBurst[laneSchedule.lane]
      /\ laneSchedule.lane \in Lanes /\ laneSchedule.burst \in Nat
  BY DEF LaneTyped, LanePlaces
<1>2. LaneTakes(laneSchedule) /\ laneOvertaken[laneSchedule.lane] = 0
  BY <1>1 DEF LaneTurns, LaneTakes
<1>3. CASE laneSchedule.burst >= LaneBurst[laneSchedule.lane]
  <2>1. FirstLook(laneSchedule) = Advance(laneSchedule)
    BY <1>3 DEF FirstLook
  <2>2. /\ Advance(laneSchedule) \in LanePlaces /\ Advance(laneSchedule).lane = NextLane(laneSchedule.lane)
        /\ Advance(laneSchedule).burst = 0 /\ LaneTakes(Advance(laneSchedule))
    BY <1>1, <1>2, AdvanceTakes
  <2>3. LaneBurst[NextLane(laneSchedule.lane)] \in Nat \ {0}
    BY <1>1, LaneRing, LaneAssumption
  <2> QED
    BY <2>1, <2>2, <2>3
<1>4. CASE ~(laneSchedule.burst >= LaneBurst[laneSchedule.lane])
  <2>1. FirstLook(laneSchedule) = laneSchedule
    BY <1>4 DEF FirstLook
  <2>2. LaneBurst[laneSchedule.lane] \in Nat
    BY <1>1, LaneAssumption
  <2>3. laneSchedule.burst + 1 <= LaneBurst[laneSchedule.lane]
    BY <1>1, <1>4, <2>2
  <2> QED
    BY <1>1, <1>2, <2>1, <2>3
<1> QED
  BY <1>3, <1>4

\* try_recv takes from a lane that has something, within its burst.
LEMMA ScheduledTakes ==
  ASSUME LaneTyped, LaneTurns, \E l \in Lanes : laneQueue[l] # <<>>
  PROVE  \E s \in LanePlaces : /\ s = Scheduled(laneSchedule) /\ laneQueue[s.lane] # <<>>
                               /\ s.burst + 1 <= LaneBurst[s.lane] /\ LaneTakes(s)
<1>1. PICK one : one = FirstLook(laneSchedule)
  OBVIOUS
<1>2. one \in LanePlaces /\ one.burst + 1 <= LaneBurst[one.lane] /\ LaneTakes(one)
  BY <1>1, FirstLookTakes
<1>3. one.lane \in Lanes /\ one.burst \in Nat
  BY <1>2 DEF LanePlaces
<1>4. PICK two, three : two = Advance(one) /\ three = Advance(two)
  OBVIOUS
<1>5. \A l \in Lanes : LaneBurst[l] \in Nat \ {0}
  BY LaneAssumption
<1>6. \A l \in Lanes : laneQueue[l] = <<>> => laneOvertaken[l] = 0
  BY DEF LaneTurns
<1>7. laneQueue[one.lane] = <<>> =>
        two \in LanePlaces /\ two.lane = NextLane(one.lane) /\ two.burst = 0 /\ LaneTakes(two)
  <2> SUFFICES ASSUME laneQueue[one.lane] = <<>>
               PROVE two \in LanePlaces /\ two.lane = NextLane(one.lane) /\ two.burst = 0 /\ LaneTakes(two)
    OBVIOUS
  <2>1. laneOvertaken[one.lane] = 0 /\ one.burst <= LaneBurst[one.lane]
    BY <1>2, <1>3, <1>5, <1>6
  <2> QED
    BY <1>2, <1>4, <2>1, AdvanceTakes
<1>8. laneQueue[one.lane] = <<>> /\ laneQueue[two.lane] = <<>> =>
        three \in LanePlaces /\ three.lane = NextLane(two.lane) /\ three.burst = 0 /\ LaneTakes(three)
  <2> SUFFICES ASSUME laneQueue[one.lane] = <<>>, laneQueue[two.lane] = <<>>
               PROVE three \in LanePlaces /\ three.lane = NextLane(two.lane) /\ three.burst = 0 /\ LaneTakes(three)
    OBVIOUS
  <2>1. two \in LanePlaces /\ two.lane \in Lanes /\ two.burst = 0 /\ LaneTakes(two)
    BY <1>7 DEF LanePlaces
  <2>2. laneOvertaken[two.lane] = 0 /\ two.burst <= LaneBurst[two.lane]
    BY <1>5, <1>6, <2>1
  <2> QED
    BY <1>4, <2>1, <2>2, AdvanceTakes
<1>9. Scheduled(laneSchedule) =
        CASE laneQueue[one.lane] # <<>> -> one
          [] ~(laneQueue[one.lane] # <<>>) /\ laneQueue[two.lane] # <<>> -> two
          [] OTHER -> three
  BY <1>1, <1>4 DEF Scheduled
<1>10. CASE laneQueue[one.lane] # <<>>
  <2>1. Scheduled(laneSchedule) = one
    BY <1>9, <1>10
  <2> QED
    BY <1>2, <1>10, <2>1
<1>11. CASE laneQueue[one.lane] = <<>> /\ laneQueue[two.lane] # <<>>
  <2>1. Scheduled(laneSchedule) = two
    BY <1>9, <1>11
  <2>2. two.lane \in Lanes /\ two.burst = 0 /\ two \in LanePlaces /\ LaneTakes(two)
    BY <1>7, <1>11 DEF LanePlaces
  <2>3. two.burst + 1 <= LaneBurst[two.lane]
    BY <1>5, <2>2
  <2> QED
    BY <1>11, <2>1, <2>2, <2>3
<1>12. CASE laneQueue[one.lane] = <<>> /\ laneQueue[two.lane] = <<>>
  <2>1. Scheduled(laneSchedule) = three
    BY <1>9, <1>12
  <2>2. three.lane \in Lanes /\ three.burst = 0 /\ three \in LanePlaces /\ LaneTakes(three)
    BY <1>8, <1>12 DEF LanePlaces
  <2>3. three.burst + 1 <= LaneBurst[three.lane]
    BY <1>5, <2>2
  <2>4. two.lane = NextLane(one.lane) /\ three.lane = NextLane(two.lane)
    BY <1>7, <1>8, <1>12
  <2>5. \A l \in Lanes : l = one.lane \/ l = two.lane \/ l = three.lane
    BY <1>3, <2>4 DEF Lanes, NextLane
  <2>6. laneQueue[three.lane] # <<>>
    BY <1>12, <2>5
  <2> QED
    BY <2>1, <2>2, <2>3, <2>6
<1> QED
  BY <1>10, <1>11, <1>12

LEMMA TryRecvInv ==
  ASSUME LaneInv, TryRecv
  PROVE  LaneInv'
<1>1. LaneTyped /\ LaneTurns /\ (\E l \in Lanes : laneQueue[l] # <<>>) /\ ~laneAsleep /\ UNCHANGED laneAsleep
      /\ Received(Scheduled(laneSchedule))
  BY DEF LaneInv, TryRecv
<1>2. laneAsleep' = FALSE
  BY <1>1 DEF LaneTyped
<1>3. PICK s \in LanePlaces : /\ s = Scheduled(laneSchedule) /\ laneQueue[s.lane] # <<>>
                              /\ s.burst + 1 <= LaneBurst[s.lane] /\ LaneTakes(s)
  BY <1>1, ScheduledTakes
<1>4. Received(s)
  BY <1>1, <1>3
<1> QED
  BY <1>2, <1>3, <1>4, ReceivedInv

LEMMA RecvWokenInv ==
  ASSUME LaneInv, NEW lane \in Lanes, RecvWoken(lane)
  PROVE  LaneInv'
<1>1. LaneTyped /\ LaneTurns
  BY DEF LaneInv
<1>2. PICK s : s = [lane |-> lane, burst |-> 0]
  OBVIOUS
<1>3. s \in LanePlaces /\ s.lane = lane /\ s.burst = 0
  BY <1>2 DEF LanePlaces
<1>4. laneQueue[s.lane] # <<>> /\ Received(s) /\ laneAsleep' = FALSE /\ laneAsleep
  BY <1>2, <1>3 DEF RecvWoken
<1>5. LaneBurst[lane] \in Nat \ {0}
  BY LaneAssumption
<1>6. s.burst + 1 <= LaneBurst[s.lane]
  BY <1>3, <1>5
<1>7. \A l \in Lanes : laneOvertaken[l] = 0 /\ LaneBurst[NextLane(l)] \in Nat
  BY <1>1, <1>4, LaneRing, LaneAssumption DEF LaneTurns
<1>8. LaneTakes(s)
  BY <1>3, <1>7 DEF LaneTakes
<1> QED
  BY <1>3, <1>4, <1>6, <1>8, ReceivedInv

\* Everything but the schedule, the sleep and the receiver is left alone.
LEMMA LaneRestKept ==
  ASSUME LaneCounts, LaneOrder,
         UNCHANGED <<laneQueue, laneBytes, laneSender, laneWorker, laneResults, laneReceived>>
  PROVE  LaneCounts' /\ LaneOrder'
BY DEF LaneCounts, LaneOrder

LEMMA RecvSleepInv ==
  ASSUME LaneInv, RecvSleep
  PROVE  LaneInv'
<1>1. LaneTyped /\ LaneCounts /\ LaneOrder /\ LaneTurns
  BY DEF LaneInv
<1>2. PICK s : s = FirstLook(laneSchedule)
  OBVIOUS
<1>3. s \in LanePlaces
  BY <1>1, <1>2, FirstLookTakes
<1>4. /\ laneSchedule' = [s EXCEPT !.burst = 0] /\ laneAsleep' = TRUE /\ \A l \in Lanes : laneQueue[l] = <<>>
      /\ UNCHANGED <<laneQueue, laneBytes, laneSender, laneWorker, laneOpen, laneMade, laneResults, laneReceived, laneOvertaken>>
  BY <1>2 DEF RecvSleep
<1>5. laneSchedule' \in [lane : Lanes, burst : Nat] /\ laneSchedule'.burst = 0
  BY <1>3, <1>4 DEF LanePlaces
<1>6. \A l \in Lanes : LaneBurst[l] \in Nat
  BY LaneAssumption
<1>7. LaneTyped'
  <2>1. laneSchedule'.burst <= LaneBurst[laneSchedule'.lane]
    BY <1>5, <1>6
  <2> QED
    BY <1>1, <1>4, <1>5, <2>1 DEF LaneTyped
<1>8. \A l \in Lanes : laneOvertaken'[l] = 0
  BY <1>1, <1>4 DEF LaneTurns
<1>9. \A l \in Lanes : NextLane(l) \in Lanes
  BY LaneRing
<1>10. LaneTurns'
  BY <1>5, <1>6, <1>8, <1>9 DEF LaneTurns
<1> QED
  BY <1>1, <1>4, <1>7, <1>10, LaneRestKept DEF LaneInv

LEMMA RecvTimeoutInv ==
  ASSUME LaneInv, RecvTimeout \/ ReceiverDropped \/ UNCHANGED laneVars
  PROVE  LaneInv'
<1>1. LaneTyped /\ LaneCounts /\ LaneOrder /\ LaneTurns
  BY DEF LaneInv
<1>2. /\ UNCHANGED <<laneQueue, laneBytes, laneSender, laneWorker, laneSchedule, laneMade, laneResults, laneReceived, laneOvertaken>>
      /\ laneAsleep' \in {FALSE, laneAsleep} /\ laneOpen' \in {FALSE, laneOpen}
  BY DEF RecvTimeout, ReceiverDropped, laneVars
<1>3. LaneTyped'
  BY <1>1, <1>2 DEF LaneTyped
<1>4. LaneTurns'
  <2>1. laneAsleep' => laneAsleep
    BY <1>2
  <2> QED
    BY <1>1, <1>2, <2>1, LaneTurnsKept
<1> QED
  BY <1>1, <1>2, <1>3, <1>4, LaneRestKept DEF LaneInv

-----------------------------------------------------------------------------
(* Event lanes: the theorem                                                *)

LEMMA LaneInvInit ==
  ASSUME LaneInit
  PROVE  LaneInv
<1>1. LaneIdle \in [at : {"idle", "reserved"}, event : LaneEvents] /\ LaneIdle.event.lane # "result" /\ LaneIdle.at = "idle"
  BY LaneNoEvent DEF LaneIdle, At
<1>2. LaneIdle \in [at : {"idle", "waiting", "reserved", "stopped"}, event : LaneEvents]
  BY LaneNoEvent DEF LaneIdle, At
<1>3. \A l \in Lanes : laneQueue[l] = <<>> /\ laneBytes[l] = 0 /\ laneOvertaken[l] = 0
  BY DEF LaneInit
<1>4. \A l \in Lanes : LaneCapacity[l] \in Nat /\ LaneByteLimit[l] \in Nat /\ LaneBurst[l] \in Nat
  BY LaneAssumption
<1>5. laneSchedule \in [lane : Lanes, burst : Nat] /\ laneSchedule.burst = 0
  BY DEF LaneInit, Lanes
<1>6. LaneTyped
  <2>1. laneQueue \in [Lanes -> Seq(LaneEvents)] /\ \A l \in Lanes : Len(laneQueue[l]) = 0
    BY EmptySeq DEF LaneInit
  <2>2. \A p \in LaneProducers : laneSender[p] = LaneIdle
    BY DEF LaneInit
  <2>3. laneSender \in [LaneProducers -> [at : {"idle", "reserved"}, event : LaneEvents]]
    BY <1>1 DEF LaneInit
  <2>4. laneSchedule.burst <= LaneBurst[laneSchedule.lane]
    BY <1>4, <1>5
  <2>5. \A l \in Lanes : Len(laneQueue[l]) <= LaneCapacity[l]
    BY <1>4, <2>1
  <2>6. \A p \in LaneProducers : laneSender[p].event.lane # "result"
    BY <1>1, <2>2
  <2>7. /\ laneBytes \in [Lanes -> Nat] /\ laneOvertaken \in [Lanes -> Nat] /\ laneMade \in Nat
        /\ laneOpen \in BOOLEAN /\ laneAsleep \in BOOLEAN /\ laneWorker = LaneIdle
    BY DEF LaneInit
  <2>8. laneResults \in Seq(Nat) /\ laneReceived \in Seq(Nat)
    BY EmptySeq DEF LaneInit
  <2> QED
    BY <1>2, <1>5, <2>1, <2>3, <2>4, <2>5, <2>6, <2>7, <2>8 DEF LaneTyped
<1>7. LaneCounts
  <2>1. ASSUME NEW l \in Lanes PROVE LaneSum(laneQueue, laneSender, laneWorker, l) = 0
    <3>1. DOMAIN LaneSizesOf(laneQueue[l]) = {}
      BY <1>3 DEF LaneSizesOf
    <3>2. DOMAIN LaneHeldBy(laneSender, l) = {}
      BY <1>1 DEF LaneInit, LaneHeldBy
    <3>3. LaneWorkerHas(laneWorker, l) = 0
      BY <1>1 DEF LaneInit, LaneWorkerHas
    <3>4. TotalBytes(LaneSizesOf(laneQueue[l])) = 0 /\ TotalBytes(LaneHeldBy(laneSender, l)) = 0
      BY <3>1, <3>2, TotalEmpty
    <3> QED
      BY <3>3, <3>4 DEF LaneSum
  <2> QED
    BY <1>3, <1>4, <2>1 DEF LaneCounts
<1>8. LaneOrder
  <2>1. LaneNumbersOf(<<>>) = <<>>
    <3>1. <<>> \in Seq(LaneEvents) /\ Len(<<>>) = 0
      BY EmptySeq
    <3>2. LaneNumbersOf(<<>>) \in Seq(Nat) /\ Len(LaneNumbersOf(<<>>)) = 0
      BY <3>1, NumbersSeq
    <3> QED
      BY <3>2, EmptySeq
  <2>2. "result" \in Lanes
    BY DEF Lanes
  <2>3. <<>> \o <<>> = <<>>
    <3>1. <<>> \in Seq(Nat)
      BY EmptySeq
    <3> QED
      BY <3>1, ConcatEmptySeq
  <2>4. laneWorker.at = "idle" /\ laneResults = <<>> /\ laneReceived = <<>> /\ laneQueue["result"] = <<>>
    BY <1>1, <2>2 DEF LaneInit
  <2> QED
    BY <2>1, <2>3, <2>4 DEF LaneOrder
<1>9. LaneTurns
  <2>1. \A l \in Lanes : NextLane(l) \in Lanes
    BY LaneRing
  <2> QED
    BY <1>3, <1>4, <1>5, <2>1 DEF LaneTurns
<1> QED
  BY <1>6, <1>7, <1>8, <1>9 DEF LaneInv

LEMMA LaneInvStep ==
  ASSUME LaneInv, [LaneNext]_laneVars
  PROVE  LaneInv'
<1>1. CASE LaneSend
  <2>1. CASE \E p \in LaneProducers, l \in Lanes, b \in LaneSizes : SendReserve(p, l, b)
    BY <1>1, <2>1, SendReserveInv DEF LaneSend
  <2>2. CASE \E p \in LaneProducers : SendPush(p)
    BY <1>1, <2>2, SendPushInv DEF LaneSend
  <2>3. CASE \E b \in LaneSizes : EmitResult(b)
    BY <1>1, <2>3, EmitResultInv DEF LaneSend
  <2>4. CASE ResultReserve \/ ResultPush \/ ResultClosed
    BY <1>1, <2>4, ResultReserveInv, ResultPushInv, ResultClosedInv DEF LaneSend
  <2> QED
    BY <1>1, <2>1, <2>2, <2>3, <2>4 DEF LaneSend
<1>2. CASE LaneReceive
  BY <1>2, TryRecvInv, RecvWokenInv DEF LaneReceive
<1>3. CASE RecvSleep
  BY <1>3, RecvSleepInv
<1>4. CASE RecvTimeout \/ ReceiverDropped \/ UNCHANGED laneVars
  BY <1>4, RecvTimeoutInv
<1> QED
  BY <1>1, <1>2, <1>3, <1>4 DEF LaneNext

LEMMA LaneInvMeans ==
  ASSUME LaneInv
  PROVE  LanesConsistent
<1>1. LaneTyped /\ LaneCounts /\ LaneOrder /\ LaneTurns
  BY DEF LaneInv
<1>2. LaneTypeOK
  BY <1>1 DEF LaneTyped, LaneTypeOK
<1>3. LaneBytesExact /\ ResultsKept
  BY <1>1, LaneSame
<1>4. OvertakingBounded
  <2> SUFFICES ASSUME NEW l \in Lanes
               PROVE laneOvertaken[l] <= LaneBurst[NextLane(l)] + LaneBurst[NextLane(NextLane(l))]
    BY DEF OvertakingBounded
  <2>1. PICK lane \in Lanes, k \in Nat : lane = laneSchedule.lane /\ k = laneSchedule.burst
    BY <1>1 DEF LaneTyped
  <2>2. /\ laneOvertaken[l] \in Nat /\ LaneBurst[NextLane(l)] \in Nat /\ LaneBurst[NextLane(NextLane(l))] \in Nat
        /\ k <= LaneBurst[lane]
    BY <1>1, <2>1, LaneRing, LaneAssumption DEF LaneTyped
  <2>3. /\ lane = l => laneOvertaken[l] = 0
        /\ lane = NextLane(l) => laneOvertaken[l] <= k
        /\ lane = NextLane(NextLane(l)) => laneOvertaken[l] <= LaneBurst[NextLane(l)] + k
    BY <1>1, <2>1 DEF LaneTurns
  <2>4. lane = l \/ lane = NextLane(l) \/ lane = NextLane(NextLane(l))
    BY DEF Lanes, NextLane
  <2> QED
    BY <2>2, <2>3, <2>4
<1> QED
  BY <1>2, <1>3, <1>4 DEF LanesConsistent

\* Whatever the number of producers, the capacities, byte limits and bursts: each
\* lane's byte counter is exactly what is queued and reserved and stays within its
\* limit, results are received in the order they were emitted and none is dropped,
\* and a waiting lane is overtaken by at most one burst of each other lane
\* (QueuedByteReservation, send_result, try_recv and recv of runtime_event_lanes.rs).
THEOREM LanesStayConsistent == LaneSpec => []LanesConsistent
<1>1. LaneInit => LaneInv
  BY LaneInvInit
<1>2. LaneInv /\ [LaneNext]_laneVars => LaneInv'
  BY LaneInvStep
<1>3. LaneInv => LanesConsistent
  BY LaneInvMeans
<1> QED
  BY <1>1, <1>2, <1>3, PTL DEF LaneSpec

-----------------------------------------------------------------------------
(* Commands: the inductive invariant                                       *)

CpSlot == CmdIds \cup {NoCmd}
CpBusy == {"dispatch", "refuse", "emit"}
CpCounts == [CmdIds -> Nat]
CpHistories == [calls : Nat, remembered : CpCounts, accepted : CpCounts, answered : CpCounts, lost : CpCounts,
                dispatched : Seq(CmdIds)]

CpCoreTyped ==
  /\ cmdLife \in {"created", "running", "stopping", "stopped"}
  /\ cmdTx \in BOOLEAN /\ cmdState \in BOOLEAN /\ cmdStarting \in BOOLEAN
  /\ cmdMail \in Seq(CmdIds) /\ Len(cmdMail) <= CmdMailbox
  /\ cmdWorker \in [at : {"absent", "idle", "gone"} \cup CpBusy, id : CpSlot]
  /\ cmdWorker.at \in CpBusy => cmdWorker.id \in CmdIds
  /\ cmdLedger \in Seq(CmdIds) /\ IsInjective(cmdLedger) /\ Len(cmdLedger) <= CmdMaxCompleted
  /\ cmdResults \in Seq(CmdIds)
CpMuxes == [critical : Seq(CmdIds), normal : Nat, data : Nat, run : Nat]
CpMux(m) ==
  /\ m \in CpMuxes
  /\ Len(m.critical) + m.normal <= FfiControlItems /\ m.data <= FfiDataItems
CpFfiTyped ==
  /\ ffiPending \subseteq CmdIds /\ IsFiniteSet(ffiPending) /\ Cardinality(ffiPending) <= FfiMaxPending
  /\ ffiTerminal \in Seq(CmdIds) /\ IsInjective(ffiTerminal) /\ Len(ffiTerminal) <= FfiMaxTerminal
  /\ ffiSynthetic \in Seq(CmdIds) /\ Len(ffiSynthetic) <= FfiControlItems
  /\ CpMux(ffiDrained) /\ ffiPoll \in 0 .. FfiDrainBatch
CpCallersTyped ==
  /\ cmdCaller \in [CmdCallers -> [at : {"idle", "check", "push", "forget"}, id : CpSlot]]
  /\ \A c \in CmdCallers : cmdCaller[c].at # "idle" => cmdCaller[c].id \in CmdIds
CpStages == {"idle", "wait", "exchange", "take", "join", "store", "cancel", "settle", "done"}
CpStoppersTyped ==
  /\ cmdStopper \in [CmdStoppers -> [at : CpStages, ids : SUBSET CmdIds]]
  /\ \A s \in CmdStoppers : IsFiniteSet(cmdStopper[s].ids) /\ (cmdStopper[s].at # "settle" => cmdStopper[s].ids = {})
CpThreadsTyped == CpCallersTyped /\ CpStoppersTyped /\ cmdHistory \in CpHistories
CpTyped == CpCoreTyped /\ CpFfiTyped /\ CpThreadsTyped

\* Nothing runs and nothing will be started.
CpQuiet == cmdWorker.at \in {"absent", "gone"} /\ ~cmdTx /\ ~cmdStarting
CpLife ==
  /\ cmdLife = "created" \/ cmdStarting => cmdWorker.at = "absent" /\ ~cmdTx /\ ~cmdState
  /\ cmdLife = "created" => ~cmdStarting
  /\ cmdStarting => cmdLife = "running" /\ \A s \in CmdStoppers : cmdStopper[s].at = "idle"
  /\ cmdLife = "running" /\ ~cmdStarting => cmdState
  /\ cmdLife = "stopped" => CpQuiet
  /\ \A s \in CmdStoppers :
       /\ cmdLife = "created" => cmdStopper[s].at \in {"idle", "store"}
       /\ cmdLife = "running" => cmdStopper[s].at \in {"idle", "exchange"}
       /\ cmdStopper[s].at = "take" => cmdState /\ ~cmdStarting /\ \A r \in CmdStoppers : cmdStopper[r].at = "take" => r = s
       /\ cmdStopper[s].at = "join" => ~cmdTx /\ ~cmdStarting
       /\ cmdStopper[s].at = "store" => CpQuiet
  /\ cmdWorker.at = "absent" => cmdMail = <<>>

\* The ledger holds the newest of the first n dispatched commands.
CpHolds(ledger, d, n) ==
  /\ Len(ledger) = IF n <= CmdMaxCompleted THEN n ELSE CmdMaxCompleted
  /\ \A i \in 1 .. Len(ledger) : ledger[i] = d[n - Len(ledger) + i]
CpLedgerAt(worker, ledger, d) ==
  /\ worker.at \in {"absent", "idle", "refuse"} => CpHolds(ledger, d, Len(d))
  /\ worker.at \in {"dispatch", "emit"} =>
       /\ d # <<>> /\ d[Len(d)] = worker.id /\ worker.id \notin Range(ledger) /\ CpHolds(ledger, d, Len(d) - 1)
CpLedger == CpLedgerAt(cmdWorker, cmdLedger, cmdHistory.dispatched)

CpAnswersIn(h, synthetic, critical, id) == h.answered[id] + (Count(synthetic, id) + Count(critical, id)) + h.lost[id]
CpAnswers(id) == CpAnswersIn(cmdHistory, ffiSynthetic, ffiDrained.critical, id)
CpDrained == \E s \in CmdStoppers : cmdStopper[s].at \in {"settle", "done"}
\* The commands on their way through the core.
CpHand == IF cmdWorker.at \in CpBusy THEN {cmdWorker.id} ELSE {}
CpFlight == Range(cmdMail) \cup Range(cmdResults) \cup CpHand
\* Callers that are past the check of the lifecycle.
CpPushing(id) == \E c \in CmdCallers : cmdCaller[c] = Ats("push", id)
CpHeld(id) == id \notin Range(ffiTerminal) /\ \E s \in CmdStoppers : id \in cmdStopper[s].ids

\* Until a stop drains the pending ids, an id that somebody holds is pending, and has one holder.
CpCallersHold ==
  \A c \in CmdCallers : cmdCaller[c].at # "idle" =>
    /\ cmdCaller[c].id \in ffiPending \ CpFlight
    /\ cmdHistory.accepted[cmdCaller[c].id] <= CpAnswers(cmdCaller[c].id)
    /\ \A b \in CmdCallers : cmdCaller[b].at # "idle" /\ cmdCaller[b].id = cmdCaller[c].id => b = c
CpIdsTracked ==
  \A id \in CmdIds :
    /\ id \in CpFlight => id \in ffiPending
    /\ id \in ffiPending => id \notin Range(ffiTerminal)
    /\ cmdHistory.accepted[id] <= CpAnswers(id) + One(id \in ffiPending)
CpApart ==
  /\ IsInjective(cmdMail) /\ IsInjective(cmdResults) /\ Range(cmdMail) \cap Range(cmdResults) = {}
  /\ CpHand \cap (Range(cmdMail) \cup Range(cmdResults)) = {}
CpBefore == CpCallersHold /\ CpIdsTracked /\ CpApart
\* Afterwards what is accepted, or will be, was drained by a stop that has settled it or still holds it.
CpAfter ==
  /\ cmdLife # "running"
  /\ \A id \in CmdIds : cmdHistory.accepted[id] + One(CpPushing(id)) <= CpAnswers(id) + One(CpHeld(id))
  /\ \A b, c \in CmdCallers : cmdCaller[b].at = "push" /\ cmdCaller[c].at = "push" /\ cmdCaller[b].id = cmdCaller[c].id => b = c
CpTracked == (CpDrained => CpAfter) /\ (~CpDrained => CpBefore)

CpInv == CpTyped /\ CpLife /\ CpLedger /\ NoReexecution /\ CpTracked

\* The newest of a sequence without repetitions.
LEMMA NewestIs ==
  ASSUME NEW S, NEW s \in Seq(S), IsInjective(s), NEW max \in Nat \ {0}
  PROVE  /\ Newest(s, max) \in Seq(S) /\ IsInjective(Newest(s, max))
         /\ Len(Newest(s, max)) = IF Len(s) <= max THEN Len(s) ELSE max
         /\ \A i \in 1 .. Len(Newest(s, max)) : Newest(s, max)[i] = s[Len(s) - Len(Newest(s, max)) + i]
         /\ Range(Newest(s, max)) \subseteq Range(s)
<1>1. CASE Len(s) <= max
  <2>1. Newest(s, max) = s BY <1>1 DEF Newest
  <2>2. Len(s) \in Nat OBVIOUS
  <2>3. \A i \in 1 .. Len(s) : Len(s) - Len(s) + i = i BY <2>2
  <2>. QED BY <1>1, <2>1, <2>3
<1>2. CASE ~(Len(s) <= max)
  <2>. DEFINE n == Newest(s, max)  k == Len(s) - max
  <2>1. n = SubSeq(s, k + 1, Len(s)) BY <1>2 DEF Newest
  <2>2. /\ n \in Seq(S) /\ Len(n) = max /\ DOMAIN n = 1 .. max /\ DOMAIN s = 1 .. Len(s) /\ k \in Nat
        /\ \A i \in 1 .. max : n[i] = s[k + i]
    BY <1>2, <2>1
  <2>3. \A i \in 1 .. max : k + i \in 1 .. Len(s) BY <1>2
  <2>4. \A i, j \in 1 .. max : k + i = k + j => i = j BY <2>2
  <2>. HIDE DEF n, k
  <2>5. IsInjective(n)
    <3>1. ASSUME NEW i \in 1 .. max, NEW j \in 1 .. max, n[i] = n[j] PROVE i = j
      <4>1. s[k + i] = s[k + j] BY <2>2, <3>1
      <4>2. k + i = k + j BY <2>2, <2>3, <4>1 DEF IsInjective
      <4>. QED BY <2>4, <4>2
    <3>. QED BY <2>2, <3>1 DEF IsInjective
  <2>6. Range(n) \subseteq Range(s) BY <2>2, <2>3 DEF Range
  <2>7. \A i \in 1 .. Len(n) : n[i] = s[Len(s) - Len(n) + i] BY <2>2 DEF k
  <2>. QED BY <1>2, <2>2, <2>5, <2>6, <2>7 DEF n
<1>. QED BY <1>1, <1>2

\* What recording one event leaves alone in the history.
LEMMA CpBumpRemembered ==
  ASSUME cmdHistory \in CpHistories, NEW id \in CmdIds, NEW h, h = [cmdHistory EXCEPT !.remembered[id] = @ + 1]
  PROVE  /\ h \in CpHistories /\ \A j \in CmdIds : h.remembered[j] = cmdHistory.remembered[j] + One(j = id)
         /\ h.accepted = cmdHistory.accepted /\ h.answered = cmdHistory.answered
         /\ h.lost = cmdHistory.lost /\ h.dispatched = cmdHistory.dispatched
<1>1. h.remembered = [cmdHistory.remembered EXCEPT ![id] = @ + 1] BY DEF CpHistories, CpCounts
<1>2. h.remembered \in CpCounts /\ \A j \in CmdIds : h.remembered[j] = cmdHistory.remembered[j] + One(j = id)
  BY <1>1 DEF CpHistories, CpCounts, One
<1>3. h = [cmdHistory EXCEPT !.remembered = h.remembered] BY <1>1 DEF CpHistories
<1>. QED BY <1>2, <1>3 DEF CpHistories

LEMMA CpBumpAccepted ==
  ASSUME cmdHistory \in CpHistories, NEW id \in CmdIds, NEW h, h = [cmdHistory EXCEPT !.accepted[id] = @ + 1]
  PROVE  /\ h \in CpHistories /\ \A j \in CmdIds : h.accepted[j] = cmdHistory.accepted[j] + One(j = id)
         /\ h.remembered = cmdHistory.remembered /\ h.answered = cmdHistory.answered
         /\ h.lost = cmdHistory.lost /\ h.dispatched = cmdHistory.dispatched
<1>1. h.accepted = [cmdHistory.accepted EXCEPT ![id] = @ + 1] BY DEF CpHistories, CpCounts
<1>2. h.accepted \in CpCounts /\ \A j \in CmdIds : h.accepted[j] = cmdHistory.accepted[j] + One(j = id)
  BY <1>1 DEF CpHistories, CpCounts, One
<1>3. h = [cmdHistory EXCEPT !.accepted = h.accepted] BY <1>1 DEF CpHistories
<1>. QED BY <1>2, <1>3 DEF CpHistories

LEMMA CpBumpAnswered ==
  ASSUME cmdHistory \in CpHistories, NEW id \in CmdIds, NEW h, h = [cmdHistory EXCEPT !.answered[id] = @ + 1]
  PROVE  /\ h \in CpHistories /\ \A j \in CmdIds : h.answered[j] = cmdHistory.answered[j] + One(j = id)
         /\ h.remembered = cmdHistory.remembered /\ h.accepted = cmdHistory.accepted
         /\ h.lost = cmdHistory.lost /\ h.dispatched = cmdHistory.dispatched
<1>1. h.answered = [cmdHistory.answered EXCEPT ![id] = @ + 1] BY DEF CpHistories, CpCounts
<1>2. h.answered \in CpCounts /\ \A j \in CmdIds : h.answered[j] = cmdHistory.answered[j] + One(j = id)
  BY <1>1 DEF CpHistories, CpCounts, One
<1>3. h = [cmdHistory EXCEPT !.answered = h.answered] BY <1>1 DEF CpHistories
<1>. QED BY <1>2, <1>3 DEF CpHistories

LEMMA CpBumpLost ==
  ASSUME cmdHistory \in CpHistories, NEW id \in CmdIds, NEW h, h = [cmdHistory EXCEPT !.lost[id] = @ + 1]
  PROVE  /\ h \in CpHistories /\ \A j \in CmdIds : h.lost[j] = cmdHistory.lost[j] + One(j = id)
         /\ h.remembered = cmdHistory.remembered /\ h.accepted = cmdHistory.accepted
         /\ h.answered = cmdHistory.answered /\ h.dispatched = cmdHistory.dispatched
<1>1. h.lost = [cmdHistory.lost EXCEPT ![id] = @ + 1] BY DEF CpHistories, CpCounts
<1>2. h.lost \in CpCounts /\ \A j \in CmdIds : h.lost[j] = cmdHistory.lost[j] + One(j = id)
  BY <1>1 DEF CpHistories, CpCounts, One
<1>3. h = [cmdHistory EXCEPT !.lost = h.lost] BY <1>1 DEF CpHistories
<1>. QED BY <1>2, <1>3 DEF CpHistories

\* How often an id occurs in a queue.
LEMMA CountNat ==
  ASSUME NEW S, NEW s \in Seq(S), NEW x
  PROVE  Count(s, x) \in Nat
<1>. DEFINE T == {i \in DOMAIN s : s[i] = x}
<1>1. IsFiniteSet(T)
  <2>1. IsFiniteSet(1 .. Len(s)) BY FS_Interval
  <2>. QED BY <2>1, FS_Subset
<1>. QED BY <1>1, FS_CardinalityType DEF Count

LEMMA CountEmpty ==
  ASSUME NEW x
  PROVE  Count(<<>>, x) = 0
<1>1. {i \in DOMAIN <<>> : <<>>[i] = x} = {} OBVIOUS
<1>2. Count(<<>>, x) = Cardinality({}) BY ONLY <1>1, Zenon DEF Count
<1>. QED BY <1>2, FS_EmptySet

LEMMA CountAppended ==
  ASSUME NEW S, NEW s \in Seq(S), NEW y \in S, NEW x
  PROVE  Count(Append(s, y), x) = Count(s, x) + One(x = y)
<1>. DEFINE T == {i \in DOMAIN s : s[i] = x}
            U == {i \in DOMAIN Append(s, y) : Append(s, y)[i] = x}
<1>1. IsFiniteSet(T)
  <2>1. IsFiniteSet(1 .. Len(s)) BY FS_Interval
  <2>. QED BY <2>1, FS_Subset
<1>2. x = y => U = T \cup {Len(s) + 1} /\ Len(s) + 1 \notin T OBVIOUS
<1>3. x # y => U = T OBVIOUS
<1>4. x = y => Cardinality(U) = Cardinality(T) + 1 BY <1>1, <1>2, FS_AddElement
<1>5. Cardinality(T) \in Nat BY <1>1, FS_CardinalityType
<1>6. Count(s, x) = Cardinality(T) /\ Count(Append(s, y), x) = Cardinality(U) BY DEF Count
<1>. HIDE DEF T, U
<1>. QED BY <1>3, <1>4, <1>5, <1>6 DEF One

LEMMA CountTaken ==
  ASSUME NEW S, NEW s \in Seq(S), s # <<>>, NEW x
  PROVE  Count(s, x) = Count(Tail(s), x) + One(x = Head(s))
<1>. DEFINE T == {i \in DOMAIN s : s[i] = x}
            U == {i \in DOMAIN Tail(s) : Tail(s)[i] = x}
            R == {i \in 2 .. Len(s) : s[i] = x}
            f == [i \in U |-> i + 1]
<1>1. IsFiniteSet(U) /\ IsFiniteSet(R)
  <2>1. IsFiniteSet(1 .. Len(Tail(s))) /\ IsFiniteSet(2 .. Len(s)) BY FS_Interval
  <2>. QED BY <2>1, FS_Subset
<1>2. f \in Bijection(U, R)
  <2>1. f \in [U -> R] OBVIOUS
  <2>2. \A a, b \in U : f[a] = f[b] => a = b OBVIOUS
  <2>3. \A r \in R : r - 1 \in U /\ f[r - 1] = r OBVIOUS
  <2>. HIDE DEF f, U, R
  <2>4. \A r \in R : \E a \in U : f[a] = r BY <2>3
  <2>. QED BY <2>1, <2>2, <2>4 DEF Bijection, Injection, Surjection, IsInjective
<1>3. Cardinality(U) = Cardinality(R)
  <2>. HIDE DEF f, U, R
  <2>. QED BY <1>1, <1>2, FS_Bijection DEF ExistsBijection
<1>4. x = Head(s) => T = R \cup {1} /\ 1 \notin R OBVIOUS
<1>5. x # Head(s) => T = R OBVIOUS
<1>6. x = Head(s) => Cardinality(T) = Cardinality(R) + 1 BY <1>1, <1>4, FS_AddElement
<1>7. Cardinality(R) \in Nat BY <1>1, FS_CardinalityType
<1>8. Count(s, x) = Cardinality(T) /\ Count(Tail(s), x) = Cardinality(U) BY DEF Count
<1>. HIDE DEF T, U, R
<1>. QED BY <1>3, <1>5, <1>6, <1>7, <1>8 DEF One

LEMMA RememberIs ==
  ASSUME NEW S, NEW s \in Seq(S), IsInjective(s), NEW x \in S, NEW max \in Nat \ {0}, Len(s) <= max
  PROVE  /\ Remember(s, x, max) \in Seq(S) /\ IsInjective(Remember(s, x, max)) /\ Len(Remember(s, x, max)) <= max
         /\ Range(Remember(s, x, max)) \subseteq Range(s) \cup {x}
         /\ x \notin Range(s) =>
              /\ Len(Remember(s, x, max)) = IF Len(s) < max THEN Len(s) + 1 ELSE max
              /\ \A i \in 1 .. Len(Remember(s, x, max)) :
                   Remember(s, x, max)[i] = Append(s, x)[Len(s) + 1 - Len(Remember(s, x, max)) + i]
<1>1. CASE x \in Range(s) BY <1>1 DEF Remember
<1>2. CASE x \notin Range(s)
  <2>. DEFINE o == Append(s, x)
  <2>1. o \in Seq(S) /\ Len(o) = Len(s) + 1 OBVIOUS
  <2>2. IsInjective(o) BY <1>2 DEF IsInjective, Range
  <2>3. Range(o) \subseteq Range(s) \cup {x} BY DEF Range
  <2>4. Remember(s, x, max) = Newest(o, max) BY <1>2 DEF Remember
  <2>. HIDE DEF o
  <2>5. /\ Newest(o, max) \in Seq(S) /\ IsInjective(Newest(o, max))
        /\ Len(Newest(o, max)) = IF Len(o) <= max THEN Len(o) ELSE max
        /\ \A i \in 1 .. Len(Newest(o, max)) : Newest(o, max)[i] = o[Len(o) - Len(Newest(o, max)) + i]
        /\ Range(Newest(o, max)) \subseteq Range(o)
    BY <2>1, <2>2, NewestIs
  <2>6. Len(s) \in Nat OBVIOUS
  <2>7. Len(Newest(o, max)) = IF Len(s) < max THEN Len(s) + 1 ELSE max BY <2>1, <2>5, <2>6
  <2>8. \A i \in 1 .. Len(Newest(o, max)) : Newest(o, max)[i] = o[Len(s) + 1 - Len(Newest(o, max)) + i]
    <3>. TAKE i \in 1 .. Len(Newest(o, max))
    <3>1. Newest(o, max)[i] = o[Len(o) - Len(Newest(o, max)) + i] BY <2>5
    <3>2. Len(o) - Len(Newest(o, max)) + i = Len(s) + 1 - Len(Newest(o, max)) + i BY <2>1
    <3>. QED BY ONLY <3>1, <3>2, Zenon
  <2>9. Len(Newest(o, max)) <= max BY <2>6, <2>7
  <2>10. o = Append(s, x) BY DEF o
  <2>. QED BY <2>3, <2>4, <2>5, <2>7, <2>8, <2>9, <2>10
<1>. QED BY <1>1, <1>2

LEMMA CpBounds ==
  /\ FfiMaxPending \in Nat \ {0} /\ FfiMaxTerminal \in Nat \ {0} /\ FfiControlItems \in Nat \ {0}
  /\ FfiDataItems \in Nat \ {0} /\ FfiDrainBatch \in Nat \ {0} /\ CmdMailbox \in Nat \ {0}
  /\ CmdMaxCompleted \in Nat \ {0} /\ CmdResultLane \in Nat \ {0}
  /\ CmdIds \subseteq Nat \ {0} /\ IsFiniteSet(CmdStoppers) /\ NoCmd \in CpSlot
BY PipelineAssumption DEF CpSlot

-----------------------------------------------------------------------------
(* Commands: types                                                         *)

LEMMA CpCoreStep ==
  ASSUME CpTyped, PipelineNext
  PROVE  CpCoreTyped'
<1>. USE DEF CpTyped, CpCoreTyped, CpBusy, Ats
<1>1. ASSUME NEW c \in CmdCallers, NEW id \in CmdIds, RememberCommand(c, id) PROVE CpCoreTyped'
  BY <1>1 DEF RememberCommand, cmdLifecycle, cmdCore
<1>2. ASSUME NEW c \in CmdCallers, CheckRunning(c) PROVE CpCoreTyped'
  BY <1>2 DEF CheckRunning, cmdLifecycle, cmdCore
<1>3. ASSUME NEW c \in CmdCallers, PushCommand(c) PROVE CpCoreTyped'
  BY <1>3, CpBounds DEF PushCommand, cmdLifecycle, CpThreadsTyped, CpCallersTyped
<1>4. ASSUME NEW c \in CmdCallers, ForgetCommand(c) PROVE CpCoreTyped'
  BY <1>4 DEF ForgetCommand, cmdLifecycle, cmdCore
<1>5. CASE StartExchange BY <1>5 DEF StartExchange, cmdCore
<1>6. CASE StartFinish BY <1>6, CpBounds DEF StartFinish
<1>7. ASSUME NEW s \in CmdStoppers, StopLoad(s) PROVE CpCoreTyped'
  BY <1>7 DEF StopLoad, cmdLifecycle, cmdCore
<1>8. ASSUME NEW s \in CmdStoppers, StopWait(s) PROVE CpCoreTyped'
  BY <1>8 DEF StopWait, cmdLifecycle, cmdCore
<1>9. ASSUME NEW s \in CmdStoppers, StopExchange(s) PROVE CpCoreTyped'
  BY <1>9 DEF StopExchange, cmdCore
<1>10. ASSUME NEW s \in CmdStoppers, StopTake(s) PROVE CpCoreTyped'
  BY <1>10 DEF StopTake, cmdCore
<1>11. ASSUME NEW s \in CmdStoppers, StopJoin(s) PROVE CpCoreTyped'
  BY <1>11, CpBounds DEF StopJoin, cmdLifecycle
<1>12. ASSUME NEW s \in CmdStoppers, StopStore(s) PROVE CpCoreTyped'
  BY <1>12 DEF StopStore, cmdCore
<1>13. ASSUME NEW s \in CmdStoppers, CancelDrain(s) PROVE CpCoreTyped'
  BY <1>13 DEF CancelDrain, cmdLifecycle, cmdCore
<1>14. ASSUME NEW s \in CmdStoppers, CancelSettle(s) PROVE CpCoreTyped'
  BY <1>14 DEF CancelSettle, cmdLifecycle, cmdCore
<1>15. CASE WorkerRecv BY <1>15, CpBounds DEF WorkerRecv, WorkerKeeps, cmdLifecycle, CpSlot
<1>16. CASE Dispatched BY <1>16 DEF Dispatched, WorkerKeeps, cmdLifecycle, CpSlot
<1>17. CASE WorkerEmit
  <2>1. cmdWorker.id \in CmdIds BY <1>17 DEF WorkerEmit
  <2>2. LET r == Remember(cmdLedger, cmdWorker.id, CmdMaxCompleted) IN
          r \in Seq(CmdIds) /\ IsInjective(r) /\ Len(r) <= CmdMaxCompleted
    BY <2>1, CpBounds, RememberIs
  <2>3. cmdLedger' \in Seq(CmdIds) /\ IsInjective(cmdLedger') /\ Len(cmdLedger') <= CmdMaxCompleted
    BY <1>17, <2>2 DEF WorkerEmit
  <2>4. cmdResults' \in Seq(CmdIds) BY <1>17, <2>1 DEF WorkerEmit
  <2>. QED BY <1>17, <2>3, <2>4, CpBounds DEF WorkerEmit, WorkerKeeps, cmdLifecycle
<1>18. CASE WorkerEnds BY <1>18, CpBounds DEF WorkerEnds, WorkerKeeps, cmdLifecycle
<1>19. CASE PollSynthetic BY <1>19 DEF PollSynthetic, PollKeeps, cmdLifecycle
<1>20. CASE DrainResult BY <1>20 DEF DrainResult, cmdLifecycle
<1>21. ASSUME NEW k \in {"normal", "data"}, DrainNoise(k) PROVE CpCoreTyped'
  BY <1>21 DEF DrainNoise, PollKeeps, cmdLifecycle
<1>22. CASE PollReturn BY <1>22 DEF PollReturn, PollKeeps, cmdLifecycle
<1>. QED
  BY <1>1, <1>2, <1>3, <1>4, <1>5, <1>6, <1>7, <1>8, <1>9, <1>10, <1>11, <1>12, <1>13, <1>14, <1>15, <1>16,
     <1>17, <1>18, <1>19, <1>20, <1>21, <1>22
     DEF PipelineNext, CallerStep, StopperStep, WorkerStep, PollStep

\* The order in which the ids of a stop are cancelled: each of them once.
LEMMA CpOrder ==
  ASSUME NEW ids \in SUBSET CmdIds, IsFiniteSet(ids), NEW order \in Injection(1 .. Cardinality(ids), ids)
  PROVE  order \in Seq(CmdIds) /\ Len(order) = Cardinality(ids) /\ IsInjective(order) /\ Range(order) = ids
<1>. DEFINE n == Cardinality(ids)
<1>1. n \in Nat BY FS_CardinalityType
<1>. HIDE DEF n
<1>2. order \in [1 .. n -> ids] /\ IsInjective(order) BY DEF Injection, n
<1>3. order \in Seq(CmdIds) /\ Len(order) = n BY <1>1, <1>2
<1>4. IsFiniteSet(1 .. n) /\ Cardinality(1 .. n) = n BY <1>1, FS_Interval
<1>5. order \in Surjection(1 .. n, ids)
  <2>1. order \in Injection(1 .. n, ids) BY DEF n
  <2>2. Cardinality(1 .. n) = Cardinality(ids) BY <1>4 DEF n
  <2>. QED BY <1>4, <2>1, <2>2, FS_Injection
<1>6. \A x \in ids : \E i \in 1 .. n : order[i] = x BY <1>5 DEF Surjection
<1>7. Range(order) = ids BY <1>2, <1>6 DEF Range
<1>. QED BY <1>2, <1>3, <1>7 DEF n

\* Cancelled ids join the terminal history.
LEMMA CpCancelled ==
  ASSUME NEW t \in Seq(CmdIds), IsInjective(t), NEW o \in Seq(CmdIds), IsInjective(o), Range(t) \cap Range(o) = {}
  PROVE  LET r == Newest(t \o o, FfiMaxTerminal) IN
         /\ r \in Seq(CmdIds) /\ IsInjective(r) /\ Len(r) <= FfiMaxTerminal /\ Range(r) \subseteq Range(t) \cup Range(o)
<1>. DEFINE u == t \o o
<1>1. u \in Seq(CmdIds) OBVIOUS
<1>2. IsInjective(u)
  <2>. SUFFICES ASSUME NEW i \in DOMAIN u, NEW j \in DOMAIN u, u[i] = u[j] PROVE i = j BY DEF IsInjective
  <2>1. DOMAIN u = 1 .. Len(t) + Len(o) /\ Len(t) \in Nat /\ Len(o) \in Nat OBVIOUS
  <2>2. \A k \in DOMAIN u : u[k] = IF k <= Len(t) THEN t[k] ELSE o[k - Len(t)] OBVIOUS
  <2>3. \A k \in DOMAIN u : k <= Len(t) => k \in DOMAIN t /\ u[k] \in Range(t) BY <2>1, <2>2 DEF Range
  <2>4. \A k \in DOMAIN u : ~(k <= Len(t)) => k - Len(t) \in DOMAIN o /\ u[k] \in Range(o) BY <2>1, <2>2 DEF Range
  <2>. HIDE DEF u
  <2>5. i <= Len(t) <=> j <= Len(t) BY <2>3, <2>4
  <2>6. CASE i <= Len(t) BY <2>2, <2>3, <2>5, <2>6 DEF IsInjective
  <2>7. CASE ~(i <= Len(t))
    <3>1. i - Len(t) = j - Len(t) BY <2>2, <2>4, <2>5, <2>7 DEF IsInjective
    <3>. QED BY <2>1, <3>1
  <2>. QED BY <2>6, <2>7
<1>3. Range(u) \subseteq Range(t) \cup Range(o) BY DEF Range
<1>. HIDE DEF u
<1>4. /\ Newest(u, FfiMaxTerminal) \in Seq(CmdIds) /\ IsInjective(Newest(u, FfiMaxTerminal))
      /\ Len(Newest(u, FfiMaxTerminal)) = IF Len(u) <= FfiMaxTerminal THEN Len(u) ELSE FfiMaxTerminal
      /\ Range(Newest(u, FfiMaxTerminal)) \subseteq Range(u)
  BY <1>1, <1>2, CpBounds, NewestIs
<1>5. Len(u) \in Nat BY <1>1
<1>6. Len(Newest(u, FfiMaxTerminal)) <= FfiMaxTerminal BY <1>4, <1>5, CpBounds
<1>. QED BY <1>3, <1>4, <1>6 DEF u

\* What the polls do to the mux.
LEMMA CpMuxSteps ==
  ASSUME NEW m, CpMux(m)
  PROVE  /\ Len(m.critical) + m.normal < FfiControlItems =>
              \A id \in CmdIds : CpMux([m EXCEPT !.critical = Append(@, id)])
         /\ Len(m.critical) + m.normal < FfiControlItems => CpMux([m EXCEPT !.normal = @ + 1])
         /\ m.data < FfiDataItems => CpMux([m EXCEPT !.data = @ + 1])
         /\ m.critical # <<>> => CpMux([m EXCEPT !.critical = Tail(@), !.run = @ + 1])
         /\ m.normal > 0 => CpMux([m EXCEPT !.normal = @ - 1, !.run = @ + 1])
         /\ m.data > 0 => CpMux([m EXCEPT !.data = @ - 1, !.run = 0])
<1>1. m \in CpMuxes /\ Len(m.critical) + m.normal <= FfiControlItems /\ m.data <= FfiDataItems BY DEF CpMux
<1>2. Len(m.critical) \in Nat /\ m.normal \in Nat /\ m.data \in Nat /\ m.run \in Nat /\ m.critical \in Seq(CmdIds)
  BY <1>1 DEF CpMuxes
<1>3. ASSUME NEW e, NEW x \in Seq(CmdIds), NEW y \in Nat, e = [m EXCEPT !.critical = x, !.run = y]
      PROVE  e \in CpMuxes /\ e.critical = x /\ e.normal = m.normal /\ e.data = m.data
  BY <1>1, <1>3 DEF CpMuxes
<1>4. ASSUME NEW e, NEW x \in Nat, NEW y \in Nat, e = [m EXCEPT !.normal = x, !.run = y]
      PROVE  e \in CpMuxes /\ e.critical = m.critical /\ e.normal = x /\ e.data = m.data
  BY <1>1, <1>4 DEF CpMuxes
<1>5. ASSUME NEW e, NEW x \in Nat, NEW y \in Nat, e = [m EXCEPT !.data = x, !.run = y]
      PROVE  e \in CpMuxes /\ e.critical = m.critical /\ e.normal = m.normal /\ e.data = x
  BY <1>1, <1>5 DEF CpMuxes
<1>6. ASSUME Len(m.critical) + m.normal < FfiControlItems, NEW id \in CmdIds
      PROVE  CpMux([m EXCEPT !.critical = Append(@, id)])
  <2>. DEFINE a == Append(m.critical, id)  e == [m EXCEPT !.critical = a]
  <2>1. a \in Seq(CmdIds) /\ Len(a) = Len(m.critical) + 1 BY <1>2
  <2>. HIDE DEF a
  <2>2. e \in CpMuxes /\ e.critical = a /\ e.normal = m.normal /\ e.data = m.data BY <1>1, <2>1 DEF CpMuxes
  <2>3. Len(a) + m.normal <= FfiControlItems BY <1>2, <1>6, <2>1, CpBounds
  <2>. HIDE DEF e
  <2>4. CpMux(e) BY <1>1, <2>2, <2>3 DEF CpMux
  <2>. QED BY <2>4 DEF a, e
<1>7. ASSUME Len(m.critical) + m.normal < FfiControlItems PROVE CpMux([m EXCEPT !.normal = @ + 1])
  <2>. DEFINE e == [m EXCEPT !.normal = @ + 1]
  <2>1. e \in CpMuxes /\ e.critical = m.critical /\ e.normal = m.normal + 1 /\ e.data = m.data BY <1>1 DEF CpMuxes
  <2>. HIDE DEF e
  <2>2. CpMux(e) BY <1>1, <1>2, <1>7, <2>1, CpBounds DEF CpMux
  <2>. QED BY <2>2 DEF e
<1>8. ASSUME m.data < FfiDataItems PROVE CpMux([m EXCEPT !.data = @ + 1])
  <2>. DEFINE e == [m EXCEPT !.data = @ + 1]
  <2>1. e \in CpMuxes /\ e.critical = m.critical /\ e.normal = m.normal /\ e.data = m.data + 1 BY <1>1 DEF CpMuxes
  <2>. HIDE DEF e
  <2>2. CpMux(e) BY <1>1, <1>2, <1>8, <2>1, CpBounds DEF CpMux
  <2>. QED BY <2>2 DEF e
<1>9. ASSUME m.critical # <<>> PROVE CpMux([m EXCEPT !.critical = Tail(@), !.run = @ + 1])
  <2>. DEFINE a == Tail(m.critical)  e == [m EXCEPT !.critical = a, !.run = m.run + 1]
  <2>1. a \in Seq(CmdIds) /\ Len(a) = Len(m.critical) - 1 BY <1>2, <1>9
  <2>2. m.run + 1 \in Nat BY <1>2
  <2>. HIDE DEF a
  <2>3. e \in CpMuxes /\ e.critical = a /\ e.normal = m.normal /\ e.data = m.data BY <1>3, <2>1, <2>2
  <2>4. Len(a) + m.normal <= FfiControlItems BY <1>1, <1>2, <2>1, CpBounds
  <2>. HIDE DEF e
  <2>5. CpMux(e) BY <1>1, <2>3, <2>4 DEF CpMux
  <2>. QED BY <2>5 DEF a, e
<1>10. ASSUME m.normal > 0 PROVE CpMux([m EXCEPT !.normal = @ - 1, !.run = @ + 1])
  <2>. DEFINE e == [m EXCEPT !.normal = @ - 1, !.run = @ + 1]
  <2>1. m.run + 1 \in Nat /\ m.normal - 1 \in Nat BY <1>2, <1>10
  <2>2. e \in CpMuxes /\ e.critical = m.critical /\ e.normal = m.normal - 1 /\ e.data = m.data BY <1>4, <2>1
  <2>. HIDE DEF e
  <2>3. CpMux(e) BY <1>1, <1>2, <2>2, CpBounds DEF CpMux
  <2>. QED BY <2>3 DEF e
<1>11. ASSUME m.data > 0 PROVE CpMux([m EXCEPT !.data = @ - 1, !.run = 0])
  <2>. DEFINE e == [m EXCEPT !.data = @ - 1, !.run = 0]
  <2>1. m.data - 1 \in Nat BY <1>2, <1>11
  <2>2. e \in CpMuxes /\ e.critical = m.critical /\ e.normal = m.normal /\ e.data = m.data - 1 BY <1>5, <2>1
  <2>. HIDE DEF e
  <2>3. CpMux(e) BY <1>1, <1>2, <2>2, CpBounds DEF CpMux
  <2>. QED BY <2>3 DEF e
<1>. QED BY <1>6, <1>7, <1>8, <1>9, <1>10, <1>11

\* Of the cancellations that are queued behind q, those that fit are counted there.
LEMMA CountQueued ==
  ASSUME NEW q \in Seq(CmdIds), NEW o \in Seq(CmdIds), NEW max \in Nat, Len(q) <= max, NEW x, NEW r \in Seq(CmdIds),
         r = IF Len(q \o o) <= max THEN q \o o ELSE SubSeq(q \o o, 1, max)
  PROVE  /\ Count(r, x) \in Nat /\ Count(r, x) >= Count(q, x)
         /\ (\E i \in DOMAIN o : o[i] = x /\ Len(q) + i <= max) => Count(r, x) >= Count(q, x) + 1
<1>. DEFINE T == {i \in DOMAIN q : q[i] = x}
            U == {i \in DOMAIN r : r[i] = x}
<1>1. IsFiniteSet(T) /\ IsFiniteSet(U)
  <2>1. Len(q) \in Nat /\ Len(r) \in Nat OBVIOUS
  <2>2. IsFiniteSet(1 .. Len(q)) BY <2>1, FS_Interval
  <2>3. IsFiniteSet(1 .. Len(r)) BY ONLY <2>1, FS_Interval
  <2>4. T \subseteq 1 .. Len(q) /\ U \subseteq 1 .. Len(r) OBVIOUS
  <2>. QED BY <2>2, <2>3, <2>4, FS_Subset
<1>2. Cardinality(T) \in Nat /\ Cardinality(U) \in Nat BY <1>1, FS_CardinalityType
<1>3. Count(q, x) = Cardinality(T) /\ Count(r, x) = Cardinality(U) BY DEF Count
<1>4. Len(q) \in Nat /\ Len(o) \in Nat /\ Len(r) \in Nat /\ DOMAIN q = 1 .. Len(q) /\ DOMAIN o = 1 .. Len(o) /\ DOMAIN r = 1 .. Len(r)
  OBVIOUS
<1>5. Len(r) = IF Len(q) + Len(o) <= max THEN Len(q) + Len(o) ELSE max OBVIOUS
<1>6. \A i \in 1 .. Len(r) : r[i] = (q \o o)[i] OBVIOUS
<1>7. \A i \in 1 .. Len(q) : (q \o o)[i] = q[i] OBVIOUS
<1>8. \A i \in 1 .. Len(o) : (q \o o)[Len(q) + i] = o[i] OBVIOUS
<1>9. T \subseteq U BY <1>4, <1>5, <1>6, <1>7
<1>10. Cardinality(T) <= Cardinality(U)
  <2>. HIDE DEF T, U
  <2>. QED BY <1>1, <1>9, FS_Subset
<1>11. ASSUME NEW i \in DOMAIN o, o[i] = x, Len(q) + i <= max
       PROVE  Cardinality(T) + 1 <= Cardinality(U)
  <2>1. Len(q) + i \in 1 .. Len(r) BY <1>4, <1>5, <1>11
  <2>2. r[Len(q) + i] = x BY <1>4, <1>6, <1>8, <1>11, <2>1
  <2>3. Len(q) + i \in U /\ Len(q) + i \notin T BY <1>4, <2>1, <2>2
  <2>. HIDE DEF T, U
  <2>4. T \cup {Len(q) + i} \subseteq U BY <1>9, <2>3
  <2>5. IsFiniteSet(T \cup {Len(q) + i}) /\ Cardinality(T \cup {Len(q) + i}) = Cardinality(T) + 1
    BY <1>1, <2>3, FS_AddElement
  <2>6. Cardinality(T \cup {Len(q) + i}) <= Cardinality(U) BY <1>1, <2>4, FS_Subset
  <2>. QED BY <2>5, <2>6
<1>. HIDE DEF T, U
<1>. QED BY <1>2, <1>3, <1>10, <1>11

\* The cancellations of a stop: each of the ids is queued, or counted as lost.
LEMMA CpSettles ==
  ASSUME CpTyped, NEW s \in CmdStoppers, CancelSettle(s),
         NEW ids, ids = cmdStopper[s].ids \ Range(ffiTerminal)
  PROVE  /\ cmdHistory' \in CpHistories /\ cmdHistory'.accepted = cmdHistory.accepted
         /\ cmdHistory'.answered = cmdHistory.answered /\ cmdHistory'.dispatched = cmdHistory.dispatched
         /\ Range(ffiTerminal') \subseteq Range(ffiTerminal) \cup ids
         /\ \A id \in CmdIds : /\ Count(ffiSynthetic', id) \in Nat
                               /\ Count(ffiSynthetic', id) + cmdHistory'.lost[id]
                                    >= Count(ffiSynthetic, id) + cmdHistory.lost[id] + One(id \in ids)
         /\ ffiTerminal' \in Seq(CmdIds) /\ IsInjective(ffiTerminal') /\ Len(ffiTerminal') <= FfiMaxTerminal
         /\ ffiSynthetic' \in Seq(CmdIds) /\ Len(ffiSynthetic') <= FfiControlItems
<1>. USE DEF CpTyped, CpFfiTyped, CpThreadsTyped
<1>1. ids \in SUBSET CmdIds /\ IsFiniteSet(ids) /\ ids \cap Range(ffiTerminal) = {}
  BY FS_Subset DEF CpStoppersTyped
<1>2. ids = cmdStopper[s].ids \ Settled(cmdStopper[s].ids) BY DEF Settled
<1>3. PICK order \in Injection(1 .. Cardinality(ids), ids) :
        LET queue == ffiSynthetic \o order
            Fits(i) == Len(ffiSynthetic) + i <= FfiControlItems IN
        /\ ffiTerminal' = Newest(ffiTerminal \o order, FfiMaxTerminal)
        /\ ffiSynthetic' = IF Len(queue) <= FfiControlItems THEN queue ELSE SubSeq(queue, 1, FfiControlItems)
        /\ cmdHistory' = [cmdHistory EXCEPT !.lost = [id \in CmdIds |->
             @[id] + (IF \E i \in DOMAIN order : order[i] = id /\ ~Fits(i) THEN 1 ELSE 0)]]
  BY <1>2 DEF CancelSettle
<1>4. order \in Seq(CmdIds) /\ IsInjective(order) /\ Range(order) = ids BY <1>1, CpOrder
<1>5. /\ ffiTerminal' \in Seq(CmdIds) /\ IsInjective(ffiTerminal') /\ Len(ffiTerminal') <= FfiMaxTerminal
      /\ Range(ffiTerminal') \subseteq Range(ffiTerminal) \cup ids
  BY <1>1, <1>3, <1>4, CpCancelled
<1>6. ffiSynthetic' \in Seq(CmdIds) /\ Len(ffiSynthetic') <= FfiControlItems
  <2>. DEFINE queue == ffiSynthetic \o order
  <2>1. queue \in Seq(CmdIds) BY <1>4
  <2>. HIDE DEF queue
  <2>2. ~(Len(queue) <= FfiControlItems) =>
          SubSeq(queue, 1, FfiControlItems) \in Seq(CmdIds) /\ Len(SubSeq(queue, 1, FfiControlItems)) = FfiControlItems
    BY <2>1, CpBounds
  <2>. QED BY <1>3, <2>1, <2>2, CpBounds DEF queue
<1>7. /\ cmdHistory' \in CpHistories /\ cmdHistory'.accepted = cmdHistory.accepted
      /\ cmdHistory'.answered = cmdHistory.answered /\ cmdHistory'.dispatched = cmdHistory.dispatched
      /\ \A id \in CmdIds : cmdHistory'.lost[id] = cmdHistory.lost[id]
           + One(\E i \in DOMAIN order : order[i] = id /\ ~(Len(ffiSynthetic) + i <= FfiControlItems))
  <2>. DEFINE l == [id \in CmdIds |-> cmdHistory.lost[id]
           + One(\E i \in DOMAIN order : order[i] = id /\ ~(Len(ffiSynthetic) + i <= FfiControlItems))]
  <2>1. l \in CpCounts BY DEF CpHistories, CpCounts, One
  <2>2. cmdHistory' = [cmdHistory EXCEPT !.lost = l] BY <1>3 DEF One
  <2>3. \A id \in CmdIds : l[id] = cmdHistory.lost[id]
           + One(\E i \in DOMAIN order : order[i] = id /\ ~(Len(ffiSynthetic) + i <= FfiControlItems))
    OBVIOUS
  <2>. HIDE DEF l
  <2>4. /\ cmdHistory' \in CpHistories /\ cmdHistory'.accepted = cmdHistory.accepted
        /\ cmdHistory'.answered = cmdHistory.answered /\ cmdHistory'.dispatched = cmdHistory.dispatched
        /\ cmdHistory'.lost = l
    BY <2>1, <2>2 DEF CpHistories
  <2>. QED BY <2>3, <2>4
<1>8. ASSUME NEW id \in CmdIds
      PROVE  /\ Count(ffiSynthetic', id) \in Nat
             /\ Count(ffiSynthetic', id) + cmdHistory'.lost[id]
                  >= Count(ffiSynthetic, id) + cmdHistory.lost[id] + One(id \in ids)
  <2>. DEFINE fits == \E i \in DOMAIN order : order[i] = id /\ Len(ffiSynthetic) + i <= FfiControlItems
              over == \E i \in DOMAIN order : order[i] = id /\ ~(Len(ffiSynthetic) + i <= FfiControlItems)
  <2>1. id \in ids => fits \/ over BY <1>4 DEF Range
  <2>2. /\ Count(ffiSynthetic', id) \in Nat /\ Count(ffiSynthetic', id) >= Count(ffiSynthetic, id)
        /\ fits => Count(ffiSynthetic', id) >= Count(ffiSynthetic, id) + 1
    <3>1. ffiSynthetic' = IF Len(ffiSynthetic \o order) <= FfiControlItems THEN ffiSynthetic \o order
                          ELSE SubSeq(ffiSynthetic \o order, 1, FfiControlItems) BY <1>3
    <3>2. FfiControlItems \in Nat /\ ffiSynthetic \in Seq(CmdIds) /\ Len(ffiSynthetic) <= FfiControlItems BY CpBounds
    <3>3. order \in Seq(CmdIds) /\ ffiSynthetic' \in Seq(CmdIds) BY <1>4, <1>6
    <3>. QED BY ONLY <3>1, <3>2, <3>3, CountQueued
  <2>3. cmdHistory'.lost[id] = cmdHistory.lost[id] + One(over) BY <1>7
  <2>. HIDE DEF fits, over
  <2>4. Count(ffiSynthetic, id) \in Nat BY CountNat
  <2>5. cmdHistory.lost[id] \in Nat BY DEF CpHistories, CpCounts
  <2>. QED BY <2>1, <2>2, <2>3, <2>4, <2>5 DEF One
<1>. QED BY <1>5, <1>6, <1>7, <1>8

LEMMA CpFfiStep ==
  ASSUME CpTyped, PipelineNext
  PROVE  CpFfiTyped'
<1>. USE DEF CpTyped, CpFfiTyped
<1>1. ASSUME NEW c \in CmdCallers, NEW id \in CmdIds, RememberCommand(c, id) PROVE CpFfiTyped'
  <2>1. IsFiniteSet(ffiPending') /\ Cardinality(ffiPending') = Cardinality(ffiPending) + 1
    BY <1>1, FS_AddElement DEF RememberCommand
  <2>2. Cardinality(ffiPending) \in Nat BY FS_CardinalityType
  <2>. QED BY <1>1, <2>1, <2>2, CpBounds DEF RememberCommand
<1>2. ASSUME NEW c \in CmdCallers, CheckRunning(c) PROVE CpFfiTyped'
  BY <1>2 DEF CheckRunning, ffiVars
<1>3. ASSUME NEW c \in CmdCallers, PushCommand(c) PROVE CpFfiTyped'
  BY <1>3 DEF PushCommand, ffiVars
<1>50. ASSUME NEW x, NEW p, p = ffiPending \ {x}
       PROVE  p \subseteq CmdIds /\ IsFiniteSet(p) /\ Cardinality(p) <= FfiMaxPending
  <2>1. IsFiniteSet(p) /\ Cardinality(p) <= Cardinality(ffiPending) BY <1>50, FS_Subset
  <2>2. Cardinality(ffiPending) \in Nat /\ Cardinality(p) \in Nat BY <2>1, FS_CardinalityType
  <2>3. p \subseteq CmdIds BY <1>50
  <2>. QED BY <2>1, <2>2, <2>3, CpBounds
<1>4. ASSUME NEW c \in CmdCallers, ForgetCommand(c) PROVE CpFfiTyped'
  BY <1>4, <1>50 DEF ForgetCommand
<1>5. CASE StartExchange BY <1>5 DEF StartExchange, ffiVars
<1>6. CASE StartFinish BY <1>6 DEF StartFinish, ffiVars
<1>7. ASSUME NEW s \in CmdStoppers, StopLoad(s) PROVE CpFfiTyped' BY <1>7 DEF StopLoad, ffiVars
<1>8. ASSUME NEW s \in CmdStoppers, StopWait(s) PROVE CpFfiTyped' BY <1>8 DEF StopWait, ffiVars
<1>9. ASSUME NEW s \in CmdStoppers, StopExchange(s) PROVE CpFfiTyped' BY <1>9 DEF StopExchange, ffiVars
<1>10. ASSUME NEW s \in CmdStoppers, StopTake(s) PROVE CpFfiTyped' BY <1>10 DEF StopTake, ffiVars
<1>11. ASSUME NEW s \in CmdStoppers, StopJoin(s) PROVE CpFfiTyped' BY <1>11 DEF StopJoin, ffiVars
<1>12. ASSUME NEW s \in CmdStoppers, StopStore(s) PROVE CpFfiTyped' BY <1>12 DEF StopStore, ffiVars
<1>13. ASSUME NEW s \in CmdStoppers, CancelDrain(s) PROVE CpFfiTyped'
  BY <1>13, FS_EmptySet, CpBounds DEF CancelDrain
<1>14. ASSUME NEW s \in CmdStoppers, CancelSettle(s) PROVE CpFfiTyped'
  <2>1. /\ ffiTerminal' \in Seq(CmdIds) /\ IsInjective(ffiTerminal') /\ Len(ffiTerminal') <= FfiMaxTerminal
        /\ ffiSynthetic' \in Seq(CmdIds) /\ Len(ffiSynthetic') <= FfiControlItems
    BY <1>14, CpSettles
  <2>. QED BY <1>14, <2>1 DEF CancelSettle
<1>15. CASE WorkerRecv BY <1>15 DEF WorkerRecv, WorkerKeeps, ffiVars
<1>16. CASE Dispatched BY <1>16 DEF Dispatched, WorkerKeeps, ffiVars
<1>17. CASE WorkerEmit BY <1>17 DEF WorkerEmit, WorkerKeeps, ffiVars
<1>18. CASE WorkerEnds BY <1>18 DEF WorkerEnds, WorkerKeeps, ffiVars
<1>19. CASE PollSynthetic
  <2>1. ffiSynthetic' \in Seq(CmdIds) /\ Len(ffiSynthetic') <= FfiControlItems BY <1>19, CpBounds DEF PollSynthetic
  <2>. QED BY <1>19, <2>1 DEF PollSynthetic, PollKeeps
<1>20. CASE DrainResult
  <2>. DEFINE id == Head(cmdResults)
  <2>1. id \in CmdIds BY <1>20 DEF DrainResult, CpCoreTyped
  <2>2. LET r == Remember(ffiTerminal, id, FfiMaxTerminal) IN
          r \in Seq(CmdIds) /\ IsInjective(r) /\ Len(r) <= FfiMaxTerminal
    BY <2>1, CpBounds, RememberIs
  <2>3. ffiTerminal' \in Seq(CmdIds) /\ IsInjective(ffiTerminal') /\ Len(ffiTerminal') <= FfiMaxTerminal
    BY <1>20, <2>2 DEF DrainResult
  <2>4. ffiPending' \subseteq CmdIds /\ IsFiniteSet(ffiPending') /\ Cardinality(ffiPending') <= FfiMaxPending
    BY <1>20, <1>50 DEF DrainResult
  <2>5. CpMux(ffiDrained')
    <3>1. ControlRoom => CpMux([ffiDrained EXCEPT !.critical = Append(@, id)]) BY <2>1, CpMuxSteps DEF ControlRoom
    <3>. QED BY <1>20, <3>1 DEF DrainResult
  <2>6. ffiPoll' \in 0 .. FfiDrainBatch BY <1>20, CpBounds DEF DrainResult, Draining
  <2>. QED BY <1>20, <2>3, <2>4, <2>5, <2>6 DEF DrainResult
<1>21. ASSUME NEW k \in {"normal", "data"}, DrainNoise(k) PROVE CpFfiTyped'
  <2>1. ffiPoll' \in 0 .. FfiDrainBatch BY <1>21, CpBounds DEF DrainNoise, Draining
  <2>2. CpMux(ffiDrained')
    <3>1. /\ ControlRoom => CpMux([ffiDrained EXCEPT !.normal = @ + 1])
          /\ ffiDrained.data < FfiDataItems => CpMux([ffiDrained EXCEPT !.data = @ + 1])
      BY CpMuxSteps DEF ControlRoom
    <3>2. \/ ffiDrained' = [ffiDrained EXCEPT !.normal = @ + 1] /\ ControlRoom
          \/ ffiDrained' = [ffiDrained EXCEPT !.data = @ + 1] /\ ffiDrained.data < FfiDataItems
          \/ ffiDrained' = ffiDrained
      BY <1>21 DEF DrainNoise, CpMux, CpMuxes
    <3>. QED BY <3>1, <3>2
  <2>. QED BY <1>21, <2>1, <2>2 DEF DrainNoise, PollKeeps
<1>22. CASE PollReturn
  <2>1. ffiPoll' \in 0 .. FfiDrainBatch BY <1>22, CpBounds DEF PollReturn
  <2>2. CpMux(ffiDrained')
    <3>1. /\ ffiDrained.critical # <<>> => CpMux([ffiDrained EXCEPT !.critical = Tail(@), !.run = @ + 1])
          /\ ffiDrained.normal > 0 => CpMux([ffiDrained EXCEPT !.normal = @ - 1, !.run = @ + 1])
          /\ ffiDrained.data > 0 => CpMux([ffiDrained EXCEPT !.data = @ - 1, !.run = 0])
      BY CpMuxSteps
    <3>. QED BY <1>22, <3>1 DEF PollReturn, MuxPop
  <2>. QED BY <1>22, <2>1, <2>2 DEF PollReturn, PollKeeps
<1>. QED
  BY <1>1, <1>2, <1>3, <1>4, <1>5, <1>6, <1>7, <1>8, <1>9, <1>10, <1>11, <1>12, <1>13, <1>14, <1>15, <1>16,
     <1>17, <1>18, <1>19, <1>20, <1>21, <1>22
     DEF PipelineNext, CallerStep, StopperStep, WorkerStep, PollStep

\* A stopper that goes on to its next stage keeps the ids it holds.
LEMMA CpStopperMoves ==
  ASSUME CpStoppersTyped, NEW s \in CmdStoppers, cmdStopper[s].at # "settle", NEW stage \in CpStages, StopperAt(s, stage)
  PROVE  /\ CpStoppersTyped' /\ cmdStopper'[s].at = stage
         /\ \A r \in CmdStoppers : cmdStopper'[r].ids = cmdStopper[r].ids /\ (r # s => cmdStopper'[r] = cmdStopper[r])
<1>1. cmdStopper[s] \in [at : CpStages, ids : SUBSET CmdIds] /\ cmdStopper[s].ids = {} BY DEF CpStoppersTyped
<1>2. [cmdStopper[s] EXCEPT !.at = stage] \in [at : CpStages, ids : SUBSET CmdIds] BY <1>1
<1>3. cmdStopper' \in [CmdStoppers -> [at : CpStages, ids : SUBSET CmdIds]] BY <1>2 DEF StopperAt, CpStoppersTyped
<1>4. cmdStopper'[s].at = stage /\ cmdStopper'[s].ids = cmdStopper[s].ids BY <1>1 DEF StopperAt, CpStoppersTyped
<1>5. \A r \in CmdStoppers : r # s => cmdStopper'[r] = cmdStopper[r] BY DEF StopperAt, CpStoppersTyped
<1>. QED BY <1>1, <1>3, <1>4, <1>5 DEF CpStoppersTyped

\* The ids of a stopper are exchanged.
LEMMA CpStopperHolds ==
  ASSUME CpStoppersTyped, NEW s \in CmdStoppers, NEW stage \in CpStages, NEW ids \in SUBSET CmdIds, IsFiniteSet(ids),
         stage # "settle" => ids = {}, cmdStopper' = [cmdStopper EXCEPT ![s] = [at |-> stage, ids |-> ids]]
  PROVE  /\ CpStoppersTyped' /\ cmdStopper'[s].at = stage /\ cmdStopper'[s].ids = ids
         /\ \A r \in CmdStoppers : r # s => cmdStopper'[r] = cmdStopper[r]
BY DEF CpStoppersTyped

LEMMA CpCallersStep ==
  ASSUME CpTyped, PipelineNext
  PROVE  CpCallersTyped'
<1>. USE DEF CpTyped, CpThreadsTyped, CpCallersTyped
<1>1. ASSUME NEW c \in CmdCallers, NEW id \in CmdIds, RememberCommand(c, id) PROVE CpCallersTyped'
  BY <1>1 DEF RememberCommand, Ats, CpSlot
<1>2. ASSUME NEW c \in CmdCallers, CheckRunning(c) PROVE CpCallersTyped'
  BY <1>2 DEF CheckRunning
<1>3. ASSUME NEW c \in CmdCallers, PushCommand(c) PROVE CpCallersTyped'
  BY <1>3, CpBounds DEF PushCommand, Ats
<1>4. ASSUME NEW c \in CmdCallers, ForgetCommand(c) PROVE CpCallersTyped'
  BY <1>4, CpBounds DEF ForgetCommand, Ats
<1>5. CASE UNCHANGED cmdCaller BY <1>5
<1>6. CASE StartExchange \/ StartFinish BY <1>5, <1>6 DEF StartExchange, StartFinish
<1>7. ASSUME NEW s \in CmdStoppers, StopLoad(s) \/ StopperStep(s) PROVE CpCallersTyped'
  BY <1>5, <1>7 DEF StopLoad, StopperStep, StopWait, StopExchange, StopTake, StopJoin, StopStore, CancelDrain, CancelSettle
<1>8. CASE WorkerStep BY <1>5, <1>8 DEF WorkerStep, WorkerRecv, Dispatched, WorkerEmit, WorkerEnds, WorkerKeeps
<1>9. CASE PollStep BY <1>5, <1>9 DEF PollStep, PollSynthetic, DrainResult, DrainNoise, PollReturn, PollKeeps
<1>. QED BY <1>1, <1>2, <1>3, <1>4, <1>6, <1>7, <1>8, <1>9 DEF PipelineNext, CallerStep

LEMMA CpStoppersStep ==
  ASSUME CpTyped, PipelineNext
  PROVE  CpStoppersTyped'
<1>. USE DEF CpTyped, CpThreadsTyped
<1>1. CASE UNCHANGED cmdStopper BY <1>1 DEF CpStoppersTyped
<1>2. ASSUME NEW c \in CmdCallers, CallerStep(c) \/ \E id \in CmdIds : RememberCommand(c, id) PROVE CpStoppersTyped'
  BY <1>1, <1>2 DEF CallerStep, RememberCommand, CheckRunning, PushCommand, ForgetCommand
<1>3. CASE StartExchange \/ StartFinish BY <1>1, <1>3 DEF StartExchange, StartFinish
<1>4. ASSUME NEW s \in CmdStoppers, StopLoad(s) PROVE CpStoppersTyped'
  <2>1. PICK stage \in {"store", "wait", "exchange"} : StopperAt(s, stage) BY <1>4 DEF StopLoad
  <2>2. cmdStopper[s].at # "settle" /\ stage \in CpStages BY <1>4 DEF StopLoad, CpStages
  <2>. QED BY <2>1, <2>2, CpStopperMoves
<1>5. ASSUME NEW s \in CmdStoppers, StopWait(s) \/ StopExchange(s) \/ StopTake(s) \/ StopJoin(s) \/ StopStore(s)
      PROVE  CpStoppersTyped'
  <2>1. PICK stage \in {"cancel", "take", "join", "store"} : StopperAt(s, stage)
    BY <1>5 DEF StopWait, StopExchange, StopTake, StopJoin, StopStore
  <2>2. cmdStopper[s].at # "settle" BY <1>5 DEF StopWait, StopExchange, StopTake, StopJoin, StopStore
  <2>3. stage \in CpStages BY DEF CpStages
  <2>. QED BY <2>1, <2>2, <2>3, CpStopperMoves
<1>6. ASSUME NEW s \in CmdStoppers, CancelDrain(s) PROVE CpStoppersTyped'
  BY <1>6, CpStopperHolds DEF CancelDrain, CpFfiTyped, CpStages
<1>7. ASSUME NEW s \in CmdStoppers, CancelSettle(s) PROVE CpStoppersTyped'
  BY <1>7, CpStopperHolds, FS_EmptySet DEF CancelSettle, CpStages
<1>8. CASE WorkerStep BY <1>1, <1>8 DEF WorkerStep, WorkerRecv, Dispatched, WorkerEmit, WorkerEnds, WorkerKeeps
<1>9. CASE PollStep BY <1>1, <1>9 DEF PollStep, PollSynthetic, DrainResult, DrainNoise, PollReturn, PollKeeps
<1>. QED BY <1>2, <1>3, <1>4, <1>5, <1>6, <1>7, <1>8, <1>9 DEF PipelineNext, StopperStep

LEMMA CpHistoryStep ==
  ASSUME CpTyped, PipelineNext
  PROVE  cmdHistory' \in CpHistories
<1>. USE DEF CpTyped, CpThreadsTyped
<1>1. CASE UNCHANGED cmdHistory BY <1>1
<1>2. ASSUME NEW c \in CmdCallers, NEW id \in CmdIds, RememberCommand(c, id) PROVE cmdHistory' \in CpHistories
  <2>. DEFINE h == [cmdHistory EXCEPT !.remembered[id] = @ + 1]
  <2>1. h \in CpHistories /\ h.calls = cmdHistory.calls BY CpBumpRemembered DEF CpHistories
  <2>2. cmdHistory' = [h EXCEPT !.calls = @ + 1] BY <1>2, <2>1 DEF RememberCommand
  <2>. HIDE DEF h
  <2>. QED BY <2>1, <2>2 DEF CpHistories
<1>3. ASSUME NEW c \in CmdCallers, PushCommand(c) PROVE cmdHistory' \in CpHistories
  <2>1. cmdCaller[c].id \in CmdIds BY <1>3 DEF PushCommand, CpCallersTyped
  <2>. QED BY <1>3, <2>1, CpBumpAccepted DEF PushCommand
<1>4. ASSUME NEW c \in CmdCallers, CheckRunning(c) \/ ForgetCommand(c) PROVE cmdHistory' \in CpHistories
  BY <1>1, <1>4 DEF CheckRunning, ForgetCommand
<1>5. CASE StartExchange \/ StartFinish BY <1>1, <1>5 DEF StartExchange, StartFinish
<1>6. ASSUME NEW s \in CmdStoppers, StopLoad(s) \/ StopperStep(s), ~CancelSettle(s) PROVE cmdHistory' \in CpHistories
  BY <1>1, <1>6 DEF StopLoad, StopperStep, StopWait, StopExchange, StopTake, StopJoin, StopStore, CancelDrain
<1>7. ASSUME NEW s \in CmdStoppers, CancelSettle(s) PROVE cmdHistory' \in CpHistories BY <1>7, CpSettles
<1>8. CASE WorkerRecv
  <2>1. Head(cmdMail) \in CmdIds BY <1>8 DEF WorkerRecv, CpCoreTyped
  <2>2. Append(cmdHistory.dispatched, Head(cmdMail)) \in Seq(CmdIds) BY <2>1 DEF CpHistories
  <2>3. \/ cmdHistory' = [cmdHistory EXCEPT !.dispatched = Append(cmdHistory.dispatched, Head(cmdMail))]
        \/ cmdHistory' = cmdHistory
    BY <1>8 DEF WorkerRecv
  <2>. QED BY <2>2, <2>3 DEF CpHistories
<1>9. CASE Dispatched \/ WorkerEmit \/ WorkerEnds BY <1>1, <1>9 DEF Dispatched, WorkerEmit, WorkerEnds
<1>10. CASE PollSynthetic
  <2>1. Head(ffiSynthetic) \in CmdIds BY <1>10 DEF PollSynthetic, CpFfiTyped
  <2>. QED BY <1>10, <2>1, CpBumpAnswered DEF PollSynthetic
<1>11. CASE DrainResult
  <2>1. Head(cmdResults) \in CmdIds BY <1>11 DEF DrainResult, CpCoreTyped
  <2>. QED BY <1>11, <2>1, CpBumpLost DEF DrainResult
<1>12. ASSUME NEW k \in {"normal", "data"}, DrainNoise(k) PROVE cmdHistory' \in CpHistories
  BY <1>1, <1>12 DEF DrainNoise
<1>13. CASE PollReturn
  <2>1. ffiDrained.critical # <<>> => Head(ffiDrained.critical) \in CmdIds BY DEF CpFfiTyped, CpMux, CpMuxes
  <2>. QED BY <1>13, <2>1, CpBumpAnswered DEF PollReturn, MuxPop
<1>. QED
  BY <1>2, <1>3, <1>4, <1>5, <1>6, <1>7, <1>8, <1>9, <1>10, <1>11, <1>12, <1>13
     DEF PipelineNext, CallerStep, WorkerStep, PollStep

LEMMA CpTypedStep ==
  ASSUME CpTyped, PipelineNext
  PROVE  CpTyped'
BY CpCoreStep, CpFfiStep, CpCallersStep, CpStoppersStep, CpHistoryStep DEF CpTyped, CpThreadsTyped

-----------------------------------------------------------------------------
(* Commands: the lifecycle                                                 *)

\* A step of a stopper in the terms of the stages.
LEMMA CpStagesMove ==
  ASSUME CpTyped, NEW s \in CmdStoppers, StopLoad(s) \/ StopperStep(s)
  PROVE  /\ \A r \in CmdStoppers : r # s => cmdStopper'[r] = cmdStopper[r]
         /\ StopLoad(s) => cmdStopper'[s].at = IF cmdLife \in {"created", "stopped"} THEN "store"
                                               ELSE IF cmdLife = "stopping" THEN "wait" ELSE "exchange"
         /\ StopWait(s) => cmdStopper'[s].at = "cancel"
         /\ StopExchange(s) => cmdStopper'[s].at = IF cmdLife = "running" THEN "take" ELSE "cancel"
         /\ StopTake(s) => cmdStopper'[s].at = IF cmdState THEN "join" ELSE "store"
         /\ StopJoin(s) => cmdStopper'[s].at = "store"
         /\ StopStore(s) => cmdStopper'[s].at = "cancel"
         /\ CancelDrain(s) => cmdStopper'[s].at = "settle" /\ cmdStopper'[s].ids = ffiPending
         /\ CancelSettle(s) => cmdStopper'[s].at = "done" /\ cmdStopper'[s].ids = {}
         /\ ~CancelDrain(s) /\ ~CancelSettle(s) => cmdStopper'[s].ids = {} /\ cmdStopper[s].ids = {}
<1>. USE DEF CpTyped, CpThreadsTyped
<1>1. cmdStopper \in [CmdStoppers -> [at : CpStages, ids : SUBSET CmdIds]] BY DEF CpStoppersTyped
<1>2. \A r \in CmdStoppers : r # s => cmdStopper'[r] = cmdStopper[r]
  BY <1>1 DEF StopLoad, StopperStep, StopWait, StopExchange, StopTake, StopJoin, StopStore, CancelDrain, CancelSettle, StopperAt
<1>3. \A stage : StopperAt(s, stage) => cmdStopper'[s].at = stage /\ cmdStopper'[s].ids = cmdStopper[s].ids
  BY <1>1 DEF StopperAt
<1>4. StopLoad(s) => cmdStopper'[s].at = IF cmdLife \in {"created", "stopped"} THEN "store"
                                         ELSE IF cmdLife = "stopping" THEN "wait" ELSE "exchange"
  BY <1>3 DEF StopLoad
<1>5. /\ StopWait(s) => cmdStopper'[s].at = "cancel"
      /\ StopExchange(s) => cmdStopper'[s].at = IF cmdLife = "running" THEN "take" ELSE "cancel"
      /\ StopTake(s) => cmdStopper'[s].at = IF cmdState THEN "join" ELSE "store"
      /\ StopJoin(s) => cmdStopper'[s].at = "store"
      /\ StopStore(s) => cmdStopper'[s].at = "cancel"
  BY <1>3 DEF StopWait, StopExchange, StopTake, StopJoin, StopStore
<1>6. /\ CancelDrain(s) => cmdStopper'[s].at = "settle" /\ cmdStopper'[s].ids = ffiPending
      /\ CancelSettle(s) => cmdStopper'[s].at = "done" /\ cmdStopper'[s].ids = {}
  BY <1>1 DEF CancelDrain, CancelSettle
<1>7. ~CancelDrain(s) /\ ~CancelSettle(s) => cmdStopper'[s].ids = {} /\ cmdStopper[s].ids = {}
  BY <1>3 DEF CpStoppersTyped, StopLoad, StopperStep, StopWait, StopExchange, StopTake, StopJoin, StopStore
<1>. QED BY <1>2, <1>4, <1>5, <1>6, <1>7

LEMMA CpLifeStep ==
  ASSUME CpTyped, CpLife, PipelineNext, ~StartStopOverlap
  PROVE  CpLife'
<1>0. cmdTx \in BOOLEAN /\ cmdState \in BOOLEAN /\ cmdStarting \in BOOLEAN /\ cmdWorker.at \in {"absent", "idle", "gone"} \cup CpBusy
      /\ cmdLife \in {"created", "running", "stopping", "stopped"} BY DEF CpTyped, CpCoreTyped
<1>1. CASE UNCHANGED <<cmdLifecycle, cmdMail, cmdWorker, cmdStopper>> BY <1>1 DEF CpLife, CpQuiet, cmdLifecycle
<1>2. ASSUME NEW c \in CmdCallers, PushCommand(c) PROVE CpLife'
  BY <1>2 DEF PushCommand, CpLife, CpQuiet, cmdLifecycle
<1>3. ASSUME NEW c \in CmdCallers, NEW id \in CmdIds, RememberCommand(c, id) PROVE CpLife'
  BY <1>1, <1>3 DEF RememberCommand, cmdCore
<1>4. ASSUME NEW c \in CmdCallers, CheckRunning(c) \/ ForgetCommand(c) PROVE CpLife'
  BY <1>1, <1>4 DEF CheckRunning, ForgetCommand, cmdCore
<1>5. CASE StartExchange BY <1>5 DEF StartExchange, CpLife, CpQuiet, cmdCore
<1>6. CASE StartFinish BY <1>6 DEF StartFinish, CpLife, CpQuiet, Ats
<1>7. ASSUME NEW s \in CmdStoppers, StopLoad(s) \/ StopperStep(s) PROVE CpLife'
  <2>1. \A r \in CmdStoppers : r # s => cmdStopper'[r] = cmdStopper[r] BY <1>7, CpStagesMove
  <2>2. CASE StopLoad(s)
    <3>1. cmdStopper'[s].at = IF cmdLife \in {"created", "stopped"} THEN "store"
                              ELSE IF cmdLife = "stopping" THEN "wait" ELSE "exchange" BY <2>2, CpStagesMove
    <3>2. UNCHANGED <<cmdLifecycle, cmdMail, cmdWorker>> /\ ~cmdStarting BY <2>2 DEF StopLoad, cmdCore
    <3>. QED BY <1>0, <2>1, <3>1, <3>2 DEF CpLife, CpQuiet, cmdLifecycle
  <2>3. CASE StopWait(s)
    <3>1. cmdStopper'[s].at = "cancel" /\ cmdStopper[s].at = "wait" BY <2>3, CpStagesMove DEF StopperStep, StopWait
    <3>2. UNCHANGED <<cmdLifecycle, cmdMail, cmdWorker>> BY <2>3 DEF StopWait, cmdCore
    <3>. QED BY <1>0, <2>1, <3>1, <3>2 DEF CpLife, CpQuiet, cmdLifecycle
  <2>4. CASE StopExchange(s)
    <3>1. /\ cmdStopper'[s].at = IF cmdLife = "running" THEN "take" ELSE "cancel"
          /\ cmdStopper[s].at = "exchange" BY <2>4, CpStagesMove DEF StopperStep, StopExchange
    <3>2. /\ UNCHANGED <<cmdTx, cmdState, cmdStarting, cmdMail, cmdWorker>>
          /\ cmdLife' = IF cmdLife = "running" THEN "stopping" ELSE cmdLife BY <2>4 DEF StopExchange, cmdCore
    <3>. QED BY <1>0, <2>1, <3>1, <3>2 DEF CpLife, CpQuiet
  <2>5. CASE StopTake(s)
    <3>1. /\ cmdStopper'[s].at = "join" /\ cmdStopper[s].at = "take" BY <2>5, CpStagesMove DEF StopperStep, StopTake, CpLife
    <3>2. UNCHANGED <<cmdLife, cmdStarting, cmdMail, cmdWorker>> /\ cmdTx' = FALSE /\ cmdState' = FALSE
      BY <2>5 DEF StopTake, cmdCore
    <3>. QED BY <1>0, <2>1, <3>1, <3>2 DEF CpLife, CpQuiet
  <2>6. CASE StopJoin(s)
    <3>1. /\ cmdStopper'[s].at = "store" /\ cmdStopper[s].at = "join" BY <2>6, CpStagesMove DEF StopperStep, StopJoin
    <3>2. UNCHANGED cmdLifecycle /\ cmdMail' = <<>> /\ cmdWorker'.at = "gone" BY <2>6 DEF StopJoin, Ats
    <3>. QED BY <1>0, <2>1, <3>1, <3>2 DEF CpLife, CpQuiet, cmdLifecycle
  <2>7. CASE StopStore(s)
    <3>1. /\ cmdStopper'[s].at = "cancel" /\ cmdStopper[s].at = "store" BY <2>7, CpStagesMove DEF StopperStep, StopStore
    <3>2. UNCHANGED <<cmdTx, cmdState, cmdStarting, cmdMail, cmdWorker>> /\ cmdLife' = "stopped" BY <2>7 DEF StopStore, cmdCore
    <3>. QED BY <1>0, <2>1, <3>1, <3>2 DEF CpLife, CpQuiet
  <2>8. CASE CancelDrain(s) \/ CancelSettle(s)
    <3>1. /\ cmdStopper'[s].at \in {"settle", "done"} /\ cmdStopper[s].at \in {"cancel", "settle"}
      BY <2>8, CpStagesMove DEF StopperStep, CancelDrain, CancelSettle
    <3>2. UNCHANGED <<cmdLifecycle, cmdMail, cmdWorker>> BY <2>8 DEF CancelDrain, CancelSettle, cmdCore
    <3>. QED BY <1>0, <2>1, <3>1, <3>2 DEF CpLife, CpQuiet, cmdLifecycle
  <2>. QED BY <1>7, <2>2, <2>3, <2>4, <2>5, <2>6, <2>7, <2>8 DEF StopperStep
<1>8. CASE WorkerStep
  <2>1. /\ UNCHANGED <<cmdLifecycle, cmdStopper>> /\ cmdWorker.at \notin {"absent", "gone"}
        /\ cmdWorker'.at \in {"idle", "dispatch", "refuse", "emit", "gone"}
        /\ cmdWorker'.at = "gone" => cmdWorker.at = "idle" /\ ~cmdTx
    BY <1>8, <1>0 DEF WorkerStep, WorkerRecv, Dispatched, WorkerEmit, WorkerEnds, WorkerKeeps, Ats
  <2>. QED BY <1>0, <2>1 DEF CpLife, CpQuiet, cmdLifecycle
<1>9. CASE PollStep BY <1>1, <1>9 DEF PollStep, PollSynthetic, DrainResult, DrainNoise, PollReturn, PollKeeps
<1>. QED BY <1>2, <1>3, <1>4, <1>5, <1>6, <1>7, <1>8, <1>9 DEF PipelineNext, CallerStep
-----------------------------------------------------------------------------
(* Commands: the ledger                                                    *)

\* Only the worker dispatches a command and completes a claim.
LEMMA CpLedgerKept ==
  ASSUME CpTyped, PipelineNext, ~WorkerRecv
  PROVE  cmdHistory'.dispatched = cmdHistory.dispatched /\ (~WorkerEmit => cmdLedger' = cmdLedger)
<1>. USE DEF CpTyped, CpThreadsTyped
<1>0. CASE cmdHistory' = cmdHistory /\ cmdLedger' = cmdLedger BY <1>0
<1>1. ASSUME NEW c \in CmdCallers, NEW id \in CmdIds, RememberCommand(c, id)
      PROVE  cmdHistory'.dispatched = cmdHistory.dispatched /\ cmdLedger' = cmdLedger
  BY <1>1 DEF RememberCommand, cmdCore, CpHistories
<1>2. ASSUME NEW c \in CmdCallers, PushCommand(c)
      PROVE  cmdHistory'.dispatched = cmdHistory.dispatched /\ cmdLedger' = cmdLedger
  BY <1>2 DEF PushCommand, CpHistories
<1>3. ASSUME NEW c \in CmdCallers, CheckRunning(c) \/ ForgetCommand(c) PROVE cmdHistory' = cmdHistory /\ cmdLedger' = cmdLedger
  BY <1>3 DEF CheckRunning, ForgetCommand, cmdCore
<1>4. CASE StartExchange \/ StartFinish BY <1>0, <1>4 DEF StartExchange, StartFinish, cmdCore
<1>5. ASSUME NEW s \in CmdStoppers, StopLoad(s) \/ StopperStep(s), ~CancelSettle(s)
      PROVE  cmdHistory' = cmdHistory /\ cmdLedger' = cmdLedger
  BY <1>5 DEF StopLoad, StopperStep, StopWait, StopExchange, StopTake, StopJoin, StopStore, CancelDrain, cmdCore
<1>6. ASSUME NEW s \in CmdStoppers, CancelSettle(s)
      PROVE  cmdHistory'.dispatched = cmdHistory.dispatched /\ cmdLedger' = cmdLedger
  BY <1>6, CpSettles DEF CancelSettle, cmdCore
<1>7. CASE WorkerStep BY <1>7 DEF WorkerStep, Dispatched, WorkerEmit, WorkerEnds
<1>8. CASE PollSynthetic BY <1>8 DEF PollSynthetic, PollKeeps, CpHistories
<1>9. CASE DrainResult BY <1>9 DEF DrainResult, CpHistories
<1>10. ASSUME NEW k \in {"normal", "data"}, DrainNoise(k) PROVE cmdHistory' = cmdHistory /\ cmdLedger' = cmdLedger
  BY <1>10 DEF DrainNoise, PollKeeps
<1>11. CASE PollReturn
  <2>1. cmdHistory'.dispatched = cmdHistory.dispatched BY <1>11 DEF PollReturn, MuxPop, CpHistories
  <2>. QED BY <1>11, <2>1 DEF PollReturn, PollKeeps
<1>. QED
  BY <1>0, <1>1, <1>2, <1>3, <1>4, <1>5, <1>6, <1>7, <1>8, <1>9, <1>10, <1>11
     DEF PipelineNext, CallerStep, PollStep

\* The worker is moved by start, by stop and by itself.
LEMMA CpWorkerKept ==
  ASSUME PipelineNext
  PROVE  \/ cmdWorker' = cmdWorker \/ StartFinish \/ WorkerStep
         \/ cmdWorker' = Ats("gone", NoCmd) /\ \E s \in CmdStoppers : StopJoin(s)
BY DEF PipelineNext, CallerStep, RememberCommand, CheckRunning, PushCommand, ForgetCommand, StartExchange, StopLoad,
       StopperStep, StopWait, StopExchange, StopTake, StopJoin, StopStore, CancelDrain, CancelSettle, PollStep,
       PollSynthetic, DrainResult, DrainNoise, PollReturn, PollKeeps, cmdCore

\* A claimed command is new to the ledger, so it was not among the last
\* MAX_COMPLETED_COMMANDS that were dispatched.
LEMMA CpClaimed ==
  ASSUME NEW d \in Seq(CmdIds), NEW g \in Seq(CmdIds), NEW id \in CmdIds, id \notin Range(g), CpHolds(g, d, Len(d)),
         \A i, j \in DOMAIN d : i < j /\ d[i] = d[j] => j - i > CmdMaxCompleted
  PROVE  /\ CpHolds(g, Append(d, id), Len(d))
         /\ \A i, j \in DOMAIN Append(d, id) : i < j /\ Append(d, id)[i] = Append(d, id)[j] => j - i > CmdMaxCompleted
<1>. DEFINE e == Append(d, id)  n == Len(d)  l == Len(g)
<1>1. n \in Nat /\ l \in Nat /\ DOMAIN d = 1 .. n /\ DOMAIN g = 1 .. l /\ DOMAIN e = 1 .. n + 1 OBVIOUS
<1>2. l = (IF n <= CmdMaxCompleted THEN n ELSE CmdMaxCompleted) /\ \A i \in 1 .. l : g[i] = d[n - l + i] BY DEF CpHolds
<1>3. e[n + 1] = id /\ \A i \in 1 .. n : e[i] = d[i] OBVIOUS
<1>4. CmdMaxCompleted \in Nat BY CpBounds
<1>5. \A i \in 1 .. l : g[i] # id BY <1>1 DEF Range
<1>6. CpHolds(g, e, n) <=> l = (IF n <= CmdMaxCompleted THEN n ELSE CmdMaxCompleted) /\ \A i \in 1 .. l : g[i] = e[n - l + i]
  BY DEF CpHolds
<1>. HIDE DEF e, n, l
<1>7. l <= n BY ONLY <1>1, <1>2, <1>4
<1>8. ASSUME NEW i \in 1 .. l PROVE g[i] = e[n - l + i]
  <2>1. n - l + i \in 1 .. n BY ONLY <1>1, <1>7, i \in 1 .. l
  <2>. QED BY <1>2, <1>3, <2>1
<1>9. ASSUME NEW i \in 1 .. n, d[i] = id PROVE n + 1 - i > CmdMaxCompleted
  <2>1. ASSUME n + 1 - i <= CmdMaxCompleted PROVE FALSE
    <3>. DEFINE k == i - (n - l)
    <3>1. k \in 1 .. l /\ n - l + k = i BY ONLY <1>1, <1>2, <1>4, <2>1, i \in 1 .. n
    <3>. HIDE DEF k
    <3>2. g[k] = d[i] BY <1>2, <3>1
    <3>. QED BY <1>5, <1>9, <3>1, <3>2
  <2>. QED BY <1>1, <1>4, <2>1
<1>10. ASSUME NEW i \in 1 .. n + 1, NEW j \in 1 .. n + 1, i < j, e[i] = e[j] PROVE j - i > CmdMaxCompleted
  <2>1. i \in 1 .. n BY <1>1, <1>10
  <2>2. CASE j = n + 1
    <3>1. d[i] = id BY <1>3, <1>10, <2>1, <2>2
    <3>2. n + 1 - i > CmdMaxCompleted BY <1>9, <2>1, <3>1
    <3>. QED BY ONLY <1>1, <1>4, <2>1, <2>2, <3>2
  <2>3. CASE j # n + 1
    <3>1. j \in 1 .. n BY <1>1, <2>3
    <3>2. d[i] = d[j] BY <1>3, <1>10, <2>1, <3>1
    <3>. QED BY <1>1, <1>10, <2>1, <3>1, <3>2
  <2>. QED BY <2>2, <2>3
<1>11. CpHolds(g, e, n) BY <1>2, <1>6, <1>8
<1>12. \A i, j \in DOMAIN e : i < j /\ e[i] = e[j] => j - i > CmdMaxCompleted BY <1>1, <1>10
<1>. QED BY <1>11, <1>12 DEF e, n

\* A completed claim joins the ledger, and the oldest leaves it at the limit.
LEMMA CpCompleted ==
  ASSUME NEW d \in Seq(CmdIds), d # <<>>, NEW g \in Seq(CmdIds), IsInjective(g), Len(g) <= CmdMaxCompleted,
         d[Len(d)] \notin Range(g), CpHolds(g, d, Len(d) - 1)
  PROVE  CpHolds(Remember(g, d[Len(d)], CmdMaxCompleted), d, Len(d))
<1>. DEFINE n == Len(d)  l == Len(g)  id == d[n]  o == Append(g, id)
            r == Remember(g, id, CmdMaxCompleted)  q == Len(r)
<1>1. n \in Nat \ {0} /\ l \in Nat /\ id \in CmdIds OBVIOUS
<1>2. CmdMaxCompleted \in Nat \ {0} BY CpBounds
<1>3. l = (IF n - 1 <= CmdMaxCompleted THEN n - 1 ELSE CmdMaxCompleted) /\ \A i \in 1 .. l : g[i] = d[(n - 1) - l + i]
  BY DEF CpHolds
<1>4. q = (IF l < CmdMaxCompleted THEN l + 1 ELSE CmdMaxCompleted) /\ \A i \in 1 .. q : r[i] = o[l + 1 - q + i]
  <2>. HIDE DEF id
  <2>1. id \notin Range(g) BY DEF id
  <2>2. o \in Seq(CmdIds) /\ Len(o) = l + 1 /\ IsInjective(o) BY <1>1, <2>1 DEF IsInjective, Range
  <2>3. r = Newest(o, CmdMaxCompleted) BY <2>1 DEF Remember
  <2>. HIDE DEF o, r, l
  <2>4. /\ Len(r) = IF Len(o) <= CmdMaxCompleted THEN Len(o) ELSE CmdMaxCompleted
        /\ \A i \in 1 .. Len(r) : r[i] = o[Len(o) - Len(r) + i]
    BY <1>2, <2>2, <2>3, NewestIs
  <2>5. q = IF l < CmdMaxCompleted THEN l + 1 ELSE CmdMaxCompleted BY <1>1, <1>2, <2>2, <2>4
  <2>. HIDE DEF q
  <2>6. q = Len(r) /\ Len(o) = l + 1 BY <2>2 DEF q
  <2>7. ASSUME NEW i \in 1 .. q PROVE r[i] = o[l + 1 - q + i]
    <3>1. r[i] = o[Len(o) - Len(r) + i] BY <2>4, <2>6
    <3>2. Len(o) - Len(r) + i = l + 1 - q + i BY ONLY <1>1, <1>2, <2>5, <2>6, i \in 1 .. q
    <3>. QED BY ONLY <3>1, <3>2, Zenon
  <2>. QED BY <2>5, <2>7
<1>5. o[l + 1] = id /\ \A i \in 1 .. l : o[i] = g[i] BY <1>1
<1>6. CpHolds(r, d, n) <=> q = (IF n <= CmdMaxCompleted THEN n ELSE CmdMaxCompleted) /\ \A i \in 1 .. q : r[i] = d[n - q + i]
  BY DEF CpHolds
<1>. HIDE DEF n, l, o, r, q
<1>7. q = IF n <= CmdMaxCompleted THEN n ELSE CmdMaxCompleted BY ONLY <1>1, <1>2, <1>3, <1>4
<1>8. ASSUME NEW i \in 1 .. q PROVE r[i] = d[n - q + i]
  <2>1. q \in Nat /\ q <= l + 1 BY ONLY <1>1, <1>2, <1>4
  <2>2. CASE i = q
    <3>1. l + 1 - q + i = l + 1 /\ n - q + i = n BY ONLY <1>1, <2>1, <2>2
    <3>. QED BY <1>4, <1>5, <3>1
  <2>3. CASE i # q
    <3>. DEFINE k == l + 1 - q + i
    <3>1. k \in 1 .. l /\ (n - 1) - l + k = n - q + i BY ONLY <1>1, <2>1, <2>3, i \in 1 .. q
    <3>2. r[i] = o[k] BY <1>4
    <3>. HIDE DEF k, id
    <3>3. o[k] = g[k] BY <1>5, <3>1
    <3>4. g[k] = d[(n - 1) - l + k] BY <1>3, <3>1
    <3>. QED BY <3>1, <3>2, <3>3, <3>4
  <2>. QED BY <2>2, <2>3
<1>9. CpHolds(r, d, n) BY <1>6, <1>7, <1>8
<1>. QED BY <1>9 DEF r, n

LEMMA CpRecvLedger ==
  ASSUME CpTyped, CpLedger, NoReexecution, WorkerRecv
  PROVE  CpLedger' /\ NoReexecution'
<1>. DEFINE d == cmdHistory.dispatched  id == Head(cmdMail)
<1>1. id \in CmdIds /\ d \in Seq(CmdIds) /\ cmdLedger \in Seq(CmdIds)
  BY DEF WorkerRecv, CpTyped, CpCoreTyped, CpThreadsTyped, CpHistories
<1>2. cmdLedger' = cmdLedger /\ CpHolds(cmdLedger, d, Len(d)) BY DEF WorkerRecv, CpLedger, CpLedgerAt
<1>3. CASE Claim(id)
  <2>1. cmdHistory'.dispatched = Append(d, id) BY <1>3 DEF WorkerRecv, CpTyped, CpThreadsTyped, CpHistories
  <2>2. cmdWorker' = Ats("dispatch", id) BY <1>3 DEF WorkerRecv
  <2>3. id \notin Range(cmdLedger) BY <1>3 DEF Claim
  <2>4. /\ CpHolds(cmdLedger, Append(d, id), Len(d))
        /\ \A i, j \in DOMAIN Append(d, id) : i < j /\ Append(d, id)[i] = Append(d, id)[j] => j - i > CmdMaxCompleted
    BY <1>1, <1>2, <2>3, CpClaimed DEF NoReexecution
  <2>5. Append(d, id) # <<>> /\ Len(Append(d, id)) - 1 = Len(d) /\ Append(d, id)[Len(Append(d, id))] = id BY <1>1
  <2>6. CpLedgerAt(Ats("dispatch", id), cmdLedger, Append(d, id)) BY <2>3, <2>4, <2>5 DEF CpLedgerAt, Ats
  <2>. QED BY <1>2, <2>1, <2>2, <2>4, <2>6 DEF CpLedger, NoReexecution
<1>4. CASE ~Claim(id)
  <2>1. cmdHistory' = cmdHistory /\ cmdWorker' = Ats("refuse", id) BY <1>4 DEF WorkerRecv
  <2>. QED BY <1>2, <2>1 DEF CpLedger, CpLedgerAt, NoReexecution, Ats
<1>. QED BY <1>3, <1>4

LEMMA CpEmitLedger ==
  ASSUME CpTyped, CpLedger, WorkerEmit, cmdHistory' = cmdHistory
  PROVE  CpLedger'
<1>1. /\ cmdHistory.dispatched \in Seq(CmdIds) /\ cmdLedger \in Seq(CmdIds) /\ IsInjective(cmdLedger)
      /\ Len(cmdLedger) <= CmdMaxCompleted /\ cmdWorker'.at = "idle"
  BY DEF WorkerEmit, Ats, CpTyped, CpCoreTyped, CpThreadsTyped, CpHistories
<1>2. CASE cmdWorker.at = "refuse" BY <1>1, <1>2 DEF WorkerEmit, CpLedger, CpLedgerAt
<1>3. CASE cmdWorker.at = "emit"
  <2>1. CpHolds(cmdLedger', cmdHistory.dispatched, Len(cmdHistory.dispatched))
    BY <1>1, <1>3, CpCompleted DEF WorkerEmit, CpLedger, CpLedgerAt
  <2>. QED BY <1>1, <2>1 DEF CpLedger, CpLedgerAt
<1>. QED BY <1>2, <1>3 DEF WorkerEmit

LEMMA CpLedgerStep ==
  ASSUME CpTyped, CpLife, CpLedger, NoReexecution, PipelineNext
  PROVE  CpLedger' /\ NoReexecution'
<1>1. CASE WorkerRecv BY <1>1, CpRecvLedger
<1>2. CASE ~WorkerRecv
  <2>1. cmdHistory'.dispatched = cmdHistory.dispatched /\ (~WorkerEmit => cmdLedger' = cmdLedger) BY <1>2, CpLedgerKept
  <2>2. NoReexecution' BY <2>1 DEF NoReexecution
  <2>3. CASE WorkerEmit
    <3>1. cmdHistory' = cmdHistory BY <2>3 DEF WorkerEmit
    <3>. QED BY <2>2, <2>3, <3>1, CpEmitLedger
  <2>4. CASE ~WorkerEmit
    <3>1. cmdLedger' = cmdLedger BY <2>1, <2>4
    <3>2. CASE cmdWorker' = cmdWorker BY <2>1, <2>2, <3>1, <3>2 DEF CpLedger
    <3>3. CASE StartFinish
      <4>1. cmdWorker.at = "absent" /\ cmdWorker'.at = "idle" BY <3>3 DEF StartFinish, CpLife, Ats
      <4>. QED BY <2>1, <2>2, <3>1, <4>1 DEF CpLedger, CpLedgerAt
    <3>4. CASE WorkerStep
      <4>1. \/ cmdWorker.at = "dispatch" /\ cmdWorker'.at = "emit" /\ cmdWorker'.id = cmdWorker.id
            \/ cmdWorker'.at = "gone"
        BY <1>2, <2>4, <3>4 DEF WorkerStep, Dispatched, WorkerEnds, Ats
      <4>. QED BY <2>1, <2>2, <3>1, <4>1 DEF CpLedger, CpLedgerAt
    <3>5. CASE cmdWorker' = Ats("gone", NoCmd) BY <2>2, <3>5 DEF CpLedger, CpLedgerAt, Ats
    <3>. QED BY <2>2, <3>2, <3>3, <3>4, <3>5, CpWorkerKept
  <2>. QED BY <2>3, <2>4
<1>. QED BY <1>1, <1>2
-----------------------------------------------------------------------------
(* Commands: what is accepted is tracked                                   *)

LEMMA CpAnswersNat ==
  ASSUME NEW h \in CpHistories, NEW y \in Seq(CmdIds), NEW k \in Seq(CmdIds), NEW id \in CmdIds
  PROVE  /\ CpAnswersIn(h, y, k, id) \in Nat /\ h.answered[id] \in Nat /\ h.lost[id] \in Nat /\ h.accepted[id] \in Nat
         /\ Count(y, id) \in Nat /\ Count(k, id) \in Nat
<1>1. Count(y, id) \in Nat /\ Count(k, id) \in Nat BY CountNat
<1>2. h.answered[id] \in Nat /\ h.lost[id] \in Nat /\ h.accepted[id] \in Nat BY DEF CpHistories, CpCounts
<1>. QED BY <1>1, <1>2 DEF CpAnswersIn

\* The terms of CpAnswers before and after a step.
CpAnswersOf(id) ==
  /\ CpAnswers(id) \in Nat /\ CpAnswers(id)' \in Nat
  /\ CpAnswers(id) = cmdHistory.answered[id] + (Count(ffiSynthetic, id) + Count(ffiDrained.critical, id)) + cmdHistory.lost[id]
  /\ CpAnswers(id)' = cmdHistory'.answered[id] + (Count(ffiSynthetic', id) + Count(ffiDrained'.critical, id)) + cmdHistory'.lost[id]
  /\ cmdHistory.accepted[id] \in Nat /\ cmdHistory.answered[id] \in Nat /\ cmdHistory.lost[id] \in Nat
  /\ Count(ffiSynthetic, id) \in Nat /\ Count(ffiDrained.critical, id) \in Nat
  /\ cmdHistory'.accepted[id] \in Nat /\ cmdHistory'.answered[id] \in Nat /\ cmdHistory'.lost[id] \in Nat
  /\ Count(ffiSynthetic', id) \in Nat /\ Count(ffiDrained'.critical, id) \in Nat

LEMMA CpAnswersAre ==
  ASSUME CpTyped, CpTyped', NEW id \in CmdIds
  PROVE  CpAnswersOf(id)
<1>1. cmdHistory \in CpHistories /\ ffiSynthetic \in Seq(CmdIds) /\ ffiDrained.critical \in Seq(CmdIds)
  BY DEF CpTyped, CpThreadsTyped, CpFfiTyped, CpMux, CpMuxes
<1>2. cmdHistory' \in CpHistories /\ ffiSynthetic' \in Seq(CmdIds) /\ ffiDrained'.critical \in Seq(CmdIds)
  BY DEF CpTyped, CpThreadsTyped, CpFfiTyped, CpMux, CpMuxes
<1>3. /\ CpAnswers(id) \in Nat /\ cmdHistory.accepted[id] \in Nat /\ cmdHistory.answered[id] \in Nat /\ cmdHistory.lost[id] \in Nat
      /\ Count(ffiSynthetic, id) \in Nat /\ Count(ffiDrained.critical, id) \in Nat
  BY <1>1, CpAnswersNat DEF CpAnswers
<1>4. /\ CpAnswers(id)' \in Nat /\ cmdHistory'.accepted[id] \in Nat /\ cmdHistory'.answered[id] \in Nat /\ cmdHistory'.lost[id] \in Nat
      /\ Count(ffiSynthetic', id) \in Nat /\ Count(ffiDrained'.critical, id) \in Nat
  BY <1>2, CpAnswersNat DEF CpAnswers
<1>. QED BY <1>3, <1>4 DEF CpAnswersOf, CpAnswers, CpAnswersIn

\* A result that is admitted answers its command, in the mux or as a lost answer.
LEMMA CpDrainAnswers ==
  ASSUME CpTyped, CpTyped', DrainResult, NEW id \in CmdIds
  PROVE  CpAnswers(id)' >= CpAnswers(id) + One(id = Head(cmdResults) /\ AdmitOnce(Head(cmdResults)))
<1>. DEFINE h == Head(cmdResults)
<1>1. /\ cmdHistory \in CpHistories /\ ffiDrained \in CpMuxes /\ ffiDrained.critical \in Seq(CmdIds) /\ h \in CmdIds
      /\ ffiSynthetic' = ffiSynthetic
  BY DEF DrainResult, CpTyped, CpCoreTyped, CpThreadsTyped, CpFfiTyped, CpMux, CpMuxes
<1>2. CASE ~AdmitOnce(h)
  <2>1. ffiDrained' = ffiDrained /\ cmdHistory' = cmdHistory BY <1>2 DEF DrainResult
  <2>. QED BY <1>1, <1>2, <2>1, CpAnswersAre DEF CpAnswersOf, One
<1>3. CASE AdmitOnce(h) /\ ControlRoom
  <2>1. ffiDrained'.critical = Append(ffiDrained.critical, h) /\ cmdHistory' = cmdHistory
    BY <1>1, <1>3 DEF DrainResult, CpMuxes
  <2>2. Count(ffiDrained'.critical, id) = Count(ffiDrained.critical, id) + One(id = h) BY <1>1, <2>1, CountAppended
  <2>3. One(id = h) \in Nat /\ One(id = h /\ AdmitOnce(h)) = One(id = h) BY <1>3 DEF One
  <2>. HIDE DEF h
  <2>4. CpAnswers(id)' >= CpAnswers(id) + One(id = h)
    <3>1. CpAnswersOf(id) BY CpAnswersAre
    <3>2. cmdHistory' = cmdHistory /\ ffiSynthetic' = ffiSynthetic BY <1>1, <2>1
    <3>. QED BY ONLY <2>2, <2>3, <3>1, <3>2 DEF CpAnswersOf
  <2>. QED BY <2>3, <2>4 DEF h
<1>4. CASE AdmitOnce(h) /\ ~ControlRoom
  <2>1. ffiDrained' = ffiDrained /\ cmdHistory' = [cmdHistory EXCEPT !.lost[h] = @ + 1] BY <1>4 DEF DrainResult
  <2>2. cmdHistory'.lost[id] = cmdHistory.lost[id] + One(id = h) /\ cmdHistory'.answered = cmdHistory.answered
    <3>. HIDE DEF h
    <3>1. cmdHistory'.lost = [cmdHistory.lost EXCEPT ![h] = @ + 1] /\ cmdHistory'.answered = cmdHistory.answered
      BY <1>1, <2>1 DEF CpHistories, CpCounts
    <3>. QED BY <1>1, <3>1 DEF CpHistories, CpCounts, One
  <2>3. One(id = h) \in Nat /\ One(id = h /\ AdmitOnce(h)) = One(id = h) BY <1>4 DEF One
  <2>. HIDE DEF h
  <2>4. CpAnswers(id)' >= CpAnswers(id) + One(id = h)
    <3>1. CpAnswersOf(id) BY CpAnswersAre
    <3>. QED BY ONLY <1>1, <2>1, <2>2, <2>3, <3>1 DEF CpAnswersOf
  <2>. QED BY <2>3, <2>4 DEF h
<1>. QED BY <1>2, <1>3, <1>4

\* A stop that settles its ids answers those that were not settled.
LEMMA CpSettleAnswers ==
  ASSUME CpTyped, CpTyped', NEW s \in CmdStoppers, CancelSettle(s), NEW id \in CmdIds
  PROVE  CpAnswers(id)' >= CpAnswers(id) + One(id \in cmdStopper[s].ids \ Range(ffiTerminal))
<1>. DEFINE ids == cmdStopper[s].ids \ Range(ffiTerminal)
<1>1. /\ cmdHistory'.answered = cmdHistory.answered
      /\ Count(ffiSynthetic', id) + cmdHistory'.lost[id] >= Count(ffiSynthetic, id) + cmdHistory.lost[id] + One(id \in ids)
  BY CpSettles
<1>2. ffiDrained' = ffiDrained BY DEF CancelSettle
<1>3. One(id \in ids) \in Nat BY DEF One
<1>. HIDE DEF ids
<1>4. CpAnswers(id)' >= CpAnswers(id) + One(id \in ids) BY <1>1, <1>2, <1>3, CpAnswersAre DEF CpAnswersOf
<1>. QED BY <1>4 DEF ids

\* The poll hands an answer over; no step takes one back.
LEMMA CpAnswersStep ==
  ASSUME CpTyped, CpTyped', PipelineNext, NEW id \in CmdIds
  PROVE  CpAnswers(id)' >= CpAnswers(id)
<1>. DEFINE Same == /\ cmdHistory'.answered = cmdHistory.answered /\ cmdHistory'.lost = cmdHistory.lost
                    /\ ffiSynthetic' = ffiSynthetic /\ ffiDrained'.critical = ffiDrained.critical
<1>0. /\ cmdHistory \in CpHistories /\ ffiDrained \in CpMuxes /\ ffiSynthetic \in Seq(CmdIds)
      /\ ffiDrained.critical \in Seq(CmdIds)
  BY DEF CpTyped, CpThreadsTyped, CpFfiTyped, CpMux, CpMuxes
<1>1. CASE Same BY <1>1, CpAnswersAre DEF CpAnswersOf
<1>2. ASSUME NEW c \in CmdCallers, NEW j \in CmdIds, RememberCommand(c, j) PROVE Same
  BY <1>0, <1>2 DEF RememberCommand, CpHistories
<1>3. ASSUME NEW c \in CmdCallers, PushCommand(c) PROVE Same
  BY <1>0, <1>3 DEF PushCommand, CpHistories, ffiVars
<1>4. ASSUME NEW c \in CmdCallers, CheckRunning(c) \/ ForgetCommand(c) PROVE Same
  BY <1>4 DEF CheckRunning, ForgetCommand, ffiVars
<1>5. ASSUME StartExchange \/ StartFinish PROVE Same BY <1>5 DEF StartExchange, StartFinish, ffiVars
<1>6. ASSUME NEW s \in CmdStoppers, StopLoad(s) \/ StopperStep(s), ~CancelSettle(s) PROVE Same
  BY <1>6 DEF StopLoad, StopperStep, StopWait, StopExchange, StopTake, StopJoin, StopStore, CancelDrain, ffiVars
<1>7. ASSUME NEW s \in CmdStoppers, CancelSettle(s) PROVE CpAnswers(id)' >= CpAnswers(id)
  BY <1>7, CpSettleAnswers, CpAnswersAre DEF CpAnswersOf, One
<1>8. ASSUME WorkerStep PROVE Same
  BY <1>0, <1>8 DEF WorkerStep, WorkerRecv, Dispatched, WorkerEmit, WorkerEnds, WorkerKeeps, ffiVars, CpHistories
<1>9. CASE PollSynthetic
  <2>. DEFINE h == Head(ffiSynthetic)
  <2>1. /\ ffiSynthetic # <<>> /\ h \in CmdIds /\ ffiSynthetic' = Tail(ffiSynthetic) /\ ffiDrained' = ffiDrained
        /\ cmdHistory' = [cmdHistory EXCEPT !.answered[h] = @ + 1]
    BY <1>0, <1>9 DEF PollSynthetic
  <2>2. cmdHistory'.answered[id] = cmdHistory.answered[id] + One(id = h) /\ cmdHistory'.lost = cmdHistory.lost
    <3>. HIDE DEF h
    <3>1. cmdHistory'.answered = [cmdHistory.answered EXCEPT ![h] = @ + 1] /\ cmdHistory'.lost = cmdHistory.lost
      BY <1>0, <2>1 DEF CpHistories, CpCounts
    <3>2. h \in CmdIds BY <2>1
    <3>. QED BY ONLY <1>0, <3>1, <3>2, id \in CmdIds DEF CpHistories, CpCounts, One
  <2>3. Count(ffiSynthetic, id) = Count(ffiSynthetic', id) + One(id = h) BY <1>0, <2>1, CountTaken
  <2>4. One(id = h) \in Nat BY DEF One
  <2>. HIDE DEF h
  <2>5. CpAnswersOf(id) BY CpAnswersAre
  <2>. QED BY ONLY <2>1, <2>2, <2>3, <2>4, <2>5 DEF CpAnswersOf
<1>10. CASE DrainResult
  <2>. DEFINE b == id = Head(cmdResults) /\ AdmitOnce(Head(cmdResults))
  <2>1. CpAnswers(id)' >= CpAnswers(id) + One(b) BY <1>10, CpDrainAnswers
  <2>2. One(b) \in Nat BY DEF One
  <2>. QED BY <2>1, <2>2, CpAnswersAre DEF CpAnswersOf
<1>11. ASSUME NEW k \in {"normal", "data"}, DrainNoise(k) PROVE Same
  BY <1>0, <1>11 DEF DrainNoise, PollKeeps, CpMuxes
<1>12. CASE PollReturn
  <2>. DEFINE m == ffiDrained  h == Head(m.critical)
  <2>1. ffiSynthetic' = ffiSynthetic BY <1>12 DEF PollReturn
  <2>2. \/ cmdHistory' = cmdHistory /\ ffiDrained'.critical = m.critical
        \/ /\ m.critical # <<>> /\ ffiDrained'.critical = Tail(m.critical)
           /\ cmdHistory' = [cmdHistory EXCEPT !.answered[h] = @ + 1]
    BY <1>0, <1>12 DEF PollReturn, MuxPop, CpMuxes
  <2>3. CASE cmdHistory' = cmdHistory /\ ffiDrained'.critical = m.critical BY <1>1, <2>1, <2>3
  <2>4. CASE /\ m.critical # <<>> /\ ffiDrained'.critical = Tail(m.critical)
             /\ cmdHistory' = [cmdHistory EXCEPT !.answered[h] = @ + 1]
    <3>1. h \in CmdIds BY <1>0, <2>4
    <3>2. cmdHistory'.answered[id] = cmdHistory.answered[id] + One(id = h) /\ cmdHistory'.lost = cmdHistory.lost
      <4>. HIDE DEF h
      <4>1. cmdHistory'.answered = [cmdHistory.answered EXCEPT ![h] = @ + 1] /\ cmdHistory'.lost = cmdHistory.lost
        BY <1>0, <2>4 DEF CpHistories, CpCounts
      <4>. QED BY <1>0, <3>1, <4>1 DEF CpHistories, CpCounts, One
    <3>3. Count(m.critical, id) = Count(ffiDrained'.critical, id) + One(id = h) BY <1>0, <2>4, CountTaken
    <3>4. One(id = h) \in Nat BY DEF One
    <3>5. CpAnswersOf(id) BY CpAnswersAre
    <3>. QED BY ONLY <2>1, <3>2, <3>3, <3>4, <3>5 DEF CpAnswersOf
  <2>. QED BY <2>2, <2>3, <2>4
<1>. QED
  BY <1>1, <1>2, <1>3, <1>4, <1>5, <1>6, <1>7, <1>8, <1>9, <1>10, <1>11, <1>12
     DEF PipelineNext, CallerStep, PollStep

LEMMA CpAcceptedKept ==
  ASSUME CpTyped, PipelineNext
  PROVE  cmdHistory'.accepted = cmdHistory.accepted \/ \E c \in CmdCallers : PushCommand(c)
<1>. DEFINE Same == cmdHistory'.accepted = cmdHistory.accepted
<1>0. cmdHistory \in CpHistories BY DEF CpTyped, CpThreadsTyped
<1>1. ASSUME NEW c \in CmdCallers, NEW j \in CmdIds, RememberCommand(c, j) PROVE Same
  BY <1>0, <1>1 DEF RememberCommand, CpHistories
<1>2. ASSUME NEW c \in CmdCallers, CheckRunning(c) \/ ForgetCommand(c) PROVE Same
  BY <1>2 DEF CheckRunning, ForgetCommand
<1>3. ASSUME StartExchange \/ StartFinish PROVE Same BY <1>3 DEF StartExchange, StartFinish
<1>4. ASSUME NEW s \in CmdStoppers, StopLoad(s) \/ StopperStep(s), ~CancelSettle(s) PROVE Same
  BY <1>4 DEF StopLoad, StopperStep, StopWait, StopExchange, StopTake, StopJoin, StopStore, CancelDrain
<1>5. ASSUME NEW s \in CmdStoppers, CancelSettle(s) PROVE Same BY <1>5, CpSettles
<1>6. ASSUME WorkerStep PROVE Same
  BY <1>0, <1>6 DEF WorkerStep, WorkerRecv, Dispatched, WorkerEmit, WorkerEnds, CpHistories
<1>7. ASSUME PollStep PROVE Same
  BY <1>0, <1>7 DEF PollStep, PollSynthetic, DrainResult, DrainNoise, PollReturn, MuxPop, CpHistories
<1>. QED BY <1>1, <1>2, <1>3, <1>4, <1>5, <1>6, <1>7 DEF PipelineNext, CallerStep

\* The steps of a caller in terms of what it is doing.
LEMMA CpCallersMove ==
  ASSUME CpTyped, PipelineNext
  PROVE  \/ cmdCaller' = cmdCaller
         \/ \E c \in CmdCallers :
              /\ \A b \in CmdCallers : b # c => cmdCaller'[b] = cmdCaller[b]
              /\ \/ \E id \in CmdIds : RememberCommand(c, id) /\ cmdCaller'[c] = Ats("check", id)
                 \/ /\ CheckRunning(c) /\ cmdCaller'[c].id = cmdCaller[c].id
                    /\ cmdCaller'[c].at = IF cmdLife = "running" /\ cmdTx THEN "push" ELSE "forget"
                 \/ PushCommand(c) /\ cmdCaller'[c].at \in {"idle", "forget"}
                    /\ (cmdCaller'[c].at # "idle" => cmdCaller'[c].id = cmdCaller[c].id)
                 \/ ForgetCommand(c) /\ cmdCaller'[c].at = "idle"
<1>0. cmdCaller \in [CmdCallers -> [at : {"idle", "check", "push", "forget"}, id : CpSlot]]
  BY DEF CpTyped, CpThreadsTyped, CpCallersTyped
<1>1. ASSUME NEW c \in CmdCallers, NEW id \in CmdIds, RememberCommand(c, id)
      PROVE  cmdCaller'[c] = Ats("check", id) /\ \A b \in CmdCallers : b # c => cmdCaller'[b] = cmdCaller[b]
  BY <1>0, <1>1 DEF RememberCommand
<1>2. ASSUME NEW c \in CmdCallers, CheckRunning(c)
      PROVE  /\ cmdCaller'[c].id = cmdCaller[c].id /\ \A b \in CmdCallers : b # c => cmdCaller'[b] = cmdCaller[b]
             /\ cmdCaller'[c].at = IF cmdLife = "running" /\ cmdTx THEN "push" ELSE "forget"
  BY <1>0, <1>2 DEF CheckRunning
<1>3. ASSUME NEW c \in CmdCallers, PushCommand(c)
      PROVE  /\ cmdCaller'[c].at \in {"idle", "forget"} /\ \A b \in CmdCallers : b # c => cmdCaller'[b] = cmdCaller[b]
             /\ (cmdCaller'[c].at # "idle" => cmdCaller'[c].id = cmdCaller[c].id)
  BY <1>0, <1>3 DEF PushCommand, Ats
<1>4. ASSUME NEW c \in CmdCallers, ForgetCommand(c)
      PROVE  cmdCaller'[c].at = "idle" /\ \A b \in CmdCallers : b # c => cmdCaller'[b] = cmdCaller[b]
  BY <1>0, <1>4 DEF ForgetCommand, Ats
<1>5. CASE StartExchange \/ StartFinish \/ WorkerStep \/ PollStep \/ \E s \in CmdStoppers : StopLoad(s) \/ StopperStep(s)
  BY <1>5 DEF StartExchange, StartFinish, StopLoad, StopperStep, StopWait, StopExchange, StopTake, StopJoin, StopStore,
              CancelDrain, CancelSettle, WorkerStep, WorkerRecv, Dispatched, WorkerEmit, WorkerEnds, WorkerKeeps,
              PollStep, PollSynthetic, DrainResult, DrainNoise, PollReturn, PollKeeps
<1>. QED BY <1>1, <1>2, <1>3, <1>4, <1>5 DEF PipelineNext, CallerStep

\* What a step does to the ids that the stoppers hold and to the terminal history.
LEMMA CpHeldMoves ==
  ASSUME CpTyped, PipelineNext
  PROVE  \/ ffiTerminal' = ffiTerminal /\ \A s \in CmdStoppers : cmdStopper'[s].ids = cmdStopper[s].ids
         \/ DrainResult /\ cmdStopper' = cmdStopper
         \/ \E s \in CmdStoppers : CancelDrain(s) \/ CancelSettle(s)
<1>1. ASSUME NEW s \in CmdStoppers, StopLoad(s) \/ StopperStep(s), ~CancelDrain(s), ~CancelSettle(s)
      PROVE  ffiTerminal' = ffiTerminal /\ \A r \in CmdStoppers : cmdStopper'[r].ids = cmdStopper[r].ids
  <2>1. \A r \in CmdStoppers : cmdStopper'[r].ids = cmdStopper[r].ids BY <1>1, CpStagesMove
  <2>2. ffiTerminal' = ffiTerminal
    BY <1>1 DEF StopLoad, StopperStep, StopWait, StopExchange, StopTake, StopJoin, StopStore, ffiVars
  <2>. QED BY <2>1, <2>2
<1>2. CASE StartExchange \/ StartFinish \/ WorkerStep
  BY <1>2 DEF StartExchange, StartFinish, WorkerStep, WorkerRecv, Dispatched, WorkerEmit, WorkerEnds, WorkerKeeps, ffiVars
<1>3. CASE PollStep BY <1>3 DEF PollStep, PollSynthetic, DrainResult, DrainNoise, PollReturn, PollKeeps
<1>4. ASSUME NEW c \in CmdCallers, CallerStep(c) \/ \E id \in CmdIds : RememberCommand(c, id)
      PROVE  ffiTerminal' = ffiTerminal /\ cmdStopper' = cmdStopper
  BY <1>4 DEF CallerStep, RememberCommand, CheckRunning, PushCommand, ForgetCommand, ffiVars
<1>. QED BY <1>1, <1>2, <1>3, <1>4 DEF PipelineNext

\* Once a stop has drained the pending ids, this stays so.
LEMMA CpDrainedStays ==
  ASSUME CpTyped, PipelineNext
  PROVE  /\ CpDrained => CpDrained'
         /\ CpDrained' => CpDrained \/ \E s \in CmdStoppers : CancelDrain(s) \/ CancelSettle(s)
<1>1. CASE cmdStopper' = cmdStopper BY <1>1 DEF CpDrained
<1>2. ASSUME NEW s \in CmdStoppers, StopLoad(s) \/ StopperStep(s), ~CancelDrain(s), ~CancelSettle(s)
      PROVE  CpDrained' <=> CpDrained
  <2>1. /\ \A r \in CmdStoppers : r # s => cmdStopper'[r] = cmdStopper[r]
        /\ cmdStopper'[s].at \in {"store", "wait", "exchange", "cancel", "take", "join"}
    BY <1>2, CpStagesMove DEF StopperStep
  <2>2. cmdStopper[s].at \notin {"settle", "done"}
    BY <1>2 DEF StopLoad, StopperStep, StopWait, StopExchange, StopTake, StopJoin, StopStore
  <2>. QED BY <2>1, <2>2 DEF CpDrained
<1>3. ASSUME NEW s \in CmdStoppers, CancelDrain(s) \/ CancelSettle(s) PROVE CpDrained'
  BY <1>3, CpStagesMove DEF StopperStep, CpDrained
<1>4. CASE StartExchange \/ StartFinish \/ WorkerStep
  BY <1>1, <1>4 DEF StartExchange, StartFinish, WorkerStep, WorkerRecv, Dispatched, WorkerEmit, WorkerEnds, WorkerKeeps
<1>5. CASE PollStep BY <1>1, <1>5 DEF PollStep, PollSynthetic, DrainResult, DrainNoise, PollReturn, PollKeeps
<1>6. ASSUME NEW c \in CmdCallers, CallerStep(c) \/ \E id \in CmdIds : RememberCommand(c, id) PROVE cmdStopper' = cmdStopper
  BY <1>6 DEF CallerStep, RememberCommand, CheckRunning, PushCommand, ForgetCommand
<1>. QED BY <1>1, <1>2, <1>3, <1>4, <1>5, <1>6 DEF PipelineNext

\* An id that a stop holds stays held until it is answered.
LEMMA CpHeldStep ==
  ASSUME CpTyped, CpTyped', PipelineNext, NEW id \in CmdIds
  PROVE  CpAnswers(id)' + One(CpHeld(id)') >= CpAnswers(id) + One(CpHeld(id))
<1>1. /\ CpAnswers(id) \in Nat /\ CpAnswers(id)' \in Nat /\ CpAnswers(id)' >= CpAnswers(id)
  BY CpAnswersAre, CpAnswersStep DEF CpAnswersOf
<1>2. CASE CpHeld(id) => CpHeld(id)' BY <1>1, <1>2 DEF One
<1>3. CASE CpAnswers(id)' >= CpAnswers(id) + 1 BY <1>1, <1>3 DEF One
<1>4. CASE ffiTerminal' = ffiTerminal /\ \A s \in CmdStoppers : cmdStopper'[s].ids = cmdStopper[s].ids
  BY <1>2, <1>4 DEF CpHeld
<1>5. CASE DrainResult /\ cmdStopper' = cmdStopper
  <2>. DEFINE h == Head(cmdResults)
  <2>1. h \in CmdIds /\ ffiTerminal \in Seq(CmdIds) /\ IsInjective(ffiTerminal) /\ Len(ffiTerminal) <= FfiMaxTerminal
    BY <1>5 DEF DrainResult, CpTyped, CpCoreTyped, CpFfiTyped
  <2>2. CASE AdmitOnce(h) /\ id = h
    <3>1. CpAnswers(id)' >= CpAnswers(id) + 1 BY <1>5, <2>2, CpDrainAnswers DEF One
    <3>. QED BY <1>3, <3>1
  <2>3. CASE AdmitOnce(h) /\ id # h
    <3>1. Range(ffiTerminal') \subseteq Range(ffiTerminal) \cup {h}
      BY <1>5, <2>1, <2>3, CpBounds, RememberIs DEF DrainResult
    <3>. QED BY <1>2, <1>5, <2>3, <3>1 DEF CpHeld
  <2>4. CASE ~AdmitOnce(h)
    <3>1. ffiTerminal' = ffiTerminal BY <1>5, <2>4 DEF DrainResult
    <3>. QED BY <1>2, <1>5, <3>1 DEF CpHeld
  <2>. QED BY <2>2, <2>3, <2>4
<1>6. ASSUME NEW s \in CmdStoppers, CancelDrain(s) PROVE CpHeld(id) => CpHeld(id)'
  <2>1. ffiTerminal' = ffiTerminal /\ cmdStopper[s].ids = {}
    BY <1>6 DEF CancelDrain, CpTyped, CpThreadsTyped, CpStoppersTyped
  <2>2. \A r \in CmdStoppers : r # s => cmdStopper'[r] = cmdStopper[r] BY <1>6, CpStagesMove DEF StopperStep
  <2>. QED BY <2>1, <2>2 DEF CpHeld
<1>7. ASSUME NEW s \in CmdStoppers, CancelSettle(s)
      PROVE  CpAnswers(id)' >= CpAnswers(id) + 1 \/ (CpHeld(id) => CpHeld(id)')
  <2>1. CASE id \in cmdStopper[s].ids \ Range(ffiTerminal) BY <1>7, <2>1, CpSettleAnswers DEF One
  <2>2. CASE id \notin cmdStopper[s].ids \ Range(ffiTerminal)
    <3>1. Range(ffiTerminal') \subseteq Range(ffiTerminal) \cup (cmdStopper[s].ids \ Range(ffiTerminal))
      BY <1>7, CpSettles
    <3>2. \A r \in CmdStoppers : r # s => cmdStopper'[r] = cmdStopper[r] BY <1>7, CpStagesMove DEF StopperStep
    <3>. QED BY <2>2, <3>1, <3>2 DEF CpHeld
  <2>. QED BY <2>1, <2>2
<1>. QED BY <1>2, <1>3, <1>4, <1>5, <1>6, <1>7, CpHeldMoves

\* After a stop has drained the pending ids, no command is checked as running any more.
LEMMA CpAfterStep ==
  ASSUME CpTyped, CpTyped', CpDrained, CpAfter, PipelineNext, ~StartStopOverlap
  PROVE  CpAfter'
<1>1. cmdLife' # "running"
  <2>1. ~StartExchange BY DEF StartExchange, CpDrained
  <2>2. \A s \in CmdStoppers : StopExchange(s) => cmdLife' # "running" BY DEF StopExchange, CpAfter
  <2>. QED
    BY <2>1, <2>2 DEF CpAfter, PipelineNext, CallerStep, RememberCommand, CheckRunning, PushCommand, ForgetCommand, StartFinish,
          StopLoad, StopperStep, StopWait, StopTake, StopJoin, StopStore, CancelDrain, CancelSettle, WorkerStep, WorkerRecv,
          Dispatched, WorkerEmit, WorkerEnds, WorkerKeeps, PollStep, PollSynthetic, DrainResult, DrainNoise, PollReturn,
          PollKeeps, cmdLifecycle
<1>2. cmdCaller \in [CmdCallers -> [at : {"idle", "check", "push", "forget"}, id : CpSlot]]
  BY DEF CpTyped, CpThreadsTyped, CpCallersTyped
<1>3. \A c \in CmdCallers : cmdCaller'[c].at = "push" => cmdCaller'[c] = cmdCaller[c]
  <2>1. CASE cmdCaller' = cmdCaller BY <2>1
  <2>2. ASSUME NEW c \in CmdCallers, \A b \in CmdCallers : b # c => cmdCaller'[b] = cmdCaller[b], cmdCaller'[c].at # "push"
        PROVE  \A b \in CmdCallers : cmdCaller'[b].at = "push" => cmdCaller'[b] = cmdCaller[b]
    BY <2>2
  <2>3. cmdLife # "running" BY DEF CpAfter
  <2>4. CASE cmdCaller' # cmdCaller
    <3>1. PICK c \in CmdCallers :
            /\ \A b \in CmdCallers : b # c => cmdCaller'[b] = cmdCaller[b]
            /\ \/ \E id \in CmdIds : cmdCaller'[c] = Ats("check", id)
               \/ cmdCaller'[c].at = IF cmdLife = "running" /\ cmdTx THEN "push" ELSE "forget"
               \/ cmdCaller'[c].at \in {"idle", "forget"}
      BY <2>4, CpCallersMove, Zenon
    <3>2. ASSUME NEW id \in CmdIds, cmdCaller'[c] = Ats("check", id) PROVE cmdCaller'[c].at # "push" BY <3>2 DEF Ats
    <3>3. CASE cmdCaller'[c].at = IF cmdLife = "running" /\ cmdTx THEN "push" ELSE "forget"
      <4>1. cmdCaller'[c].at = "forget" BY <2>3, <3>3
      <4>2. cmdCaller'[c].at # "push" BY ONLY <4>1
      <4>. QED BY <2>2, <3>1, <4>2
    <3>4. CASE cmdCaller'[c].at \in {"idle", "forget"}
      <4>2. cmdCaller'[c].at # "push" BY ONLY <3>4
      <4>. QED BY <2>2, <3>1, <4>2
    <3>. QED BY <2>2, <3>1, <3>2, <3>3, <3>4
  <2>. QED BY <2>1, <2>4
<1>4. \A b, c \in CmdCallers : cmdCaller'[b].at = "push" /\ cmdCaller'[c].at = "push" /\ cmdCaller'[b].id = cmdCaller'[c].id => b = c
  BY <1>3 DEF CpAfter
<1>5. ASSUME NEW id \in CmdIds
      PROVE  cmdHistory'.accepted[id] + One(CpPushing(id)') <= CpAnswers(id)' + One(CpHeld(id)')
  <2>1. /\ CpAnswers(id) \in Nat /\ CpAnswers(id)' \in Nat /\ cmdHistory.accepted[id] \in Nat /\ cmdHistory'.accepted[id] \in Nat
    BY CpAnswersAre DEF CpAnswersOf
  <2>2. cmdHistory'.accepted[id] + One(CpPushing(id)') <= cmdHistory.accepted[id] + One(CpPushing(id))
    <3>1. CpPushing(id)' => CpPushing(id) BY <1>3 DEF CpPushing, Ats
    <3>2. CASE cmdHistory'.accepted = cmdHistory.accepted BY <2>1, <3>1, <3>2 DEF One
    <3>3. ASSUME NEW c \in CmdCallers, PushCommand(c)
          PROVE  cmdHistory'.accepted[id] + One(CpPushing(id)') <= cmdHistory.accepted[id] + One(CpPushing(id))
      <4>1. cmdCaller[c].at = "push" /\ cmdCaller[c].id \in CmdIds BY <3>3 DEF PushCommand, CpTyped, CpThreadsTyped, CpCallersTyped
      <4>2. CASE cmdCaller[c].id # id
        <5>1. cmdHistory'.accepted[id] = cmdHistory.accepted[id]
          BY <3>3, <4>1, <4>2 DEF PushCommand, CpTyped, CpThreadsTyped, CpHistories, CpCounts
        <5>. QED BY <2>1, <3>1, <5>1 DEF One
      <4>3. CASE cmdCaller[c].id = id
        <5>1. cmdCaller[c] = Ats("push", id) BY <1>2, <4>1, <4>3 DEF Ats
        <5>2. CpPushing(id) BY <5>1 DEF CpPushing
        <5>3. ~CpPushing(id)'
          <6>1. ASSUME NEW b \in CmdCallers, cmdCaller'[b] = Ats("push", id) PROVE FALSE
            <7>1. cmdCaller[b] = Ats("push", id) BY <1>3, <6>1 DEF Ats
            <7>2. b = c BY <4>1, <4>3, <7>1 DEF CpAfter, Ats
            <7>3. cmdCaller'[c].at # "push" BY <1>2, <3>3 DEF PushCommand, Ats
            <7>. QED BY <6>1, <7>2, <7>3 DEF Ats
          <6>. QED BY <6>1 DEF CpPushing
        <5>4. cmdHistory'.accepted[id] <= cmdHistory.accepted[id] + 1
          BY <2>1, <3>3, <4>1, <4>3 DEF PushCommand, CpTyped, CpThreadsTyped, CpHistories, CpCounts
        <5>. QED BY <2>1, <5>2, <5>3, <5>4 DEF One
      <4>. QED BY <4>2, <4>3
    <3>. QED BY <3>2, <3>3, CpAcceptedKept
  <2>3. CpAnswers(id)' + One(CpHeld(id)') >= CpAnswers(id) + One(CpHeld(id)) BY CpHeldStep
  <2>4. cmdHistory.accepted[id] + One(CpPushing(id)) <= CpAnswers(id) + One(CpHeld(id)) BY DEF CpAfter
  <2>5. One(CpPushing(id)) \in Nat /\ One(CpPushing(id)') \in Nat /\ One(CpHeld(id)) \in Nat /\ One(CpHeld(id)') \in Nat BY DEF One
  <2>. QED BY ONLY <2>1, <2>2, <2>3, <2>4, <2>5
<1>. QED BY <1>1, <1>4, <1>5 DEF CpAfter

LEMMA RangeAppended ==
  ASSUME NEW s \in Seq(CmdIds), NEW x \in CmdIds
  PROVE  /\ Range(Append(s, x)) = Range(s) \cup {x}
         /\ IsInjective(s) /\ x \notin Range(s) => IsInjective(Append(s, x))
<1>. DEFINE a == Append(s, x)  n == Len(s)
<1>1. /\ DOMAIN s = 1 .. n /\ n \in Nat /\ DOMAIN a = 1 .. n + 1 /\ a[n + 1] = x
      /\ \A i \in 1 .. n : a[i] = s[i]
  OBVIOUS
<1>. HIDE DEF a, n
<1>2. \A i \in 1 .. n + 1 : i \in 1 .. n \/ i = n + 1 BY <1>1
<1>3. \A i \in 1 .. n : i \in 1 .. n + 1 BY <1>1
<1>4. n + 1 \in 1 .. n + 1 BY <1>1
<1>5. Range(a) = Range(s) \cup {x}
  <2>1. ASSUME NEW y \in Range(a) PROVE y \in Range(s) \cup {x}
    <3>1. PICK i \in 1 .. n + 1 : a[i] = y BY <1>1, <2>1 DEF Range
    <3>. QED BY <1>1, <1>2, <3>1 DEF Range
  <2>2. ASSUME NEW y \in Range(s) PROVE y \in Range(a)
    <3>1. PICK i \in 1 .. n : s[i] = y BY <1>1, <2>2 DEF Range
    <3>. QED BY <1>1, <1>3, <3>1 DEF Range
  <2>3. x \in Range(a) BY <1>1, <1>4 DEF Range
  <2>. QED BY <2>1, <2>2, <2>3
<1>6. ASSUME IsInjective(s), x \notin Range(s) PROVE IsInjective(a)
  <2>1. \A i \in 1 .. n : s[i] # x BY <1>1, <1>6 DEF Range
  <2>2. \A i, j \in 1 .. n : s[i] = s[j] => i = j BY <1>1, <1>6 DEF IsInjective
  <2>3. \A i, j \in 1 .. n + 1 : a[i] = a[j] => i = j
    <3>. TAKE i, j \in 1 .. n + 1
    <3>. QED BY <1>1, <1>2, <2>1, <2>2
  <2>. QED BY <1>1, <2>3 DEF IsInjective
<1>. QED BY <1>5, <1>6 DEF a

LEMMA RangeTaken ==
  ASSUME NEW s \in Seq(CmdIds), s # <<>>, IsInjective(s)
  PROVE  Range(Tail(s)) = Range(s) \ {Head(s)} /\ IsInjective(Tail(s)) /\ Head(s) \in Range(s)
<1>. DEFINE b == Tail(s)  n == Len(s)
<1>1. /\ DOMAIN s = 1 .. n /\ n \in Nat \ {0} /\ Head(s) = s[1] /\ DOMAIN b = 1 .. n - 1
      /\ \A i \in 1 .. n - 1 : b[i] = s[i + 1]
  OBVIOUS
<1>. HIDE DEF b, n
<1>2. \A i \in 1 .. n : i # 1 => i - 1 \in 1 .. n - 1 /\ b[i - 1] = s[i]
  <2>. SUFFICES ASSUME NEW i \in 1 .. n, i # 1 PROVE i - 1 \in 1 .. n - 1 /\ b[i - 1] = s[i]
    OBVIOUS
  <2>1. i - 1 \in 1 .. n - 1 /\ (i - 1) + 1 = i BY <1>1
  <2>. QED BY <1>1, <2>1
<1>3. \A i \in 1 .. n - 1 : i + 1 \in 1 .. n /\ i + 1 # 1 BY <1>1
<1>4. \A i, j \in 1 .. n : s[i] = s[j] => i = j BY <1>1 DEF IsInjective
<1>5. IsInjective(b)
  <2>1. ASSUME NEW i \in 1 .. n - 1, NEW j \in 1 .. n - 1, b[i] = b[j] PROVE i = j
    <3>1. i + 1 = j + 1 BY <1>1, <1>3, <1>4, <2>1
    <3>. QED BY <1>1, <3>1
  <2>. QED BY <1>1, <2>1 DEF IsInjective
<1>6. ASSUME NEW y \in Range(b) PROVE y \in Range(s) /\ y # Head(s)
  <2>1. PICK i \in 1 .. n - 1 : b[i] = y BY <1>1, <1>6 DEF Range
  <2>2. i + 1 \in 1 .. n /\ i + 1 # 1 /\ s[i + 1] = y /\ 1 \in 1 .. n BY <1>1, <1>3, <2>1
  <2>3. y # s[1] BY <1>4, <2>2
  <2>. QED BY <1>1, <2>2, <2>3 DEF Range
<1>7. ASSUME NEW y \in Range(s), y # Head(s) PROVE y \in Range(b)
  <2>1. PICK i \in 1 .. n : s[i] = y BY <1>1, <1>7 DEF Range
  <2>. QED BY <1>1, <1>2, <1>7, <2>1 DEF Range
<1>8. Head(s) \in Range(s) BY <1>1 DEF Range
<1>. QED BY <1>5, <1>6, <1>7, <1>8 DEF b

\* A step that leaves the callers and the pending ids alone, and puts nothing new on the way.
LEMMA CpBeforeKept ==
  ASSUME CpTyped, CpTyped', CpBefore, PipelineNext, cmdCaller' = cmdCaller, ffiPending' = ffiPending, ffiTerminal' = ffiTerminal,
         cmdHistory'.accepted = cmdHistory.accepted, CpFlight' \subseteq CpFlight, CpApart'
  PROVE  CpBefore'
<1>1. \A id \in CmdIds : CpAnswers(id)' >= CpAnswers(id) /\ CpAnswers(id) \in Nat /\ CpAnswers(id)' \in Nat
                         /\ cmdHistory.accepted[id] \in Nat
  BY CpAnswersStep, CpAnswersAre DEF CpAnswersOf
<1>2. \A c \in CmdCallers : cmdCaller[c].at # "idle" => cmdCaller[c].id \in CmdIds
  BY DEF CpTyped, CpThreadsTyped, CpCallersTyped
<1>3. CpCallersHold'
  <2>. SUFFICES ASSUME NEW c \in CmdCallers, cmdCaller[c].at # "idle"
       PROVE  /\ cmdCaller[c].id \in ffiPending \ CpFlight'
              /\ cmdHistory.accepted[cmdCaller[c].id] <= CpAnswers(cmdCaller[c].id)'
              /\ \A b \in CmdCallers : cmdCaller[b].at # "idle" /\ cmdCaller[b].id = cmdCaller[c].id => b = c
    BY DEF CpCallersHold
  <2>1. /\ cmdCaller[c].id \in ffiPending \ CpFlight
        /\ cmdHistory.accepted[cmdCaller[c].id] <= CpAnswers(cmdCaller[c].id)
        /\ \A b \in CmdCallers : cmdCaller[b].at # "idle" /\ cmdCaller[b].id = cmdCaller[c].id => b = c
    BY DEF CpBefore, CpCallersHold
  <2>2. cmdHistory.accepted[cmdCaller[c].id] <= CpAnswers(cmdCaller[c].id)' BY <1>1, <1>2, <2>1
  <2>. QED BY <2>1, <2>2
<1>4. CpIdsTracked'
  <2>. SUFFICES ASSUME NEW id \in CmdIds
       PROVE  /\ id \in CpFlight' => id \in ffiPending
              /\ id \in ffiPending => id \notin Range(ffiTerminal)
              /\ cmdHistory.accepted[id] <= CpAnswers(id)' + One(id \in ffiPending)
    BY DEF CpIdsTracked
  <2>1. /\ id \in CpFlight => id \in ffiPending
        /\ id \in ffiPending => id \notin Range(ffiTerminal)
        /\ cmdHistory.accepted[id] <= CpAnswers(id) + One(id \in ffiPending)
    BY DEF CpBefore, CpIdsTracked
  <2>2. One(id \in ffiPending) \in Nat BY DEF One
  <2>3. cmdHistory.accepted[id] <= CpAnswers(id)' + One(id \in ffiPending) BY <1>1, <2>1, <2>2
  <2>. QED BY <2>1, <2>3
<1>. QED BY <1>3, <1>4 DEF CpBefore

\* The first stop that drains the pending ids finds every accepted command among them, or answered.
LEMMA CpFirstDrain ==
  ASSUME CpTyped, CpTyped', CpLife, ~CpDrained, CpBefore, NEW s \in CmdStoppers, CancelDrain(s)
  PROVE  CpAfter'
<1>1. /\ ffiTerminal' = ffiTerminal /\ cmdHistory' = cmdHistory /\ cmdCaller' = cmdCaller /\ cmdLife' = cmdLife
      /\ ffiSynthetic' = ffiSynthetic /\ ffiDrained' = ffiDrained /\ cmdStopper[s].at = "cancel"
  BY DEF CancelDrain, cmdLifecycle
<1>2. cmdStopper'[s].ids = ffiPending BY CpStagesMove DEF StopperStep
<1>3. cmdLife' # "running" BY <1>1 DEF CpLife
<1>4. \A b, c \in CmdCallers : cmdCaller'[b].at = "push" /\ cmdCaller'[c].at = "push" /\ cmdCaller'[b].id = cmdCaller'[c].id => b = c
  BY <1>1 DEF CpBefore, CpCallersHold
<1>5. ASSUME NEW id \in CmdIds
      PROVE  cmdHistory'.accepted[id] + One(CpPushing(id)') <= CpAnswers(id)' + One(CpHeld(id)')
  <2>1. CpAnswers(id)' = CpAnswers(id) BY <1>1 DEF CpAnswers
  <2>2. CpAnswers(id) \in Nat /\ cmdHistory.accepted[id] \in Nat BY CpAnswersAre DEF CpAnswersOf
  <2>3. CpPushing(id)' => id \in ffiPending /\ cmdHistory.accepted[id] <= CpAnswers(id)
    BY <1>1 DEF CpPushing, CpBefore, CpCallersHold, Ats
  <2>4. id \in ffiPending => CpHeld(id)'
    BY <1>1, <1>2 DEF CpHeld, CpBefore, CpIdsTracked
  <2>5. cmdHistory.accepted[id] <= CpAnswers(id) + One(id \in ffiPending) BY DEF CpBefore, CpIdsTracked
  <2>6. cmdHistory' = cmdHistory BY <1>1
  <2>. QED BY ONLY <2>1, <2>2, <2>3, <2>4, <2>5, <2>6 DEF One
<1>. QED BY <1>3, <1>4, <1>5 DEF CpAfter

\* A caller that is at work has the only hold on its id.
LEMMA CpRememberBefore ==
  ASSUME CpTyped, CpTyped', CpBefore, NEW c \in CmdCallers, NEW id \in CmdIds, RememberCommand(c, id)
  PROVE  CpBefore'
<1>0. cmdCaller \in [CmdCallers -> [at : {"idle", "check", "push", "forget"}, id : CpSlot]] /\ cmdHistory \in CpHistories
  BY DEF CpTyped, CpThreadsTyped, CpCallersTyped
<1>1. /\ cmdCaller'[c].id = id /\ \A b \in CmdCallers : b # c => cmdCaller'[b] = cmdCaller[b]
  BY <1>0 DEF RememberCommand, Ats
<1>2. /\ ffiPending' = ffiPending \cup {id} /\ id \notin ffiPending /\ id \notin Range(ffiTerminal) /\ ffiTerminal' = ffiTerminal
      /\ ffiSynthetic' = ffiSynthetic /\ ffiDrained' = ffiDrained /\ cmdMail' = cmdMail /\ cmdResults' = cmdResults
      /\ cmdWorker' = cmdWorker
  BY DEF RememberCommand, cmdCore
<1>3. cmdHistory'.accepted = cmdHistory.accepted /\ cmdHistory'.answered = cmdHistory.answered /\ cmdHistory'.lost = cmdHistory.lost
  BY <1>0 DEF RememberCommand, CpHistories
<1>4. CpFlight' = CpFlight /\ CpApart' BY <1>2 DEF CpFlight, CpHand, CpBefore, CpApart
<1>5. \A j \in CmdIds : CpAnswers(j)' = CpAnswers(j) /\ CpAnswers(j) \in Nat /\ cmdHistory.accepted[j] \in Nat
  <2>. TAKE j \in CmdIds
  <2>1. CpAnswersOf(j) BY CpAnswersAre
  <2>. QED BY <1>2, <1>3, <2>1 DEF CpAnswersOf
<1>6. \A j \in CmdIds : /\ j \in CpFlight => j \in ffiPending
                        /\ j \in ffiPending => j \notin Range(ffiTerminal)
                        /\ cmdHistory.accepted[j] <= CpAnswers(j) + One(j \in ffiPending)
  BY DEF CpBefore, CpIdsTracked
<1>7. cmdHistory.accepted[id] <= CpAnswers(id) BY <1>2, <1>5, <1>6 DEF One
<1>8. CpIdsTracked'
  <2>1. ASSUME NEW j \in CmdIds
        PROVE  /\ j \in CpFlight' => j \in ffiPending'
               /\ j \in ffiPending' => j \notin Range(ffiTerminal')
               /\ cmdHistory'.accepted[j] <= CpAnswers(j)' + One(j \in ffiPending')
    BY <1>2, <1>3, <1>4, <1>5, <1>6 DEF One
  <2>. QED BY <2>1 DEF CpIdsTracked
<1>9. CpCallersHold'
  <2>. SUFFICES ASSUME NEW a \in CmdCallers, cmdCaller'[a].at # "idle", NEW x, x = cmdCaller'[a].id
       PROVE  /\ x \in ffiPending' \ CpFlight'
              /\ cmdHistory'.accepted[x] <= CpAnswers(x)'
              /\ \A b \in CmdCallers : cmdCaller'[b].at # "idle" /\ cmdCaller'[b].id = x => b = a
    BY DEF CpCallersHold
  <2>1. \A b \in CmdCallers : cmdCaller[b].at # "idle" =>
          /\ cmdCaller[b].id \in CmdIds /\ cmdCaller[b].id # id /\ cmdCaller[b].id \in ffiPending \ CpFlight
          /\ cmdHistory.accepted[cmdCaller[b].id] <= CpAnswers(cmdCaller[b].id)
          /\ \A d \in CmdCallers : cmdCaller[d].at # "idle" /\ cmdCaller[d].id = cmdCaller[b].id => d = b
    BY <1>2 DEF CpBefore, CpCallersHold, CpTyped, CpThreadsTyped, CpCallersTyped
  <2>2. CASE a = c
    <3>0. x = id BY <1>1, <2>2
    <3>1. id \in ffiPending' \ CpFlight' BY <1>2, <1>4, <1>6
    <3>2. \A b \in CmdCallers : cmdCaller'[b].at # "idle" /\ cmdCaller'[b].id = id => b = c BY <1>1, <2>1
    <3>3. cmdHistory'.accepted[id] <= CpAnswers(id)' BY <1>3, <1>5, <1>7
    <3>. QED BY <2>2, <3>0, <3>1, <3>2, <3>3
  <2>3. CASE a # c
    <3>1. cmdCaller[a].id = x /\ cmdCaller[a].at # "idle" /\ x \in CmdIds BY <1>1, <2>1, <2>3
    <3>2. cmdHistory'.accepted[x] <= CpAnswers(x)' BY <1>3, <1>5, <2>1, <3>1
    <3>3. x \in ffiPending' \ CpFlight' BY <1>2, <1>4, <2>1, <3>1
    <3>4. ASSUME NEW b \in CmdCallers, cmdCaller'[b].at # "idle", cmdCaller'[b].id = x PROVE b = a
      BY <1>1, <2>1, <3>1, <3>4
    <3>. QED BY <3>2, <3>3, <3>4
  <2>. QED BY <2>2, <2>3
<1>. QED BY <1>4, <1>8, <1>9 DEF CpBefore

\* Callers keep their holds when their ids stay pending and out of the core.
LEMMA CpHoldsOn ==
  ASSUME CpTyped, CpTyped', CpBefore, PipelineNext,
         \A a \in CmdCallers : cmdCaller'[a].at # "idle" =>
           /\ cmdCaller[a].at # "idle" /\ cmdCaller'[a].id = cmdCaller[a].id
           /\ cmdHistory'.accepted[cmdCaller[a].id] = cmdHistory.accepted[cmdCaller[a].id]
           /\ cmdCaller[a].id \in ffiPending' \ CpFlight'
  PROVE  CpCallersHold'
<1>. SUFFICES ASSUME NEW a \in CmdCallers, cmdCaller'[a].at # "idle", NEW x, x = cmdCaller'[a].id
     PROVE  /\ x \in ffiPending' \ CpFlight'
            /\ cmdHistory'.accepted[x] <= CpAnswers(x)'
            /\ \A b \in CmdCallers : cmdCaller'[b].at # "idle" /\ cmdCaller'[b].id = x => b = a
  BY DEF CpCallersHold
<1>1. /\ cmdCaller[a].at # "idle" /\ x = cmdCaller[a].id /\ cmdHistory'.accepted[x] = cmdHistory.accepted[x]
      /\ x \in ffiPending' \ CpFlight'
  OBVIOUS
<1>2. /\ cmdHistory.accepted[x] <= CpAnswers(x) /\ x \in CmdIds
      /\ \A b \in CmdCallers : cmdCaller[b].at # "idle" /\ cmdCaller[b].id = x => b = a
  BY <1>1 DEF CpBefore, CpCallersHold, CpTyped, CpThreadsTyped, CpCallersTyped
<1>3. /\ CpAnswers(x)' >= CpAnswers(x) /\ CpAnswers(x) \in Nat /\ CpAnswers(x)' \in Nat /\ cmdHistory.accepted[x] \in Nat
  BY <1>2, CpAnswersStep, CpAnswersAre DEF CpAnswersOf
<1>4. cmdHistory'.accepted[x] <= CpAnswers(x)' BY ONLY <1>1, <1>2, <1>3
<1>5. \A b \in CmdCallers : cmdCaller'[b].at # "idle" /\ cmdCaller'[b].id = x => b = a BY <1>2
<1>. QED BY <1>1, <1>4, <1>5

LEMMA CpCheckBefore ==
  ASSUME CpTyped, CpTyped', CpBefore, PipelineNext, NEW c \in CmdCallers, CheckRunning(c)
  PROVE  CpBefore'
<1>0. cmdCaller \in [CmdCallers -> [at : {"idle", "check", "push", "forget"}, id : CpSlot]]
  BY DEF CpTyped, CpThreadsTyped, CpCallersTyped
<1>1. /\ cmdCaller'[c].id = cmdCaller[c].id /\ cmdCaller[c].at = "check" /\ \A b \in CmdCallers : b # c => cmdCaller'[b] = cmdCaller[b]
  BY <1>0 DEF CheckRunning
<1>2. /\ ffiPending' = ffiPending /\ ffiTerminal' = ffiTerminal /\ cmdHistory' = cmdHistory
      /\ ffiSynthetic' = ffiSynthetic /\ ffiDrained' = ffiDrained /\ cmdMail' = cmdMail /\ cmdResults' = cmdResults
      /\ cmdWorker' = cmdWorker
  BY DEF CheckRunning, cmdCore, ffiVars
<1>3. CpFlight' = CpFlight /\ CpApart' BY <1>2 DEF CpFlight, CpHand, CpBefore, CpApart
<1>4. CpIdsTracked'
  <2>1. \A j \in CmdIds : CpAnswers(j)' = CpAnswers(j) BY <1>2 DEF CpAnswers
  <2>. QED BY <1>2, <1>3, <2>1 DEF CpBefore, CpIdsTracked
<1>5. \A a \in CmdCallers : cmdCaller'[a].at # "idle" =>
           /\ cmdCaller[a].at # "idle" /\ cmdCaller'[a].id = cmdCaller[a].id
           /\ cmdHistory'.accepted[cmdCaller[a].id] = cmdHistory.accepted[cmdCaller[a].id]
           /\ cmdCaller[a].id \in ffiPending' \ CpFlight'
  BY <1>1, <1>2, <1>3 DEF CpBefore, CpCallersHold
<1>. QED BY <1>3, <1>4, <1>5, CpHoldsOn DEF CpBefore

LEMMA CpForgetBefore ==
  ASSUME CpTyped, CpTyped', CpBefore, PipelineNext, NEW c \in CmdCallers, ForgetCommand(c)
  PROVE  CpBefore'
<1>0. cmdCaller \in [CmdCallers -> [at : {"idle", "check", "push", "forget"}, id : CpSlot]]
  BY DEF CpTyped, CpThreadsTyped, CpCallersTyped
<1>. DEFINE id == cmdCaller[c].id
<1>1. /\ cmdCaller'[c].at = "idle" /\ cmdCaller[c].at = "forget" /\ \A b \in CmdCallers : b # c => cmdCaller'[b] = cmdCaller[b]
      /\ id \in CmdIds
  BY <1>0 DEF ForgetCommand, Ats, CpTyped, CpThreadsTyped, CpCallersTyped
<1>2. /\ ffiPending' = ffiPending \ {id} /\ ffiTerminal' = ffiTerminal /\ cmdHistory' = cmdHistory
      /\ ffiSynthetic' = ffiSynthetic /\ ffiDrained' = ffiDrained /\ cmdMail' = cmdMail /\ cmdResults' = cmdResults
      /\ cmdWorker' = cmdWorker
  BY DEF ForgetCommand, cmdCore
<1>3. CpFlight' = CpFlight /\ CpApart' BY <1>2 DEF CpFlight, CpHand, CpBefore, CpApart
<1>4. id \in ffiPending \ CpFlight /\ cmdHistory.accepted[id] <= CpAnswers(id)
  BY <1>1 DEF CpBefore, CpCallersHold
<1>5. \A a \in CmdCallers : cmdCaller'[a].at # "idle" =>
           /\ cmdCaller[a].at # "idle" /\ cmdCaller'[a].id = cmdCaller[a].id
           /\ cmdHistory'.accepted[cmdCaller[a].id] = cmdHistory.accepted[cmdCaller[a].id]
           /\ cmdCaller[a].id \in ffiPending' \ CpFlight'
  <2>. SUFFICES ASSUME NEW a \in CmdCallers, cmdCaller'[a].at # "idle"
       PROVE  /\ cmdCaller[a].at # "idle" /\ cmdCaller'[a].id = cmdCaller[a].id
              /\ cmdCaller[a].id \in ffiPending' \ CpFlight'
    BY <1>2
  <2>1. a # c /\ cmdCaller'[a] = cmdCaller[a] BY <1>1
  <2>2. cmdCaller[a].id # id BY <1>1, <2>1 DEF CpBefore, CpCallersHold
  <2>. QED BY <1>2, <1>3, <2>1, <2>2 DEF CpBefore, CpCallersHold
<1>. HIDE DEF id
<1>6. CpIdsTracked'
  <2>. SUFFICES ASSUME NEW j \in CmdIds
       PROVE  /\ j \in CpFlight => j \in ffiPending \ {id}
              /\ j \in ffiPending \ {id} => j \notin Range(ffiTerminal)
              /\ cmdHistory.accepted[j] <= CpAnswers(j)' + One(j \in ffiPending \ {id})
    BY <1>2, <1>3 DEF CpIdsTracked
  <2>1. CpAnswers(j)' = CpAnswers(j) BY <1>2 DEF CpAnswers
  <2>2. CpAnswersOf(j) BY CpAnswersAre
  <2>3. /\ j \in CpFlight => j \in ffiPending
        /\ j \in ffiPending => j \notin Range(ffiTerminal)
        /\ cmdHistory.accepted[j] <= CpAnswers(j) + One(j \in ffiPending)
    BY DEF CpBefore, CpIdsTracked
  <2>4. cmdHistory.accepted[j] <= CpAnswers(j)' + One(j \in ffiPending \ {id})
    <3>1. CASE j = id BY <1>4, <2>1, <2>2, <3>1 DEF One, CpAnswersOf
    <3>2. CASE j # id BY <2>1, <2>3, <3>2 DEF One
    <3>. QED BY <3>1, <3>2
  <2>. QED BY <1>4, <2>3, <2>4
<1>. QED BY <1>3, <1>5, <1>6, CpHoldsOn DEF CpBefore

\* An accepted command is in the mailbox and nowhere else.
LEMMA CpPushBefore ==
  ASSUME CpTyped, CpTyped', CpBefore, PipelineNext, NEW c \in CmdCallers, PushCommand(c)
  PROVE  CpBefore'
<1>0. /\ cmdCaller \in [CmdCallers -> [at : {"idle", "check", "push", "forget"}, id : CpSlot]]
      /\ cmdHistory \in CpHistories /\ cmdMail \in Seq(CmdIds)
  BY DEF CpTyped, CpThreadsTyped, CpCallersTyped, CpCoreTyped
<1>. DEFINE id == cmdCaller[c].id
            ok == cmdWorker.at \notin {"absent", "gone"} /\ Len(cmdMail) < CmdMailbox
<1>1. /\ cmdCaller[c].at = "push" /\ \A b \in CmdCallers : b # c => cmdCaller'[b] = cmdCaller[b]
      /\ id \in CmdIds /\ cmdCaller'[c] = IF ok THEN Ats("idle", NoCmd) ELSE Ats("forget", id)
  BY <1>0 DEF PushCommand, CpTyped, CpThreadsTyped, CpCallersTyped
<1>2. /\ ffiPending' = ffiPending /\ ffiTerminal' = ffiTerminal
      /\ ffiSynthetic' = ffiSynthetic /\ ffiDrained' = ffiDrained /\ cmdResults' = cmdResults
      /\ cmdWorker' = cmdWorker /\ cmdMail' = (IF ok THEN Append(cmdMail, id) ELSE cmdMail)
  BY DEF PushCommand, ffiVars
<1>3. /\ cmdHistory'.answered = cmdHistory.answered /\ cmdHistory'.lost = cmdHistory.lost
      /\ \A j \in CmdIds : cmdHistory'.accepted[j] = cmdHistory.accepted[j] + One(ok /\ j = id)
  <2>1. CASE ok
    <3>1. cmdHistory' = [cmdHistory EXCEPT !.accepted[id] = @ + 1] BY <2>1 DEF PushCommand
    <3>2. id \in CmdIds BY <1>1
    <3>. HIDE DEF id
    <3>3. cmdHistory'.accepted = [cmdHistory.accepted EXCEPT ![id] = @ + 1] /\ cmdHistory'.answered = cmdHistory.answered
          /\ cmdHistory'.lost = cmdHistory.lost
      BY <1>0, <3>1, <3>2 DEF CpHistories, CpCounts
    <3>. QED BY <1>0, <2>1, <3>2, <3>3 DEF CpHistories, CpCounts, One
  <2>2. CASE ~ok
    <3>1. cmdHistory' = cmdHistory BY <2>2 DEF PushCommand
    <3>. QED BY <1>0, <2>2, <3>1 DEF One, CpHistories, CpCounts
  <2>. QED BY <2>1, <2>2
<1>4. id \in ffiPending \ CpFlight /\ cmdHistory.accepted[id] <= CpAnswers(id)
  BY <1>1 DEF CpBefore, CpCallersHold
<1>5. CpFlight' = (IF ok THEN CpFlight \cup {id} ELSE CpFlight) /\ CpApart'
  <2>1. CASE ~ok BY <1>2, <2>1 DEF CpFlight, CpHand, CpBefore, CpApart
  <2>2. CASE ok
    <3>1. id \notin Range(cmdMail) /\ id \notin Range(cmdResults) /\ id \notin CpHand BY <1>4 DEF CpFlight
    <3>2. IsInjective(cmdMail) BY DEF CpBefore, CpApart
    <3>3. cmdMail' = Append(cmdMail, id) BY <1>2, <2>2
    <3>4. Range(cmdMail') = Range(cmdMail) \cup {id} /\ IsInjective(cmdMail')
      BY <1>0, <1>1, <3>1, <3>2, <3>3, RangeAppended
    <3>5. CpHand' = CpHand /\ cmdResults' = cmdResults BY <1>2 DEF CpHand
    <3>. QED BY <2>2, <3>1, <3>4, <3>5 DEF CpFlight, CpBefore, CpApart
  <2>. QED BY <2>1, <2>2
<1>6. \A a \in CmdCallers : cmdCaller'[a].at # "idle" =>
           /\ cmdCaller[a].at # "idle" /\ cmdCaller'[a].id = cmdCaller[a].id
           /\ cmdHistory'.accepted[cmdCaller[a].id] = cmdHistory.accepted[cmdCaller[a].id]
           /\ cmdCaller[a].id \in ffiPending' \ CpFlight'
  <2>. SUFFICES ASSUME NEW a \in CmdCallers, cmdCaller'[a].at # "idle"
       PROVE  /\ cmdCaller[a].at # "idle" /\ cmdCaller'[a].id = cmdCaller[a].id
              /\ cmdHistory'.accepted[cmdCaller[a].id] = cmdHistory.accepted[cmdCaller[a].id]
              /\ cmdCaller[a].id \in ffiPending' \ CpFlight'
    OBVIOUS
  <2>1. CASE a = c
    <3>1. ~ok BY <1>1, <2>1 DEF Ats
    <3>2. cmdCaller'[a].id = id BY <1>1, <2>1, <3>1 DEF Ats
    <3>3. cmdHistory' = cmdHistory BY <3>1 DEF PushCommand
    <3>. QED BY <1>1, <1>2, <1>4, <1>5, <2>1, <3>1, <3>2, <3>3
  <2>2. CASE a # c
    <3>1. cmdCaller'[a] = cmdCaller[a] BY <1>1, <2>2
    <3>2. cmdCaller[a].id # id /\ cmdCaller[a].id \in ffiPending \ CpFlight
      BY <1>1, <2>2, <3>1 DEF CpBefore, CpCallersHold
    <3>3. cmdCaller[a].id \in CmdIds BY <3>1 DEF CpTyped, CpThreadsTyped, CpCallersTyped
    <3>4. cmdHistory'.accepted[cmdCaller[a].id] = cmdHistory.accepted[cmdCaller[a].id]
      BY <1>0, <1>3, <3>2, <3>3 DEF One, CpHistories, CpCounts
    <3>. QED BY <1>2, <1>5, <3>1, <3>2, <3>4
  <2>. QED BY <2>1, <2>2
<1>. HIDE DEF id, ok
<1>7. CpIdsTracked'
  <2>. SUFFICES ASSUME NEW j \in CmdIds
       PROVE  /\ j \in CpFlight' => j \in ffiPending
              /\ j \in ffiPending => j \notin Range(ffiTerminal)
              /\ cmdHistory'.accepted[j] <= CpAnswers(j)' + One(j \in ffiPending)
    BY <1>2 DEF CpIdsTracked
  <2>1. CpAnswersOf(j) BY CpAnswersAre
  <2>2. CpAnswers(j)' = CpAnswers(j) BY <1>2, <1>3, <2>1 DEF CpAnswersOf
  <2>3. /\ j \in CpFlight => j \in ffiPending
        /\ j \in ffiPending => j \notin Range(ffiTerminal)
        /\ cmdHistory.accepted[j] <= CpAnswers(j) + One(j \in ffiPending)
    BY DEF CpBefore, CpIdsTracked
  <2>4. cmdHistory'.accepted[j] <= CpAnswers(j)' + One(j \in ffiPending)
    <3>0. CpAnswers(j) \in Nat /\ cmdHistory.accepted[j] \in Nat BY <2>1 DEF CpAnswersOf
    <3>1. cmdHistory'.accepted[j] = cmdHistory.accepted[j] + One(ok /\ j = id) BY <1>3
    <3>2. CASE j = id
      <4>1. j \in ffiPending /\ cmdHistory.accepted[j] <= CpAnswers(j) BY <1>4, <3>2
      <4>. QED BY ONLY <2>2, <3>0, <3>1, <4>1 DEF One
    <3>3. CASE j # id BY ONLY <2>2, <2>3, <3>0, <3>1, <3>3 DEF One
    <3>. QED BY <3>2, <3>3
  <2>. QED BY <1>4, <1>5, <2>3, <2>4
<1>. QED BY <1>5, <1>6, <1>7, CpHoldsOn DEF CpBefore

\* A result is of a pending command, so that it is admitted: it answers the command.
LEMMA CpDrainBefore ==
  ASSUME CpTyped, CpTyped', CpBefore, PipelineNext, DrainResult
  PROVE  CpBefore'
<1>. DEFINE h == Head(cmdResults)
<1>0. /\ cmdResults \in Seq(CmdIds) /\ cmdResults # <<>> /\ IsInjective(cmdResults) /\ h \in CmdIds
      /\ ffiTerminal \in Seq(CmdIds) /\ IsInjective(ffiTerminal) /\ Len(ffiTerminal) <= FfiMaxTerminal
  BY DEF DrainResult, CpTyped, CpCoreTyped, CpFfiTyped, CpBefore, CpApart
<1>1. cmdResults' = Tail(cmdResults) /\ cmdMail' = cmdMail /\ cmdWorker' = cmdWorker /\ cmdCaller' = cmdCaller BY DEF DrainResult
<1>2. Range(cmdResults') = Range(cmdResults) \ {h} /\ IsInjective(cmdResults') /\ h \in Range(cmdResults)
  BY <1>0, <1>1, RangeTaken
<1>3. h \in CpFlight /\ h \in ffiPending /\ AdmitOnce(h)
  <2>1. h \in CpFlight BY <1>2 DEF CpFlight
  <2>2. h \in ffiPending /\ h \notin Range(ffiTerminal) BY <1>0, <2>1 DEF CpBefore, CpIdsTracked
  <2>. QED BY <2>1, <2>2 DEF AdmitOnce
<1>4. ffiPending' = ffiPending \ {h} /\ Range(ffiTerminal') \subseteq Range(ffiTerminal) \cup {h}
  <2>1. ffiPending' = ffiPending \ {h} /\ ffiTerminal' = Remember(ffiTerminal, h, FfiMaxTerminal) BY <1>3 DEF DrainResult
  <2>. QED BY <1>0, <2>1, CpBounds, RememberIs
<1>5. cmdHistory'.accepted = cmdHistory.accepted BY DEF DrainResult, CpTyped, CpThreadsTyped, CpHistories
<1>6. \A j \in CmdIds : CpAnswers(j)' >= CpAnswers(j) + One(j = h)
  <2>. TAKE j \in CmdIds
  <2>1. CpAnswers(j)' >= CpAnswers(j) + One(j = h /\ AdmitOnce(h)) BY CpDrainAnswers
  <2>. QED BY <1>3, <2>1 DEF One
<1>. HIDE DEF h
<1>7. CpFlight' = CpFlight \ {h} /\ CpApart'
  <2>1. h \notin Range(cmdMail) /\ h \notin CpHand BY <1>2 DEF CpBefore, CpApart
  <2>2. CpHand' = CpHand BY <1>1 DEF CpHand
  <2>. QED BY <1>1, <1>2, <2>1, <2>2 DEF CpFlight, CpBefore, CpApart
<1>8. \A a \in CmdCallers : cmdCaller'[a].at # "idle" =>
           /\ cmdCaller[a].at # "idle" /\ cmdCaller'[a].id = cmdCaller[a].id
           /\ cmdHistory'.accepted[cmdCaller[a].id] = cmdHistory.accepted[cmdCaller[a].id]
           /\ cmdCaller[a].id \in ffiPending' \ CpFlight'
  BY <1>1, <1>3, <1>4, <1>5, <1>7 DEF CpBefore, CpCallersHold
<1>9. CpIdsTracked'
  <2>. SUFFICES ASSUME NEW j \in CmdIds
       PROVE  /\ j \in CpFlight' => j \in ffiPending'
              /\ j \in ffiPending' => j \notin Range(ffiTerminal')
              /\ cmdHistory'.accepted[j] <= CpAnswers(j)' + One(j \in ffiPending')
    BY DEF CpIdsTracked
  <2>1. /\ j \in CpFlight => j \in ffiPending
        /\ j \in ffiPending => j \notin Range(ffiTerminal)
        /\ cmdHistory.accepted[j] <= CpAnswers(j) + One(j \in ffiPending)
    BY DEF CpBefore, CpIdsTracked
  <2>2. CpAnswers(j) \in Nat /\ CpAnswers(j)' \in Nat /\ cmdHistory.accepted[j] \in Nat BY CpAnswersAre DEF CpAnswersOf
  <2>3. CpAnswers(j)' >= CpAnswers(j) + One(j = h) BY <1>6
  <2>4. cmdHistory'.accepted[j] = cmdHistory.accepted[j] BY <1>5
  <2>5. j \in ffiPending /\ j # h => j \in ffiPending' BY <1>4
  <2>6. cmdHistory'.accepted[j] <= CpAnswers(j)' + One(j \in ffiPending') BY ONLY <2>1, <2>2, <2>3, <2>4, <2>5 DEF One
  <2>. QED BY <1>4, <1>7, <2>1, <2>6
<1>. QED BY <1>7, <1>8, <1>9, CpHoldsOn DEF CpBefore

\* What the worker does leaves a command on its way, in one place.
LEMMA CpWorkerBefore ==
  ASSUME CpTyped, CpTyped', CpBefore, PipelineNext, WorkerStep
  PROVE  CpBefore'
<1>0. /\ cmdMail \in Seq(CmdIds) /\ cmdResults \in Seq(CmdIds) /\ IsInjective(cmdMail) /\ IsInjective(cmdResults)
      /\ Range(cmdMail) \cap Range(cmdResults) = {} /\ CpHand \cap (Range(cmdMail) \cup Range(cmdResults)) = {}
  BY DEF CpTyped, CpCoreTyped, CpBefore, CpApart
<1>1. /\ cmdCaller' = cmdCaller /\ ffiPending' = ffiPending /\ ffiTerminal' = ffiTerminal
      /\ cmdHistory'.accepted = cmdHistory.accepted
  BY DEF WorkerStep, WorkerRecv, Dispatched, WorkerEmit, WorkerEnds, WorkerKeeps, ffiVars, CpTyped, CpThreadsTyped, CpHistories
<1>2. CASE WorkerRecv
  <2>1. cmdMail # <<>> /\ cmdMail' = Tail(cmdMail) /\ cmdResults' = cmdResults BY <1>2 DEF WorkerRecv
  <2>2. CpHand' = {Head(cmdMail)} /\ CpHand = {} BY <1>2 DEF WorkerRecv, CpHand, CpBusy, Ats
  <2>3. Range(cmdMail') = Range(cmdMail) \ {Head(cmdMail)} /\ IsInjective(cmdMail') /\ Head(cmdMail) \in Range(cmdMail)
    BY <1>0, <2>1, RangeTaken
  <2>4. CpFlight' \subseteq CpFlight /\ CpApart' BY <1>0, <2>1, <2>2, <2>3 DEF CpFlight, CpApart
  <2>. QED BY <1>1, <2>4, CpBeforeKept
<1>3. CASE Dispatched
  <2>1. cmdMail' = cmdMail /\ cmdResults' = cmdResults /\ CpHand' = CpHand BY <1>3 DEF Dispatched, CpHand, CpBusy, Ats
  <2>2. CpFlight' \subseteq CpFlight /\ CpApart' BY <1>0, <2>1 DEF CpFlight, CpApart
  <2>. QED BY <1>1, <2>2, CpBeforeKept
<1>4. CASE WorkerEmit
  <2>1. cmdMail' = cmdMail /\ cmdResults' = Append(cmdResults, cmdWorker.id) BY <1>4 DEF WorkerEmit
  <2>2. CpHand = {cmdWorker.id} /\ CpHand' = {} /\ cmdWorker.id \in CmdIds
    BY <1>4 DEF WorkerEmit, CpHand, CpBusy, Ats, CpTyped, CpCoreTyped
  <2>3. Range(cmdResults') = Range(cmdResults) \cup {cmdWorker.id} /\ IsInjective(cmdResults')
    BY <1>0, <2>1, <2>2, RangeAppended
  <2>4. CpFlight' \subseteq CpFlight /\ CpApart' BY <1>0, <2>1, <2>2, <2>3 DEF CpFlight, CpApart
  <2>. QED BY <1>1, <2>4, CpBeforeKept
<1>5. CASE WorkerEnds
  <2>1. cmdMail' = cmdMail /\ cmdResults' = cmdResults /\ CpHand' = {} BY <1>5 DEF WorkerEnds, CpHand, CpBusy, Ats
  <2>2. CpFlight' \subseteq CpFlight /\ CpApart' BY <1>0, <2>1 DEF CpFlight, CpApart
  <2>. QED BY <1>1, <2>2, CpBeforeKept
<1>. QED BY <1>2, <1>3, <1>4, <1>5 DEF WorkerStep

\* The other steps: the lifecycle, the stoppers before they drain, and the poll.
LEMMA CpOthersBefore ==
  ASSUME CpTyped, CpTyped', CpLife, CpBefore, PipelineNext,
         \/ StartExchange \/ StartFinish
         \/ \E s \in CmdStoppers : (StopLoad(s) \/ StopperStep(s)) /\ ~CancelDrain(s) /\ ~CancelSettle(s)
         \/ PollSynthetic \/ (\E k \in {"normal", "data"} : DrainNoise(k)) \/ PollReturn
  PROVE  CpBefore'
<1>0. cmdHistory \in CpHistories BY DEF CpTyped, CpThreadsTyped
<1>. DEFINE Kept == /\ cmdCaller' = cmdCaller /\ ffiPending' = ffiPending /\ ffiTerminal' = ffiTerminal
                    /\ cmdHistory'.accepted = cmdHistory.accepted
            Core == cmdMail' = cmdMail /\ cmdResults' = cmdResults /\ CpHand' = CpHand
<1>1. ASSUME Kept, Core PROVE CpBefore'
  <2>1. CpFlight' \subseteq CpFlight /\ CpApart' BY <1>1 DEF CpFlight, CpBefore, CpApart
  <2>. QED BY <1>1, <2>1, CpBeforeKept
<1>2. CASE StartExchange
  <2>1. Kept /\ Core BY <1>2 DEF StartExchange, cmdCore, ffiVars, CpHand
  <2>. QED BY <1>1, <2>1
<1>3. CASE StartFinish
  <2>1. Kept /\ cmdMail' = cmdMail /\ cmdResults' = cmdResults BY <1>3 DEF StartFinish, ffiVars
  <2>2. CpHand' = CpHand BY <1>3 DEF StartFinish, CpHand, CpBusy, Ats, CpLife
  <2>. QED BY <1>1, <2>1, <2>2
<1>4. ASSUME NEW s \in CmdStoppers, StopLoad(s) \/ StopWait(s) \/ StopExchange(s) \/ StopTake(s) \/ StopStore(s) PROVE CpBefore'
  <2>1. Kept /\ Core BY <1>4 DEF StopLoad, StopWait, StopExchange, StopTake, StopStore, cmdCore, ffiVars, CpHand
  <2>. QED BY <1>1, <2>1
<1>5. ASSUME NEW s \in CmdStoppers, StopJoin(s) PROVE CpBefore'
  <2>1. Kept /\ cmdMail' = <<>> /\ cmdResults' = cmdResults BY <1>5 DEF StopJoin, ffiVars
  <2>2. CpHand' = {} BY <1>5 DEF StopJoin, CpHand, CpBusy, Ats
  <2>3. Range(cmdMail') = {} /\ IsInjective(cmdMail') BY <2>1 DEF Range, IsInjective
  <2>4. CpFlight' \subseteq CpFlight /\ CpApart' BY <2>1, <2>2, <2>3 DEF CpFlight, CpBefore, CpApart
  <2>. QED BY <2>1, <2>4, CpBeforeKept
<1>6. CASE PollSynthetic
  <2>1. Kept /\ Core BY <1>0, <1>6 DEF PollSynthetic, PollKeeps, CpHand, CpHistories
  <2>. QED BY <1>1, <2>1
<1>7. ASSUME NEW k \in {"normal", "data"}, DrainNoise(k) PROVE CpBefore'
  <2>1. Kept /\ Core BY <1>7 DEF DrainNoise, PollKeeps, CpHand
  <2>. QED BY <1>1, <2>1
<1>8. CASE PollReturn
  <2>1. Kept /\ Core BY <1>0, <1>8 DEF PollReturn, MuxPop, PollKeeps, CpHand, CpHistories
  <2>. QED BY <1>1, <2>1
<1>. QED BY <1>2, <1>3, <1>4, <1>5, <1>6, <1>7, <1>8 DEF StopperStep

LEMMA CpTrackedStep ==
  ASSUME CpTyped, CpTyped', CpLife, CpTracked, PipelineNext, ~StartStopOverlap
  PROVE  CpTracked'
<1>1. CASE CpDrained
  <2>1. CpDrained' BY <1>1, CpDrainedStays
  <2>2. CpAfter' BY <1>1, CpAfterStep DEF CpTracked
  <2>. QED BY <2>1, <2>2 DEF CpTracked
<1>2. CASE ~CpDrained
  <2>0. CpBefore BY <1>2 DEF CpTracked
  <2>1. ASSUME NEW s \in CmdStoppers, CancelSettle(s) PROVE FALSE BY <1>2, <2>1 DEF CancelSettle, CpDrained
  <2>2. ASSUME NEW s \in CmdStoppers, CancelDrain(s) PROVE CpTracked'
    <3>1. CpAfter' BY <1>2, <2>0, <2>2, CpFirstDrain
    <3>2. CpDrained' BY <2>2, CpStagesMove DEF StopperStep, CpDrained
    <3>. QED BY <3>1, <3>2 DEF CpTracked
  <2>3. CASE \A s \in CmdStoppers : ~CancelDrain(s)
    <3>1. ~CpDrained' BY <1>2, <2>1, <2>3, CpDrainedStays
    <3>2. ASSUME NEW c \in CmdCallers, CallerStep(c) \/ \E id \in CmdIds : RememberCommand(c, id) PROVE CpBefore'
      BY <2>0, <3>2, CpRememberBefore, CpCheckBefore, CpPushBefore, CpForgetBefore DEF CallerStep
    <3>3. ASSUME WorkerStep PROVE CpBefore' BY <2>0, <3>3, CpWorkerBefore
    <3>4. ASSUME DrainResult PROVE CpBefore' BY <2>0, <3>4, CpDrainBefore
    <3>5. ASSUME \/ StartExchange \/ StartFinish
                 \/ \E s \in CmdStoppers : (StopLoad(s) \/ StopperStep(s)) /\ ~CancelDrain(s) /\ ~CancelSettle(s)
                 \/ PollSynthetic \/ (\E k \in {"normal", "data"} : DrainNoise(k)) \/ PollReturn
          PROVE  CpBefore'
      BY <2>0, <3>5, CpOthersBefore
    <3>6. CpBefore' BY <2>1, <2>3, <3>2, <3>3, <3>4, <3>5 DEF PipelineNext, PollStep
    <3>. QED BY <3>1, <3>6 DEF CpTracked
  <2>. QED BY <2>2, <2>3
<1>. QED BY <1>1, <1>2

-----------------------------------------------------------------------------
(* Commands: the theorem                                                   *)

LEMMA CpStart ==
  ASSUME PipelineInit
  PROVE  CpInv
<1>. USE DEF PipelineInit
<1>0. /\ <<>> \in Seq(CmdIds) /\ IsInjective(<<>>) /\ Len(<<>>) = 0 /\ Range(<<>>) = {}
  BY DEF IsInjective, Range
<1>1. CpCoreTyped
  <2>1. cmdWorker.at = "absent" /\ cmdWorker \in [at : {"absent", "idle", "gone"} \cup CpBusy, id : CpSlot]
    BY CpBounds DEF Ats
  <2>2. cmdWorker.at \notin CpBusy BY <2>1 DEF CpBusy
  <2>3. \A n \in Nat \ {0} : 0 <= n OBVIOUS
  <2>4. Len(cmdMail) <= CmdMailbox /\ Len(cmdLedger) <= CmdMaxCompleted BY <1>0, <2>3, CpBounds
  <2>. QED BY <1>0, <2>1, <2>2, <2>4 DEF CpCoreTyped
<1>2. CpFfiTyped
  <2>1. IsFiniteSet({}) /\ Cardinality({}) = 0 BY FS_EmptySet
  <2>2. CpMux(ffiDrained) BY <1>0, CpBounds DEF CpMux, CpMuxes
  <2>. QED BY <1>0, <2>1, <2>2, CpBounds DEF CpFfiTyped
<1>3. CpThreadsTyped
  <2>1. CpCallersTyped BY CpBounds DEF CpCallersTyped, Ats
  <2>2. CpStoppersTyped BY FS_EmptySet DEF CpStoppersTyped, CpStages
  <2>3. cmdHistory \in CpHistories BY <1>0 DEF CpHistories, CpCounts, None0
  <2>. QED BY <2>1, <2>2, <2>3 DEF CpThreadsTyped
<1>4. CpTyped BY <1>1, <1>2, <1>3 DEF CpTyped
<1>5. CpLife BY DEF CpLife, CpQuiet, Ats
<1>6. CpLedger /\ NoReexecution
  <2>1. cmdHistory.dispatched = <<>> /\ cmdLedger = <<>> /\ cmdWorker.at = "absent" BY DEF Ats
  <2>2. CpHolds(<<>>, <<>>, 0) BY CpBounds DEF CpHolds
  <2>3. CpLedger BY <1>0, <2>1, <2>2 DEF CpLedger, CpLedgerAt
  <2>. QED BY <2>1, <2>3 DEF NoReexecution
<1>7. ~CpDrained BY DEF CpDrained
<1>8. CpBefore
  <2>1. CpFlight = {} /\ CpApart BY <1>0 DEF CpFlight, CpHand, CpBusy, CpApart, Ats
  <2>2. CpCallersHold BY DEF CpCallersHold, Ats
  <2>3. ASSUME NEW id \in CmdIds PROVE cmdHistory.accepted[id] <= CpAnswers(id) + One(id \in ffiPending)
    <3>1. CpAnswers(id) \in Nat
      BY <1>2, <1>3, CpAnswersNat DEF CpAnswers, CpFfiTyped, CpThreadsTyped, CpMux, CpMuxes
    <3>2. cmdHistory.accepted[id] = 0 BY DEF None0
    <3>. QED BY ONLY <3>1, <3>2 DEF One
  <2>4. CpIdsTracked BY <2>1, <2>3 DEF CpIdsTracked
  <2>. QED BY <2>1, <2>2, <2>4 DEF CpBefore
<1>. QED BY <1>4, <1>5, <1>6, <1>7, <1>8 DEF CpInv, CpTracked

LEMMA CpStutters ==
  ASSUME CpInv, UNCHANGED cmdVars
  PROVE  CpInv'
<1>. USE DEF cmdVars, cmdLifecycle, cmdCore, ffiVars
<1>1. CpTyped' BY DEF CpInv, CpTyped, CpCoreTyped, CpFfiTyped, CpMux, CpThreadsTyped, CpCallersTyped, CpStoppersTyped
<1>2. CpLife' BY DEF CpInv, CpLife, CpQuiet
<1>3. CpLedger' /\ NoReexecution' BY DEF CpInv, CpLedger, NoReexecution
<1>4. \A id \in CmdIds : CpAnswers(id)' = CpAnswers(id) /\ (CpHeld(id)' <=> CpHeld(id)) /\ (CpPushing(id)' <=> CpPushing(id))
  BY DEF CpAnswers, CpHeld, CpPushing
<1>5. CpFlight' = CpFlight /\ (CpApart' <=> CpApart) /\ (CpDrained' <=> CpDrained) BY DEF CpFlight, CpHand, CpApart, CpDrained
<1>6. CpAfter' <=> CpAfter BY <1>4 DEF CpAfter, One
<1>7. CpBefore => CpBefore'
  <2>1. CpIdsTracked => CpIdsTracked' BY <1>4, <1>5 DEF CpIdsTracked
  <2>2. CpCallersHold => CpCallersHold' BY <1>5 DEF CpCallersHold, CpAnswers
  <2>. QED BY <1>5, <2>1, <2>2 DEF CpBefore
<1>8. CpTracked' BY <1>5, <1>6, <1>7 DEF CpInv, CpTracked
<1>. QED BY <1>1, <1>2, <1>3, <1>8 DEF CpInv

\* What a stop holds, or the pending set, counts as unsettled.
LEMMA CpUnsettled ==
  ASSUME CpTyped, NEW id \in CmdIds
  PROVE  /\ Unsettled(id) \in Nat
         /\ CpHeld(id) => Unsettled(id) >= 1
         /\ id \in ffiPending => Unsettled(id) >= 1
<1>. DEFINE holders == {s \in CmdStoppers : id \in cmdStopper[s].ids /\ id \notin Range(ffiTerminal)}
            n == Cardinality(holders)
<1>1. IsFiniteSet(holders)
  <2>1. IsFiniteSet(CmdStoppers) /\ holders \subseteq CmdStoppers BY CpBounds
  <2>. QED BY <2>1, FS_Subset
<1>2. n \in Nat BY <1>1, FS_CardinalityType
<1>3. CpHeld(id) => n >= 1
  <2>1. CpHeld(id) => holders # {} BY DEF CpHeld
  <2>2. n = 0 <=> holders = {} BY <1>1, FS_EmptySet
  <2>. HIDE DEF holders, n
  <2>. QED BY <1>2, <2>1, <2>2
<1>4. Unsettled(id) = One(id \in ffiPending) + n BY DEF Unsettled
<1>. HIDE DEF n
<1>. QED BY ONLY <1>2, <1>3, <1>4 DEF One

LEMMA CpConsistent ==
  ASSUME CpInv
  PROVE  AnswersConsistent
<1>1. PipelineTypeOK
  <2>1. CpTyped BY DEF CpInv
  <2>. QED BY <2>1 DEF CpTyped, CpCoreTyped, CpFfiTyped, CpMux, CpBusy, PipelineTypeOK
<1>2. StoppedIsQuiet BY DEF CpInv, CpLife, CpQuiet, StoppedIsQuiet
<1>3. NoReexecution BY DEF CpInv
<1>4. ASSUME NEW id \in CmdIds
      PROVE  cmdHistory.accepted[id] <= cmdHistory.answered[id] + InMux(id) + cmdHistory.lost[id] + Unsettled(id)
  <2>0. CpTyped BY DEF CpInv
  <2>1. CpAnswers(id) = cmdHistory.answered[id] + InMux(id) + cmdHistory.lost[id]
    BY DEF CpAnswers, CpAnswersIn, InMux
  <2>2. CpAnswers(id) \in Nat /\ cmdHistory.accepted[id] \in Nat
    BY <2>0, CpAnswersNat DEF CpAnswers, CpTyped, CpFfiTyped, CpThreadsTyped, CpMux, CpMuxes
  <2>3. /\ Unsettled(id) \in Nat /\ (CpHeld(id) => Unsettled(id) >= 1) /\ (id \in ffiPending => Unsettled(id) >= 1)
    BY <2>0, CpUnsettled
  <2>4. cmdHistory.accepted[id] <= CpAnswers(id) + Unsettled(id)
    <3>1. CASE CpDrained
      <4>1. cmdHistory.accepted[id] + One(CpPushing(id)) <= CpAnswers(id) + One(CpHeld(id)) BY <3>1 DEF CpInv, CpTracked, CpAfter
      <4>. QED BY ONLY <2>2, <2>3, <4>1 DEF One
    <3>2. CASE ~CpDrained
      <4>1. cmdHistory.accepted[id] <= CpAnswers(id) + One(id \in ffiPending) BY <3>2 DEF CpInv, CpTracked, CpBefore, CpIdsTracked
      <4>. QED BY ONLY <2>2, <2>3, <4>1 DEF One
    <3>. QED BY <3>1, <3>2
  <2>. QED BY ONLY <2>1, <2>4
<1>5. AcceptedIsTracked BY <1>4 DEF AcceptedIsTracked
<1>. QED BY <1>1, <1>2, <1>3, <1>5 DEF AnswersConsistent

\* From submission to poll (ssh_net_runtime_command, run_command_worker, admit_event,
\* cancel_pending_commands): for any number of callers and stoppers and any sizes of the queues,
\* an accepted command keeps an answer on its way until the poll returns one or a full mux refuses it,
\* the ledger lets no command be carried out twice within MAX_COMPLETED_COMMANDS, and a stopped
\* runtime has no worker, as long as start and stop do not overlap.
THEOREM AnswersStayConsistent ==
  ASSUME ~StartStopOverlap
  PROVE  PipelineSpec => []AnswersConsistent
<1>1. PipelineInit => CpInv BY CpStart
<1>2. CpInv /\ [PipelineNext]_cmdVars => CpInv'
  <2>. SUFFICES ASSUME CpInv, PipelineNext PROVE CpInv'
    BY CpStutters
  <2>1. CpTyped /\ CpLife /\ CpLedger /\ NoReexecution /\ CpTracked BY DEF CpInv
  <2>2. CpTyped' BY <2>1, CpTypedStep
  <2>3. CpLife' BY <2>1, CpLifeStep
  <2>4. CpLedger' /\ NoReexecution' BY <2>1, CpLedgerStep
  <2>5. CpTracked' BY <2>1, <2>2, CpTrackedStep
  <2>. QED BY <2>2, <2>3, <2>4, <2>5 DEF CpInv
<1>3. CpInv => AnswersConsistent BY CpConsistent
<1>. QED BY <1>1, <1>2, <1>3, PTL DEF PipelineSpec
=============================================================================
