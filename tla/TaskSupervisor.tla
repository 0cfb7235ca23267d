--------------------------- MODULE TaskSupervisor ---------------------------
(***************************************************************************)
(* RuntimeTaskSupervisor (task_supervisor.rs), the sole owner of the       *)
(* native background tasks: admission of runtime and session tasks, their  *)
(* cancellation one by one or by session, and shutdown.                    *)
(*                                                                         *)
(* The `tasks` and `session_groups` maps and the member list of a group    *)
(* have a mutex each, `stopping` and the tokens are atomics, and callers   *)
(* run on many threads, so an operation is a sequence of steps: the        *)
(* callers of spawn are `Spawners`, the callers of the cancelling          *)
(* operations `Closers`.  Steps that touch nothing another thread can see  *)
(* in between are joined.                                                  *)
(*                                                                         *)
(* Abstractions.  A task is its id; its future is live until it completes, *)
(* one of its tokens is cancelled or it is aborted, which also cancels its *)
(* token.  A group is a number, because a session that was cancelled gets  *)
(* a new one under the same key.  Poisoned locks are left out.             *)
(***************************************************************************)
EXTENDS Naturals, FiniteSets

CONSTANTS
  Spawners, Closers, Sessions,
  MaxSupervised,  \* MAX_SUPERVISED_TASKS
  MaxTasks,       \* model bound: tasks 1 .. MaxTasks are started
  MaxGroups,      \* model bound: groups 1 .. MaxGroups are created
  MaxCalls        \* model bound: calls of spawn and cancel that are made

ASSUME TaskAssumption ==
  /\ IsFiniteSet(Spawners) /\ Spawners # {}
  /\ MaxSupervised \in Nat /\ MaxTasks \in Nat /\ MaxGroups \in Nat
  /\ MaxCalls \in Nat

None == 0  \* neither a task id nor a group
Ids  == 1 .. MaxTasks
Groups == 1 .. MaxGroups

VARIABLES
  stopping, root,   \* the flag and the root token
  tasks,            \* ids with a record
  token,            \* tasks whose own token is cancelled
  live,             \* tasks whose future has not been released
  groupOf,          \* the group a task was started in
  nextId, nextGroup,
  current,          \* session_groups
  members,          \* task_ids of every group
  cancelled,        \* groups whose token is cancelled
  spawner, closer,  \* where each caller is
  drained,          \* history: a shutdown has emptied the map
  closed,           \* history: groups whose cancel_session has returned
  calls             \* calls made so far

flags   == <<stopping, root>>
records == <<tasks, token, live, groupOf, nextId>>
groups  == <<nextGroup, current, members, cancelled>>
history == <<drained, closed>>
vars    == <<flags, records, groups, spawner, closer, history, calls>>

SpawnerAt(stage, s, g, t) == [stage |-> stage, session |-> s, group |-> g, task |-> t]
CloserAt(stage, op, g, ids, t) ==
  [stage |-> stage, op |-> op, group |-> g, ids |-> ids, task |-> t]
NoSession == "none"
Returned == SpawnerAt("idle", NoSession, None, None)
Done     == CloserAt("idle", "none", None, {}, None)

Init ==
  /\ stopping = FALSE /\ root = FALSE
  /\ tasks = {} /\ token = {} /\ live = {} /\ groupOf = [t \in Ids |-> None]
  /\ nextId = 1 /\ nextGroup = 1
  /\ current = [s \in Sessions |-> None] /\ members = [g \in Groups |-> {}]
  /\ cancelled = {}
  /\ spawner = [p \in Spawners |-> Returned] /\ closer = [c \in Closers |-> Done]
  /\ drained = FALSE /\ closed = {} /\ calls = 0

Call == calls < MaxCalls /\ calls' = calls + 1

-----------------------------------------------------------------------------
(* spawn_runtime, spawn_session and spawn_session_controlled               *)

\* spawn_scoped up to the count: refused while stopping, finished records reaped.
SpawnRuntime(p) ==
  /\ spawner[p] = Returned /\ ~stopping
  /\ tasks' = tasks \cap live
  /\ spawner' = [spawner EXCEPT ![p] = SpawnerAt("count", NoSession, None, None)]
  /\ Call /\ UNCHANGED <<flags, token, live, groupOf, nextId, groups, closer, history>>

SpawnSession(p, s) ==
  /\ spawner[p] = Returned /\ ~stopping
  /\ spawner' = [spawner EXCEPT ![p] = SpawnerAt("group", s, None, None)]
  /\ Call /\ UNCHANGED <<flags, records, groups, closer, history>>

\* Under the groups lock: the session's group, or a new one.
JoinGroup(p) ==
  LET s == spawner[p].session IN
  /\ spawner[p].stage = "group"
  /\ \/ /\ current[s] = None /\ nextGroup \in Groups
        /\ current' = [current EXCEPT ![s] = nextGroup]
        /\ nextGroup' = nextGroup + 1
        /\ spawner' = [spawner EXCEPT ![p] = SpawnerAt("reap", s, nextGroup, None)]
     \/ /\ current[s] # None /\ current[s] \notin cancelled
        /\ spawner' = [spawner EXCEPT ![p] = SpawnerAt("reap", s, current[s], None)]
        /\ UNCHANGED <<current, nextGroup>>
     \/ /\ current[s] \in cancelled
        /\ spawner' = [spawner EXCEPT ![p] = Returned]
        /\ UNCHANGED <<current, nextGroup>>
  /\ UNCHANGED <<flags, records, members, cancelled, closer, history, calls>>

Reap(p) ==
  /\ spawner[p].stage = "reap"
  /\ tasks' = IF stopping THEN tasks ELSE tasks \cap live
  /\ spawner' = IF stopping THEN [spawner EXCEPT ![p] = Returned]
                            ELSE [spawner EXCEPT ![p].stage = "count"]
  /\ UNCHANGED <<flags, token, live, groupOf, nextId, groups, closer, history, calls>>

\* Mutant: the limit is compared too late.
RoomLate == Cardinality(tasks) <= MaxSupervised
\* The records are counted; the task is started before it has one.
Room == Cardinality(tasks) < MaxSupervised
Admit(p) ==
  /\ spawner[p].stage = "count" /\ Room /\ nextId \in Ids
  /\ live' = live \cup {nextId}
  /\ groupOf' = [groupOf EXCEPT ![nextId] = spawner[p].group]
  /\ nextId' = nextId + 1
  /\ spawner' = [spawner EXCEPT ![p].stage = "insert", ![p].task = nextId]
  /\ UNCHANGED <<flags, tasks, token, groups, closer, history, calls>>
Refuse(p) ==
  /\ spawner[p].stage = "count" /\ ~Room
  /\ spawner' = [spawner EXCEPT ![p] = Returned]
  /\ UNCHANGED <<flags, records, groups, closer, history, calls>>

\* Mutants: the flag is not looked at again; the started task is just dropped.
InsertUnchecked(p) ==
  LET t == spawner[p].task IN
  /\ spawner[p].stage = "insert"
  /\ tasks' = tasks \cup {t}
  /\ spawner' = IF spawner[p].group = None THEN [spawner EXCEPT ![p] = Returned]
                                           ELSE [spawner EXCEPT ![p].stage = "push"]
  /\ UNCHANGED <<flags, token, live, groupOf, nextId, groups, closer, history, calls>>
InsertForgets(p) ==
  /\ spawner[p].stage = "insert" /\ spawner' = [spawner EXCEPT ![p] = Returned]
  /\ tasks' = IF stopping THEN tasks ELSE tasks \cup {spawner[p].task}
  /\ UNCHANGED <<flags, token, live, groupOf, nextId, groups, closer, history, calls>>
\* The record is inserted, unless the supervisor began to stop meanwhile: then the
\* task is cancelled and aborted on the spot.
Insert(p) ==
  LET t == spawner[p].task IN
  /\ spawner[p].stage = "insert"
  /\ IF stopping THEN token' = token \cup {t} /\ UNCHANGED tasks
                 ELSE tasks' = tasks \cup {t} /\ UNCHANGED token
  /\ spawner' = IF stopping \/ spawner[p].group = None
                THEN [spawner EXCEPT ![p] = Returned]
                ELSE [spawner EXCEPT ![p].stage = "push"]
  /\ UNCHANGED <<flags, live, groupOf, nextId, groups, closer, history, calls>>

\* Mutant: the group is not looked at again.
PushUnchecked(p) ==
  LET g == spawner[p].group IN
  /\ spawner[p].stage = "push"
  /\ members' = [members EXCEPT ![g] = @ \cup {spawner[p].task}]
  /\ spawner' = [spawner EXCEPT ![p] = Returned]
  /\ UNCHANGED <<flags, records, nextGroup, current, cancelled, closer, history, calls>>
\* The id joins the group; a group cancelled meanwhile revokes it.
Push(p) ==
  LET g == spawner[p].group IN
  /\ spawner[p].stage = "push"
  /\ members' = [members EXCEPT ![g] = @ \cup {spawner[p].task}]
  /\ spawner' = IF g \in cancelled THEN [spawner EXCEPT ![p].stage = "revoke"]
                                   ELSE [spawner EXCEPT ![p] = Returned]
  /\ UNCHANGED <<flags, records, nextGroup, current, cancelled, closer, history, calls>>

\* cancel_task_sync: take_task, cancel and abort.
CancelTaskSync(t) ==
  /\ tasks' = tasks \ {t}
  /\ token' = IF t \in tasks THEN token \cup {t} ELSE token
  /\ UNCHANGED <<live, groupOf, nextId>>
Revoke(p) ==
  /\ spawner[p].stage = "revoke"
  /\ CancelTaskSync(spawner[p].task)
  /\ spawner' = [spawner EXCEPT ![p] = Returned]
  /\ UNCHANGED <<flags, groups, closer, history, calls>>
\* The spawning call has returned the id.
Returns(t) ==
  /\ t < nextId
  /\ \A p \in Spawners : spawner[p].stage \in {"insert", "push", "revoke"} => spawner[p].task # t
\* A TaskLease, which only session tasks have, is dropped.
DropLease(t) ==
  /\ t \in tasks /\ groupOf[t] # None /\ Returns(t) /\ CancelTaskSync(t)
  /\ UNCHANGED <<flags, groups, spawner, closer, history, calls>>

-----------------------------------------------------------------------------
(* Tasks                                                                   *)

\* A token the task selects on is cancelled.
Signalled(t) == root \/ t \in token \/ groupOf[t] \in cancelled
\* The future completes, or is dropped because it was signalled.
Finish(t) ==
  /\ t \in live /\ live' = live \ {t}
  /\ UNCHANGED <<flags, tasks, token, groupOf, nextId, groups, spawner, closer, history, calls>>

-----------------------------------------------------------------------------
(* cancel_root, shutdown and abort_all_now                                 *)

Stop(c, op) ==
  /\ closer[c] = Done /\ stopping' = TRUE
  /\ closer' = [closer EXCEPT ![c] = CloserAt("root", op, None, {}, None)]
  /\ Call /\ UNCHANGED <<root, records, groups, spawner, history>>
\* Mutant: cancel_root only sets the flag.
CancelRootSkipped(c) ==
  /\ closer[c].stage = "root" /\ root' = (root \/ closer[c].op # "cancel_root")
  /\ closer' = [closer EXCEPT ![c].stage = "groups"]
  /\ UNCHANGED <<stopping, records, groups, spawner, history, calls>>
CancelRoot(c) ==
  /\ closer[c].stage = "root" /\ root' = TRUE
  /\ closer' = [closer EXCEPT ![c].stage = "groups"]
  /\ UNCHANGED <<stopping, records, groups, spawner, history, calls>>
CancelGroups(c) ==
  /\ closer[c].stage = "groups"
  /\ cancelled' = cancelled \cup {current[s] : s \in {x \in Sessions : current[x] # None}}
  /\ closer' = IF closer[c].op = "cancel_root" THEN [closer EXCEPT ![c] = Done]
                                               ELSE [closer EXCEPT ![c].stage = "drain"]
  /\ UNCHANGED <<flags, records, nextGroup, current, members, spawner, history, calls>>
\* shutdown joins the drained records one by one, abort_all_now aborts them all.
Drain(c) ==
  /\ closer[c].stage = "drain"
  /\ tasks' = {} /\ drained' = TRUE
  /\ IF closer[c].op = "abort_all_now"
     THEN token' = token \cup tasks /\ closer' = [closer EXCEPT ![c].stage = "clear"]
     ELSE closer' = [closer EXCEPT ![c].stage = "join", ![c].ids = tasks] /\ UNCHANGED token
  /\ UNCHANGED <<flags, live, groupOf, nextId, groups, spawner, closed, calls>>
Clear(c) ==
  /\ closer[c].stage = "clear"
  /\ current' = [s \in Sessions |-> None]
  /\ closer' = [closer EXCEPT ![c] = Done]
  /\ UNCHANGED <<flags, records, nextGroup, members, cancelled, spawner, history, calls>>

-----------------------------------------------------------------------------
(* cancel_session and cancel_task                                          *)

CancelSession(c, s) ==
  /\ closer[c] = Done /\ current[s] # None
  /\ current' = [current EXCEPT ![s] = None]
  /\ closer' = [closer EXCEPT ![c] = CloserAt("signal", "cancel_session", current[s], {}, None)]
  /\ Call /\ UNCHANGED <<flags, records, nextGroup, members, cancelled, spawner, history>>
SignalGroup(c) ==
  /\ closer[c].stage = "signal"
  /\ cancelled' = cancelled \cup {closer[c].group}
  /\ closer' = [closer EXCEPT ![c].stage = "list"]
  /\ UNCHANGED <<flags, records, nextGroup, current, members, spawner, history, calls>>
ListMembers(c) ==
  /\ closer[c].stage = "list"
  /\ closer' = [closer EXCEPT ![c].stage = "join", ![c].ids = members[closer[c].group]]
  /\ UNCHANGED <<flags, records, groups, spawner, history, calls>>
CancelTask(c, t) ==
  /\ closer[c] = Done /\ Returns(t)
  /\ closer' = [closer EXCEPT ![c] = CloserAt("join", "cancel_task", None, {t}, None)]
  /\ Call /\ UNCHANGED <<flags, records, groups, spawner, history>>

\* Mutant: the record is only looked up and its task awaited.
JoinNextWaits(c, t) ==
  /\ closer[c].stage = "join" /\ closer[c].task = None /\ t \in closer[c].ids
  /\ closer' = [closer EXCEPT ![c].ids = @ \ {t},
                  ![c].task = IF closer[c].op = "shutdown" \/ t \in tasks THEN t ELSE None]
  /\ UNCHANGED <<flags, records, groups, spawner, history, calls>>
\* One turn of the loops over records or ids: a drained record is ours already, an
\* id is joined only if its record can still be taken.
JoinNext(c, t) ==
  LET ours == closer[c].op = "shutdown" \/ t \in tasks IN
  /\ closer[c].stage = "join" /\ closer[c].task = None /\ t \in closer[c].ids
  /\ tasks' = tasks \ {t}
  /\ token' = IF ours THEN token \cup {t} ELSE token
  /\ closer' = [closer EXCEPT ![c].ids = @ \ {t}, ![c].task = IF ours THEN t ELSE None]
  /\ UNCHANGED <<flags, live, groupOf, nextId, groups, spawner, history, calls>>
Joined(c) ==
  /\ closer[c].stage = "join" /\ closer[c].task # None /\ closer[c].task \notin live
  /\ closer' = [closer EXCEPT ![c].task = None]
  /\ UNCHANGED <<flags, records, groups, spawner, history, calls>>
JoinedAll(c) ==
  /\ closer[c].stage = "join" /\ closer[c].ids = {} /\ closer[c].task = None
  /\ IF closer[c].op = "shutdown"
     THEN closer' = [closer EXCEPT ![c].stage = "clear"] /\ UNCHANGED closed
     ELSE /\ closer' = [closer EXCEPT ![c] = Done]
          /\ closed' = closed \cup ({closer[c].group} \ {None})
  /\ UNCHANGED <<flags, records, groups, spawner, drained, calls>>
\* The caller is itself a task and is dropped while it awaits a handle.
CallerDropped(c) ==
  /\ closer[c].stage = "join" /\ closer[c].task # None
  /\ closer' = [closer EXCEPT ![c] = Done]
  /\ UNCHANGED <<flags, records, groups, spawner, history, calls>>

SpawnStep(p) ==
  JoinGroup(p) \/ Reap(p) \/ Admit(p) \/ Refuse(p) \/ Insert(p) \/ Push(p) \/ Revoke(p)
CloseStep(c) ==
  \/ CancelRoot(c) \/ CancelGroups(c) \/ Drain(c) \/ Clear(c)
  \/ SignalGroup(c) \/ ListMembers(c)
  \/ (\E t \in closer[c].ids : JoinNext(c, t)) \/ Joined(c) \/ JoinedAll(c)
Next ==
  \/ \E p \in Spawners :
       SpawnRuntime(p) \/ (\E s \in Sessions : SpawnSession(p, s)) \/ SpawnStep(p)
  \/ \E c \in Closers :
       \/ \E op \in {"cancel_root", "shutdown", "abort_all_now"} : Stop(c, op)
       \/ \E s \in Sessions : CancelSession(c, s)
       \/ \E t \in Ids : CancelTask(c, t)
       \/ CloseStep(c) \/ CallerDropped(c)
  \/ \E t \in Ids : Finish(t) \/ DropLease(t)

Spec == Init /\ [][Next]_vars

\* Callers are scheduled, and a signalled task reaches its next await.
Fairness ==
  /\ \A p \in Spawners : WF_vars(SpawnStep(p))
  /\ \A c \in Closers : WF_vars(CloseStep(c))
  /\ \A t \in Ids : WF_vars(Signalled(t) /\ Finish(t))
FairSpec == Spec /\ Fairness

-----------------------------------------------------------------------------
(* Properties                                                              *)

SpawnerStates ==
  [stage : {"idle", "group", "reap", "count", "insert", "push", "revoke"},
   session : Sessions \cup {NoSession}, group : Groups \cup {None}, task : Ids \cup {None}]
CloserStates ==
  [stage : {"idle", "root", "groups", "drain", "clear", "signal", "list", "join"},
   op : {"none", "cancel_root", "shutdown", "abort_all_now", "cancel_session", "cancel_task"},
   group : Groups \cup {None}, ids : SUBSET Ids, task : Ids \cup {None}]

\* The maps, tokens and callers of the supervisor keep their types.
TypeOK ==
  /\ stopping \in BOOLEAN /\ root \in BOOLEAN /\ drained \in BOOLEAN
  /\ tasks \subseteq Ids /\ token \subseteq Ids /\ live \subseteq Ids
  /\ groupOf \in [Ids -> Groups \cup {None}]
  /\ nextId \in 1 .. MaxTasks + 1 /\ nextGroup \in 1 .. MaxGroups + 1
  /\ current \in [Sessions -> Groups \cup {None}]
  /\ members \in [Groups -> SUBSET Ids]
  /\ cancelled \subseteq Groups /\ closed \subseteq Groups
  /\ calls \in 0 .. MaxCalls
  /\ spawner \in [Spawners -> SpawnerStates]
  /\ closer \in [Closers -> CloserStates]

\* No task is leaked: a future that still runs has a record, is about to get one,
\* or has been told to end, whichever spawn, cancel and shutdown calls race.
LiveIsReachable ==
  \A t \in live :
    \/ t \in tasks
    \/ \E p \in Spawners : spawner[p].stage = "insert" /\ spawner[p].task = t
    \/ Signalled(t)

\* Nothing is registered behind the back of a shutdown: once the map was drained
\* it stays empty.
DrainedIsFinal == drained => tasks = {}

\* When cancel_session has returned, a child of that group that still has a record
\* and runs was started concurrently and is about to be revoked by its spawner.
ClosedSessionIsEmpty ==
  \A t \in tasks \cap live : groupOf[t] \in closed =>
    \E p \in Spawners : spawner[p].stage \in {"push", "revoke"} /\ spawner[p].task = t

\* The number of records exceeds the limit by at most one per concurrent caller
\* (the check and the insertion are separate lock sections).
CapacityBounded == Cardinality(tasks) < MaxSupervised + Cardinality(Spawners)

\* A shutdown, cancel_root or abort_all_now is followed by the end of every task.
StopEndsAll == stopping ~> live = {}

\* Every cancelling call returns: no cycle of callers waiting for each other's tasks.
CloseReturns == \A c \in Closers : closer[c] # Done ~> closer[c] = Done

\* The supervisor's state is well typed and its records stay within the limit and the
\* overshoot that concurrent spawns allow.
TasksConsistent == TypeOK /\ CapacityBounded

\* A stop ends every task, and no cancelling call waits for ever.
StopsEnd == StopEndsAll /\ CloseReturns
=============================================================================
