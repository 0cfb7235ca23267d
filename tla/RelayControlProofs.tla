------------------------- MODULE RelayControlProofs -------------------------
(***************************************************************************)
(* Safety proofs of RelayControl, for any number of                        *)
(* commands, clients, reconnect loops and publications that overlap.       *)
(***************************************************************************)
EXTENDS RelayControl, TLAPS

-----------------------------------------------------------------------------
(* The inductive invariant                                                 *)

RlAnyClient == RlClients \cup {RlNone}
RlCmds == [pc : {"new", "stop", "cancel", "clear", "drop", "set", "dial", "install", "bump",
                 "refresh", "publish", "done"},
           op : {RlNone, "configure", "disconnect", "environment"}, client : RlAnyClient]
RlLoopStates == [pc : {"none", "sleep", "dial", "install", "resume", "ending", "ended"},
                 client : RlAnyClient]
RlPubStates == [pc : {"none", "start", "send", "acked", "failed"}, client : RlAnyClient,
                rev : Nat, bundle : Nat, tries : Nat]

DomainOK ==
    /\ rlConfig \in BOOLEAN /\ rlStale \in BOOLEAN /\ rlActive \in BOOLEAN
    /\ rlTask \in RlLoops \cup {RlNone} /\ rlStoring \subseteq RlLoops

\* A command or a loop holds a client exactly while it installs it.
CmdsOK ==
    /\ rlCmd \in [RlCommands -> RlCmds]
    /\ \A c \in RlCommands : rlCmd[c].client # RlNone <=> rlCmd[c].pc = "install"
LoopsOK ==
    /\ rlLoop \in [RlLoops -> RlLoopStates]
    /\ \A k \in RlLoops : rlLoop[k].client # RlNone <=> rlLoop[k].pc = "install"

CmdHolds(n) == \E c \in RlCommands : rlCmd[c].client = n
LoopHolds(n) == \E k \in RlLoops : rlLoop[k].client = n

\* A client on its way into the slot is new to everybody else, and one command or
\* one loop has it.
Fresh(n) ==
    /\ rlClient[n] # "none" /\ rlConsumer[n] = "none" /\ rlPub[n] = NoPub /\ rlSlot # n
    /\ \A c, d \in RlCommands : rlCmd[c].client = n /\ rlCmd[d].client = n => c = d
    /\ \A k, l \in RlLoops : rlLoop[k].client = n /\ rlLoop[l].client = n => k = l
    /\ ~(CmdHolds(n) /\ LoopHolds(n))

ClientsOK ==
    /\ rlSlot \in RlAnyClient
    /\ rlClient \in [RlClients -> {"none", "up", "lost"}]
    /\ rlConsumer \in [RlClients -> {"none", "run", "schedule"}]
    /\ \A n \in RlClients : rlConsumer[n] # "none" => rlClient[n] # "none"
    /\ \A n \in RlClients : CmdHolds(n) \/ LoopHolds(n) => Fresh(n)
    /\ SlotHasConsumer

\* Revisions only grow, and a snapshot is never newer than its revision.  A command
\* publishes in its last step only.
RevisionsOK ==
    /\ rlRev \in Nat /\ rlBundle \in Nat /\ rlBundle <= rlRev
    /\ rlServer \in [owner : RlAnyClient, rev : Nat, bundle : Nat]
    /\ rlServer.rev <= rlRev /\ rlServer.bundle <= rlServer.rev
PubOK(p) == rlPub[p].rev <= rlRev /\ rlPub[p].bundle <= rlPub[p].rev /\ rlPub[p].tries < RlAttempts
PubsOK ==
    /\ rlPub \in [RlPubs -> RlPubStates]
    /\ \A p \in RlPubs : PubOK(p)
    /\ \A c \in RlCommands : rlCmd[c].pc = "publish" \/ rlPub[c] = NoPub
    /\ rlState \in {"idle", "publishing", "published", "degraded"}
    /\ PublishingHasPublisher

RlInv == DomainOK /\ CmdsOK /\ LoopsOK /\ ClientsOK /\ RevisionsOK /\ PubsOK

-----------------------------------------------------------------------------
(* Steps that move no client and no publication                            *)

SameHolders ==
    /\ \A c \in RlCommands : rlCmd'[c].client = rlCmd[c].client
    /\ \A k \in RlLoops : rlLoop'[k].client = rlLoop[k].client

LEMMA ClientsFrame ==
  ASSUME ClientsOK, SameHolders, UNCHANGED <<rlSlot, rlClient, rlConsumer>>,
         \A n \in RlClients : CmdHolds(n) \/ LoopHolds(n) => rlPub'[n] = rlPub[n]
  PROVE  ClientsOK'
<1>1. ASSUME NEW n \in RlClients
      PROVE  (CmdHolds(n)' <=> CmdHolds(n)) /\ (LoopHolds(n)' <=> LoopHolds(n))
  BY DEF SameHolders, CmdHolds, LoopHolds
<1>2. ASSUME NEW n \in RlClients, CmdHolds(n)' \/ LoopHolds(n)' PROVE Fresh(n)'
  <2>1. Fresh(n) /\ rlPub'[n] = rlPub[n]
    BY <1>1, <1>2 DEF ClientsOK
  <2>2. ~(CmdHolds(n)' /\ LoopHolds(n)')
    BY <1>1, <2>1 DEF Fresh
  <2>3. rlClient'[n] # "none" /\ rlConsumer'[n] = "none" /\ rlPub'[n] = NoPub /\ rlSlot' # n
    BY <2>1 DEF Fresh
  <2>4. \A c, d \in RlCommands : rlCmd'[c].client = n /\ rlCmd'[d].client = n => c = d
    BY <2>1 DEF Fresh, SameHolders
  <2>5. \A k, l \in RlLoops : rlLoop'[k].client = n /\ rlLoop'[l].client = n => k = l
    BY <2>1 DEF Fresh, SameHolders
  <2> QED
    BY <2>2, <2>3, <2>4, <2>5 DEF Fresh
<1>3. SlotHasConsumer'
  BY DEF ClientsOK, SlotHasConsumer
<1>4. /\ rlSlot' \in RlAnyClient /\ rlClient' \in [RlClients -> {"none", "up", "lost"}]
      /\ rlConsumer' \in [RlClients -> {"none", "run", "schedule"}]
      /\ \A n \in RlClients : rlConsumer'[n] # "none" => rlClient'[n] # "none"
  BY DEF ClientsOK
<1> QED
  BY <1>2, <1>3, <1>4 DEF ClientsOK

LEMMA PubsFrame ==
  ASSUME PubsOK, UNCHANGED <<rlPub, rlState, rlRev>>,
         \A c \in RlCommands : rlCmd'[c].pc = "publish" \/ rlPub[c] = NoPub
  PROVE  PubsOK'
BY DEF PubsOK, PubOK, PublishingHasPublisher

LEMMA RevisionsFrame ==
  ASSUME RevisionsOK, UNCHANGED <<rlRev, rlBundle, rlServer>>
  PROVE  RevisionsOK'
BY DEF RevisionsOK

\* A step of a command that holds no client and does not publish.
LEMMA CmdMoves ==
  ASSUME CmdsOK, PubsOK, NEW c \in RlCommands, NEW r \in RlCmds,
         rlCmd' = [rlCmd EXCEPT ![c] = r], rlCmd[c].pc # "install", r.pc # "install",
         r.client = rlCmd[c].client, rlCmd[c].pc # "publish" \/ rlPub[c] = NoPub
  PROVE  /\ CmdsOK' /\ (\A d \in RlCommands : rlCmd'[d].client = rlCmd[d].client)
         /\ \A d \in RlCommands : rlCmd'[d].pc = "publish" \/ rlPub[d] = NoPub
<1>1. rlCmd' \in [RlCommands -> RlCmds] /\ rlCmd'[c] = r /\ (\A d \in RlCommands : d # c => rlCmd'[d] = rlCmd[d])
  BY DEF CmdsOK
<1>2. \A d \in RlCommands : rlCmd'[d].client = rlCmd[d].client
  BY <1>1
<1>3. \A d \in RlCommands : rlCmd'[d].client # RlNone <=> rlCmd'[d].pc = "install"
  BY <1>1 DEF CmdsOK
<1>4. \A d \in RlCommands : rlCmd'[d].pc = "publish" \/ rlPub[d] = NoPub
  BY <1>1 DEF PubsOK
<1> QED
  BY <1>1, <1>2, <1>3, <1>4 DEF CmdsOK

\* The next stage of a command, with everything else of it as it was.
LEMMA CmdStage ==
  ASSUME CmdsOK, NEW c \in RlCommands,
         NEW pc \in {"stop", "cancel", "clear", "drop", "set", "dial", "refresh", "publish", "done"},
         rlCmd' = [rlCmd EXCEPT ![c].pc = pc]
  PROVE  \E r \in RlCmds : rlCmd' = [rlCmd EXCEPT ![c] = r] /\ r.pc = pc /\ r.client = rlCmd[c].client
<1> DEFINE r == [rlCmd[c] EXCEPT !.pc = pc]
<1>1. rlCmd[c] \in RlCmds
  BY DEF CmdsOK
<1>2. r \in RlCmds /\ r.pc = pc /\ r.client = rlCmd[c].client
  BY <1>1 DEF RlCmds
<1>3. rlCmd' = [rlCmd EXCEPT ![c] = r]
  BY DEF CmdsOK
<1> HIDE DEF r
<1> QED
  BY <1>2, <1>3

\* A step of a command that moves nothing but itself and the configuration.
LEMMA CmdQuiet ==
  ASSUME RlInv, NEW c \in RlCommands,
         NEW pc \in {"stop", "cancel", "clear", "drop", "set", "dial", "refresh", "publish", "done"},
         rlCmd' = [rlCmd EXCEPT ![c].pc = pc], rlCmd[c].pc # "install",
         rlCmd[c].pc # "publish" \/ rlPub[c] = NoPub,
         DomainOK', UNCHANGED <<rlLoop, rlSlot, rlClient, rlConsumer, rlDiscovery, rlServer>>
  PROVE  RlInv'
<1>0. DomainOK /\ CmdsOK /\ LoopsOK /\ ClientsOK /\ RevisionsOK /\ PubsOK
  BY DEF RlInv
<1>1. PICK r \in RlCmds : rlCmd' = [rlCmd EXCEPT ![c] = r] /\ r.pc = pc /\ r.client = rlCmd[c].client
  BY <1>0, CmdStage
<1>2. /\ CmdsOK' /\ (\A d \in RlCommands : rlCmd'[d].client = rlCmd[d].client)
      /\ \A d \in RlCommands : rlCmd'[d].pc = "publish" \/ rlPub[d] = NoPub
  BY <1>0, <1>1, CmdMoves
<1>3. SameHolders
  BY <1>2 DEF SameHolders
<1>4. UNCHANGED <<rlRev, rlBundle, rlState, rlPub>>
  BY DEF rlDiscovery
<1>5. ClientsOK' /\ RevisionsOK' /\ PubsOK'
  BY <1>0, <1>2, <1>3, <1>4, ClientsFrame, RevisionsFrame, PubsFrame
<1>6. LoopsOK'
  BY <1>0 DEF LoopsOK
<1> QED
  BY <1>2, <1>5, <1>6 DEF RlInv

LEMMA StopFlagKeeps ==
  ASSUME RlInv, NEW c \in RlCommands, StopFlag(c)
  PROVE  RlInv'
<1>1. DomainOK'
  BY DEF StopFlag, RlInv, DomainOK, rlControl
<1> QED
  BY <1>1, CmdQuiet DEF StopFlag, rlControl

LEMMA ClearConfigKeeps ==
  ASSUME RlInv, NEW c \in RlCommands, ClearConfig(c)
  PROVE  RlInv'
<1>1. DomainOK'
  BY DEF ClearConfig, RlInv, DomainOK, rlReconnect
<1>2. rlLoop' = rlLoop
  BY DEF ClearConfig, rlReconnect
<1> QED
  BY <1>1, <1>2, CmdQuiet DEF ClearConfig

LEMMA SetConfigKeeps ==
  ASSUME RlInv, NEW c \in RlCommands, SetConfig(c)
  PROVE  RlInv'
<1>1. DomainOK'
  BY DEF SetConfig, RlInv, DomainOK, rlReconnect
<1>2. rlLoop' = rlLoop
  BY DEF SetConfig, rlReconnect
<1> QED
  BY <1>1, <1>2, CmdQuiet DEF SetConfig

LEMMA EnvironmentDoneKeeps ==
  ASSUME RlInv, NEW c \in RlCommands, EnvironmentDone(c)
  PROVE  RlInv'
<1>1. DomainOK'
  BY DEF EnvironmentDone, RlInv, DomainOK, rlControl, rlReconnect
<1> QED
  BY <1>1, CmdQuiet DEF EnvironmentDone, rlControl, rlReconnect

LEMMA CommandStartKeeps ==
  ASSUME RlInv, NEW c \in RlCommands, NEW op \in RlOps, CommandStart(c, op)
  PROVE  RlInv'
<1> DEFINE pc == IF op = "environment" THEN "bump" ELSE "stop"
           r == [pc |-> pc, op |-> op, client |-> rlCmd[c].client]
<1>0. DomainOK /\ CmdsOK /\ LoopsOK /\ ClientsOK /\ RevisionsOK /\ PubsOK
  BY DEF RlInv
<1>1. /\ rlCmd[c].pc = "new" /\ rlCmd' = [rlCmd EXCEPT ![c].op = op, ![c].pc = pc]
      /\ UNCHANGED <<rlControl, rlReconnect, rlDiscovery, rlServer>>
  BY DEF CommandStart
<1>2. rlCmd[c] \in RlCmds
  BY <1>0 DEF CmdsOK
<1>3. r \in RlCmds
  BY <1>2, RelayControlAssumption DEF RlCmds
<1>4. rlCmd' = [rlCmd EXCEPT ![c] = r]
  <2> HIDE DEF r, pc
  <2> DEFINE named == [rlCmd EXCEPT ![c].op = op]
  <2>1. rlCmd' = [named EXCEPT ![c].pc = pc]
    BY <1>1
  <2>2. /\ DOMAIN named = RlCommands /\ named[c] = [rlCmd[c] EXCEPT !.op = op]
        /\ \A d \in RlCommands : d # c => named[d] = rlCmd[d]
    BY <1>0 DEF CmdsOK
  <2>3. named[c] = [pc |-> rlCmd[c].pc, op |-> op, client |-> rlCmd[c].client]
    BY <1>2, <2>2 DEF RlCmds
  <2>4. named = [d \in RlCommands |-> named[d]]
    BY <1>0 DEF CmdsOK
  <2> HIDE DEF named
  <2>5. rlCmd' = [d \in RlCommands |-> IF d = c THEN [named[c] EXCEPT !.pc = pc] ELSE named[d]]
    BY <2>1, <2>4
  <2>6. [named[c] EXCEPT !.pc = pc] = r
    BY <2>3 DEF r
  <2> QED
    BY <1>0, <2>2, <2>5, <2>6 DEF CmdsOK
<1>5. r.pc # "install" /\ r.client = rlCmd[c].client
  OBVIOUS
<1> HIDE DEF r, pc
<1>6. /\ CmdsOK' /\ (\A d \in RlCommands : rlCmd'[d].client = rlCmd[d].client)
      /\ \A d \in RlCommands : rlCmd'[d].pc = "publish" \/ rlPub[d] = NoPub
  BY <1>0, <1>1, <1>3, <1>4, <1>5, CmdMoves
<1>7. SameHolders
  BY <1>1, <1>6 DEF SameHolders, rlReconnect
<1>8. ClientsOK' /\ RevisionsOK' /\ PubsOK'
  BY <1>0, <1>1, <1>6, <1>7, ClientsFrame, RevisionsFrame, PubsFrame DEF rlControl, rlDiscovery
<1>9. LoopsOK' /\ DomainOK'
  BY <1>0, <1>1 DEF LoopsOK, DomainOK, rlControl, rlReconnect
<1> QED
  BY <1>6, <1>8, <1>9 DEF RlInv

-----------------------------------------------------------------------------
(* Reconnect loops                                                         *)

\* The loops as they were, apart from stages without a client.
Alike(loops) ==
    /\ loops \in [RlLoops -> RlLoopStates]
    /\ \A k \in RlLoops : /\ loops[k].client = rlLoop[k].client
                          /\ loops[k].pc = "install" <=> rlLoop[k].pc = "install"

LEMMA AlikeStage ==
  ASSUME LoopsOK, NEW loops, Alike(loops), NEW k \in RlLoops, rlLoop[k].pc # "install",
         NEW pc \in {"none", "sleep", "dial", "resume", "ending", "ended"},
         NEW after, after = [loops EXCEPT ![k].pc = pc]
  PROVE  Alike(after)
<1>1. loops \in [RlLoops -> RlLoopStates] /\ loops[k] \in RlLoopStates
  BY DEF Alike
<1>2. after[k] = [loops[k] EXCEPT !.pc = pc] /\ \A l \in RlLoops : l # k => after[l] = loops[l]
  BY <1>1
<1>3. after[k] \in RlLoopStates /\ after[k].client = loops[k].client /\ after[k].pc = pc
  BY <1>1, <1>2 DEF RlLoopStates
<1>4. after \in [RlLoops -> RlLoopStates]
  BY <1>1, <1>3
<1> QED
  BY <1>2, <1>3, <1>4 DEF Alike

LEMMA AlikeSame ==
  ASSUME LoopsOK PROVE Alike(rlLoop)
BY DEF LoopsOK, Alike

LEMMA AlikeOK ==
  ASSUME LoopsOK, Alike(rlLoop')
  PROVE  LoopsOK' /\ \A k \in RlLoops : rlLoop'[k].client = rlLoop[k].client
BY DEF LoopsOK, Alike

LEMMA Schedules ==
  ASSUME LoopsOK, DomainOK, NEW loops, Alike(loops), ScheduleReconnect(loops)
  PROVE  Alike(rlLoop') /\ rlActive' \in BOOLEAN /\ rlStoring' \subseteq RlLoops
<1>1. CASE rlActive \/ rlStale
  BY <1>1 DEF ScheduleReconnect, DomainOK
<1>2. CASE ~(rlActive \/ rlStale)
  <2> DEFINE k == CHOOSE k \in FreeLoops : TRUE
  <2>1. /\ FreeLoops # {} /\ rlLoop' = [loops EXCEPT ![k].pc = "sleep"]
        /\ rlStoring' = rlStoring \cup {k} /\ rlActive' = TRUE
    BY <1>2 DEF ScheduleReconnect
  <2>2. k \in FreeLoops
    BY <2>1
  <2> HIDE DEF k
  <2>3. k \in RlLoops /\ rlLoop[k].pc # "install"
    BY <2>2 DEF FreeLoops, Resting
  <2>4. Alike(rlLoop')
    BY <2>1, <2>3, AlikeStage
  <2> QED
    BY <2>1, <2>3, <2>4 DEF DomainOK
<1> QED
  BY <1>1, <1>2

\* A step of a loop that moves nothing but loops and the reconnect state.
LEMMA LoopQuiet ==
  ASSUME RlInv, Alike(rlLoop'), DomainOK',
         UNCHANGED <<rlSlot, rlClient, rlConsumer, rlCmd, rlDiscovery, rlServer>>
  PROVE  RlInv'
<1>0. DomainOK /\ CmdsOK /\ LoopsOK /\ ClientsOK /\ RevisionsOK /\ PubsOK
  BY DEF RlInv
<1>1. LoopsOK' /\ SameHolders
  BY <1>0, AlikeOK DEF SameHolders
<1>2. UNCHANGED <<rlRev, rlBundle, rlState, rlPub>>
  BY DEF rlDiscovery
<1>3. \A c \in RlCommands : rlCmd'[c].pc = "publish" \/ rlPub[c] = NoPub
  BY <1>0 DEF PubsOK
<1>4. ClientsOK' /\ RevisionsOK' /\ PubsOK'
  BY <1>0, <1>1, <1>2, <1>3, ClientsFrame, RevisionsFrame, PubsFrame
<1>5. CmdsOK'
  BY <1>0 DEF CmdsOK
<1> QED
  BY <1>1, <1>4, <1>5 DEF RlInv

LEMMA LoopStepsKeep ==
  ASSUME RlInv, NEW k \in RlLoops,
         StoreTask(k) \/ LoopWakes(k) \/ LoopResumed(k) \/ LoopEnds(k) \/ LoopForgets(k)
  PROVE  RlInv'
<1>0. DomainOK /\ LoopsOK /\ Alike(rlLoop)
  BY AlikeSame DEF RlInv
<1>1. CASE StoreTask(k)
  <2>1. DomainOK' /\ rlLoop' = rlLoop
    BY <1>0, <1>1 DEF StoreTask, DomainOK, rlControl
  <2> QED
    BY <1>0, <1>1, <2>1, LoopQuiet DEF StoreTask, rlControl
<1>2. CASE LoopWakes(k)
  <2> DEFINE pc == IF rlStale \/ ~rlConfig \/ rlSlot # RlNone THEN "ending" ELSE "dial"
  <2>1. rlLoop[k].pc = "sleep" /\ rlLoop' = [rlLoop EXCEPT ![k].pc = pc] /\ pc \in {"ending", "dial"}
    BY <1>2 DEF LoopWakes, LoopTo
  <2> HIDE DEF pc
  <2>2. Alike(rlLoop')
    BY <1>0, <2>1, AlikeStage
  <2>3. DomainOK'
    BY <1>0, <1>2 DEF LoopWakes, DomainOK, rlControl
  <2> QED
    BY <1>2, <2>2, <2>3, LoopQuiet DEF LoopWakes, rlControl
<1>3. CASE LoopResumed(k)
  <2>1. rlLoop[k].pc = "resume" /\ rlLoop' = [rlLoop EXCEPT ![k].pc = "ending"]
    BY <1>3 DEF LoopResumed, LoopTo
  <2>2. Alike(rlLoop')
    BY <1>0, <2>1, AlikeStage
  <2>3. DomainOK'
    BY <1>0, <1>3 DEF LoopResumed, DomainOK, rlControl
  <2> QED
    BY <1>3, <2>2, <2>3, LoopQuiet DEF LoopResumed, rlControl
<1>4. CASE LoopEnds(k)
  <2>1. rlLoop[k].pc = "ending" /\ rlLoop' = [rlLoop EXCEPT ![k].pc = "ended"]
    BY <1>4 DEF LoopEnds, LoopTo
  <2>2. Alike(rlLoop')
    BY <1>0, <2>1, AlikeStage
  <2>3. DomainOK'
    BY <1>0, <1>4 DEF LoopEnds, DomainOK, rlControl
  <2> QED
    BY <1>4, <2>2, <2>3, LoopQuiet DEF LoopEnds, rlControl
<1>5. CASE LoopForgets(k)
  <2>1. rlLoop[k].pc = "ended" /\ rlLoop' = [rlLoop EXCEPT ![k].pc = "none"]
    BY <1>5 DEF LoopForgets, LoopTo
  <2>2. Alike(rlLoop')
    BY <1>0, <2>1, AlikeStage
  <2>3. DomainOK'
    BY <1>0, <1>5 DEF LoopForgets, DomainOK, rlControl
  <2> QED
    BY <1>5, <2>2, <2>3, LoopQuiet DEF LoopForgets, rlControl
<1> QED
  BY <1>1, <1>2, <1>3, <1>4, <1>5

LEMMA LoopFailsKeeps ==
  ASSUME RlInv, NEW k \in RlLoops, LoopFails(k)
  PROVE  RlInv'
<1>0. DomainOK /\ LoopsOK /\ Alike(rlLoop) /\ rlLoop[k].pc = "dial"
  BY AlikeSame DEF RlInv, LoopFails
<1>1. UNCHANGED <<rlTask, rlConfig, rlSlot, rlClient, rlConsumer, rlCmd, rlDiscovery, rlServer>>
  BY DEF LoopFails
<1>2. CASE rlStale' = TRUE /\ LoopTo(k, "ending") /\ UNCHANGED <<rlActive, rlStoring>>
  <2>1. Alike(rlLoop')
    BY <1>0, <1>2, AlikeStage DEF LoopTo
  <2>2. DomainOK'
    BY <1>0, <1>1, <1>2 DEF DomainOK
  <2> QED
    BY <1>1, <2>1, <2>2, LoopQuiet
<1>3. CASE ScheduleReconnect(AfterFailure(k)) /\ UNCHANGED rlStale
  <2> DEFINE loops == AfterFailure(k)
  <2>1. loops = [rlLoop EXCEPT ![k].pc = "sleep"] /\ ScheduleReconnect(loops)
    BY <1>3 DEF AfterFailure
  <2> HIDE DEF loops
  <2>2. Alike(loops)
    BY <1>0, <2>1, AlikeStage
  <2>3. Alike(rlLoop') /\ rlActive' \in BOOLEAN /\ rlStoring' \subseteq RlLoops
    BY <1>0, <2>1, <2>2, Schedules
  <2>4. DomainOK'
    BY <1>0, <1>1, <1>3, <2>3 DEF DomainOK
  <2> QED
    BY <1>1, <2>3, <2>4, LoopQuiet
<1> QED
  BY <1>2, <1>3 DEF LoopFails

LEMMA ConfigureFailsKeeps ==
  ASSUME RlInv, NEW c \in RlCommands, ConfigureFails(c)
  PROVE  RlInv'
<1>0. DomainOK /\ CmdsOK /\ LoopsOK /\ ClientsOK /\ RevisionsOK /\ PubsOK /\ Alike(rlLoop)
  BY AlikeSame DEF RlInv
<1>1. /\ rlCmd[c].pc = "dial" /\ rlCmd' = [rlCmd EXCEPT ![c].pc = "done"]
      /\ UNCHANGED <<rlConfig, rlSlot, rlClient, rlConsumer, rlDiscovery, rlServer>>
  BY DEF ConfigureFails
<1>2. Alike(rlLoop') /\ DomainOK'
  <2>1. CASE UNCHANGED <<rlStale, rlReconnect>>
    BY <1>0, <1>1, <2>1 DEF DomainOK, rlReconnect
  <2>2. CASE rlStale' = TRUE /\ UNCHANGED rlReconnect
    BY <1>0, <1>1, <2>2 DEF DomainOK, rlReconnect
  <2>3. CASE ScheduleReconnect(rlLoop) /\ UNCHANGED <<rlStale, rlTask>>
    <3>1. Alike(rlLoop') /\ rlActive' \in BOOLEAN /\ rlStoring' \subseteq RlLoops
      BY <1>0, <2>3, Schedules
    <3> QED
      BY <1>0, <1>1, <2>3, <3>1 DEF DomainOK
  <2> QED
    BY <2>1, <2>2, <2>3 DEF ConfigureFails
<1>3. PICK r \in RlCmds : rlCmd' = [rlCmd EXCEPT ![c] = r] /\ r.pc = "done" /\ r.client = rlCmd[c].client
  BY <1>0, <1>1, CmdStage
<1>4. /\ CmdsOK' /\ (\A d \in RlCommands : rlCmd'[d].client = rlCmd[d].client)
      /\ \A d \in RlCommands : rlCmd'[d].pc = "publish" \/ rlPub[d] = NoPub
  BY <1>0, <1>1, <1>3, CmdMoves
<1>5. LoopsOK' /\ SameHolders
  BY <1>0, <1>2, <1>4, AlikeOK DEF SameHolders
<1>6. UNCHANGED <<rlRev, rlBundle, rlState, rlPub>>
  BY <1>1 DEF rlDiscovery
<1>7. ClientsOK' /\ RevisionsOK' /\ PubsOK'
  BY <1>0, <1>1, <1>4, <1>5, <1>6, ClientsFrame, RevisionsFrame, PubsFrame
<1> QED
  BY <1>2, <1>4, <1>5, <1>7 DEF RlInv

-----------------------------------------------------------------------------
(* Clients change hands                                                    *)

\* Commands and loops may let go of clients: what is left to show of a client that
\* is still held is about the client, not about its holder.
HoldersShrink ==
    /\ \A c \in RlCommands : rlCmd'[c].client \in {rlCmd[c].client, RlNone}
    /\ \A k \in RlLoops : rlLoop'[k].client \in {rlLoop[k].client, RlNone}
New(n) ==
    rlClient[n] # "none" /\ rlConsumer[n] = "none" /\ rlPub[n] = NoPub /\ rlSlot # n

LEMMA NoneIsNoClient ==
  ASSUME NEW n \in RlClients PROVE n # RlNone
BY RelayControlAssumption DEF RlNone

LEMMA FreshAfter ==
  ASSUME ClientsOK, HoldersShrink, NEW n \in RlClients, CmdHolds(n)' \/ LoopHolds(n)', New(n)'
  PROVE  Fresh(n)'
<1>1. \A c \in RlCommands : rlCmd'[c].client = n => rlCmd[c].client = n
  BY NoneIsNoClient DEF HoldersShrink
<1>2. \A k \in RlLoops : rlLoop'[k].client = n => rlLoop[k].client = n
  BY NoneIsNoClient DEF HoldersShrink
<1>3. (CmdHolds(n)' => CmdHolds(n)) /\ (LoopHolds(n)' => LoopHolds(n))
  BY <1>1, <1>2 DEF CmdHolds, LoopHolds
<1>4. Fresh(n)
  BY <1>3 DEF ClientsOK
<1>5. ~(CmdHolds(n)' /\ LoopHolds(n)')
  BY <1>3, <1>4 DEF Fresh
<1>6. \A c, d \in RlCommands : rlCmd'[c].client = n /\ rlCmd'[d].client = n => c = d
  BY <1>1, <1>4 DEF Fresh
<1>7. \A k, l \in RlLoops : rlLoop'[k].client = n /\ rlLoop'[l].client = n => k = l
  BY <1>2, <1>4 DEF Fresh
<1> QED
  BY <1>5, <1>6, <1>7 DEF Fresh, New

LEMMA StillHeld ==
  ASSUME ClientsOK, HoldersShrink, NEW n \in RlClients, CmdHolds(n)' \/ LoopHolds(n)'
  PROVE  (CmdHolds(n)' => CmdHolds(n)) /\ (LoopHolds(n)' => LoopHolds(n)) /\ Fresh(n)
<1>1. (CmdHolds(n)' => CmdHolds(n)) /\ (LoopHolds(n)' => LoopHolds(n))
  BY NoneIsNoClient DEF HoldersShrink, CmdHolds, LoopHolds
<1> QED
  BY <1>1 DEF ClientsOK

LEMMA StopTakenKeeps ==
  ASSUME RlInv, NEW c \in RlCommands, StopTaken(c)
  PROVE  RlInv'
<1>0. DomainOK /\ CmdsOK /\ LoopsOK /\ ClientsOK /\ RevisionsOK /\ PubsOK
  BY DEF RlInv
<1>1. /\ rlCmd[c].pc = "cancel" /\ rlCmd' = [rlCmd EXCEPT ![c].pc = "clear"] /\ rlTask' = RlNone
      /\ rlLoop' = [k \in RlLoops |-> IF k = rlTask /\ Aborted(k) THEN Resting ELSE rlLoop[k]]
      /\ rlClient' = [n \in RlClients |->
           IF \E k \in RlLoops : k = rlTask /\ rlLoop[k] = [pc |-> "install", client |-> n]
           THEN "none" ELSE rlClient[n]]
      /\ UNCHANGED <<rlConfig, rlStale, rlSlot, rlConsumer, rlActive, rlStoring, rlDiscovery, rlServer>>
  BY DEF StopTaken
<1>2. UNCHANGED <<rlRev, rlBundle, rlState, rlPub>>
  BY <1>1 DEF rlDiscovery
<1>3. PICK r \in RlCmds : rlCmd' = [rlCmd EXCEPT ![c] = r] /\ r.pc = "clear" /\ r.client = rlCmd[c].client
  BY <1>0, <1>1, CmdStage
<1>4. /\ CmdsOK' /\ (\A d \in RlCommands : rlCmd'[d].client = rlCmd[d].client)
      /\ \A d \in RlCommands : rlCmd'[d].pc = "publish" \/ rlPub[d] = NoPub
  BY <1>0, <1>1, <1>3, CmdMoves
<1>5. \A k \in RlLoops : rlLoop'[k] = rlLoop[k] \/ rlLoop'[k] = Resting
  BY <1>1
<1>6. Resting \in RlLoopStates /\ Resting.client = RlNone /\ Resting.pc = "none"
  BY DEF Resting, RlLoopStates, RlAnyClient
<1>7. LoopsOK'
  <2>1. rlLoop' \in [RlLoops -> RlLoopStates]
    BY <1>0, <1>1, <1>6 DEF LoopsOK
  <2>2. \A k \in RlLoops : rlLoop'[k].client # RlNone <=> rlLoop'[k].pc = "install"
    BY <1>0, <1>5, <1>6 DEF LoopsOK
  <2> QED
    BY <2>1, <2>2 DEF LoopsOK
<1>8. HoldersShrink
  BY <1>4, <1>5, <1>6 DEF HoldersShrink
<1>9. ASSUME NEW n \in RlClients, rlClient'[n] # rlClient[n]
      PROVE  Fresh(n) /\ ~CmdHolds(n)' /\ ~LoopHolds(n)'
  <2>1. PICK k \in RlLoops : k = rlTask /\ rlLoop[k] = [pc |-> "install", client |-> n]
    BY <1>1, <1>9
  <2>2. rlLoop[k].client = n /\ rlLoop[k].pc = "install"
    BY <2>1
  <2>3. LoopHolds(n)
    BY <2>2 DEF LoopHolds
  <2>4. Fresh(n)
    BY <1>0, <2>3 DEF ClientsOK
  <2>5. rlLoop'[k] = Resting
    BY <1>1, <2>1, <2>2 DEF Aborted
  <2>6. \A l \in RlLoops : rlLoop'[l].client # n
    BY <1>5, <1>6, <2>2, <2>4, <2>5, NoneIsNoClient DEF Fresh
  <2>7. ~CmdHolds(n)
    BY <2>3, <2>4 DEF Fresh
  <2> QED
    BY <1>4, <2>4, <2>6, <2>7 DEF CmdHolds, LoopHolds
<1>10. ASSUME NEW n \in RlClients, CmdHolds(n)' \/ LoopHolds(n)' PROVE Fresh(n)'
  <2>1. Fresh(n)
    BY <1>0, <1>8, <1>10, StillHeld
  <2>2. rlClient'[n] = rlClient[n]
    BY <1>9, <1>10
  <2>3. New(n)'
    BY <1>1, <1>2, <2>1, <2>2 DEF New, Fresh
  <2> QED
    BY <1>0, <1>8, <1>10, <2>3, FreshAfter
<1>11. /\ rlSlot' \in RlAnyClient /\ rlClient' \in [RlClients -> {"none", "up", "lost"}]
       /\ rlConsumer' \in [RlClients -> {"none", "run", "schedule"}] /\ SlotHasConsumer'
  BY <1>0, <1>1 DEF ClientsOK, SlotHasConsumer
<1>12. \A n \in RlClients : rlConsumer'[n] # "none" => rlClient'[n] # "none"
  BY <1>0, <1>1, <1>9 DEF ClientsOK, Fresh
<1>13. ClientsOK'
  BY <1>10, <1>11, <1>12 DEF ClientsOK
<1>14. DomainOK' /\ RevisionsOK' /\ PubsOK'
  BY <1>0, <1>1, <1>2, <1>4, RevisionsFrame, PubsFrame DEF DomainOK
<1> QED
  BY <1>4, <1>7, <1>13, <1>14 DEF RlInv

LEMMA DropControlKeeps ==
  ASSUME RlInv, NEW c \in RlCommands, DropControl(c)
  PROVE  RlInv'
<1>0. DomainOK /\ CmdsOK /\ LoopsOK /\ ClientsOK /\ RevisionsOK /\ PubsOK
  BY DEF RlInv
<1>1. /\ rlCmd[c].pc = "drop" /\ rlCmd' = [rlCmd EXCEPT ![c].pc = "done"] /\ rlSlot' = RlNone
      /\ UNCHANGED <<rlConfig, rlStale, rlClient, rlConsumer, rlReconnect, rlDiscovery, rlServer>>
  BY DEF DropControl
<1>2. UNCHANGED <<rlRev, rlBundle, rlState, rlPub, rlLoop>>
  BY <1>1 DEF rlDiscovery, rlReconnect
<1>3. PICK r \in RlCmds : rlCmd' = [rlCmd EXCEPT ![c] = r] /\ r.pc = "done" /\ r.client = rlCmd[c].client
  BY <1>0, <1>1, CmdStage
<1>4. /\ CmdsOK' /\ (\A d \in RlCommands : rlCmd'[d].client = rlCmd[d].client)
      /\ \A d \in RlCommands : rlCmd'[d].pc = "publish" \/ rlPub[d] = NoPub
  BY <1>0, <1>1, <1>3, CmdMoves
<1>5. HoldersShrink
  BY <1>2, <1>4 DEF HoldersShrink
<1>6. ASSUME NEW n \in RlClients, CmdHolds(n)' \/ LoopHolds(n)' PROVE Fresh(n)'
  <2>1. Fresh(n)
    BY <1>0, <1>5, <1>6, StillHeld
  <2>2. New(n)'
    BY <1>1, <1>2, <2>1, NoneIsNoClient DEF New, Fresh
  <2> QED
    BY <1>0, <1>5, <1>6, <2>2, FreshAfter
<1>7. ClientsOK'
  BY <1>0, <1>1, <1>6 DEF ClientsOK, SlotHasConsumer, RlAnyClient
<1>8. DomainOK' /\ LoopsOK' /\ RevisionsOK' /\ PubsOK'
  BY <1>0, <1>1, <1>2, <1>4, RevisionsFrame, PubsFrame DEF DomainOK, LoopsOK, rlReconnect
<1> QED
  BY <1>4, <1>7, <1>8 DEF RlInv

\* Any update of one command's record.
LEMMA CmdUpdate ==
  ASSUME CmdsOK, NEW c \in RlCommands, NEW pc \in {"install", "done"}, NEW n \in RlAnyClient,
         rlCmd' = [rlCmd EXCEPT ![c].pc = pc, ![c].client = n]
  PROVE  /\ rlCmd' \in [RlCommands -> RlCmds] /\ rlCmd'[c].pc = pc /\ rlCmd'[c].client = n
         /\ \A d \in RlCommands : d # c => rlCmd'[d] = rlCmd[d]
<1> DEFINE staged == [rlCmd EXCEPT ![c].pc = pc]
<1>1. rlCmd' = [staged EXCEPT ![c].client = n]
  OBVIOUS
<1>2. rlCmd[c] \in RlCmds /\ rlCmd \in [RlCommands -> RlCmds]
  BY DEF CmdsOK
<1>3. /\ DOMAIN staged = RlCommands /\ staged[c] = [rlCmd[c] EXCEPT !.pc = pc]
      /\ \A d \in RlCommands : d # c => staged[d] = rlCmd[d]
  BY <1>2
<1>4. staged[c] = [pc |-> pc, op |-> rlCmd[c].op, client |-> rlCmd[c].client]
  BY <1>2, <1>3 DEF RlCmds
<1>5. staged = [d \in RlCommands |-> staged[d]]
  BY <1>2
<1> HIDE DEF staged
<1>6. rlCmd' = [d \in RlCommands |-> IF d = c THEN [staged[c] EXCEPT !.client = n] ELSE staged[d]]
  BY <1>1, <1>5
<1>7. [staged[c] EXCEPT !.client = n] = [pc |-> pc, op |-> rlCmd[c].op, client |-> n]
  BY <1>4
<1>8. [pc |-> pc, op |-> rlCmd[c].op, client |-> n] \in RlCmds
  BY <1>2 DEF RlCmds
<1> QED
  BY <1>2, <1>3, <1>6, <1>7, <1>8

\* A client nobody knows of yet comes up in the hands of one command or one loop.
LEMMA ConnectsKeeps ==
  ASSUME ClientsOK, NEW n \in RlClients, Connects(n), UNCHANGED <<rlSlot, rlConsumer, rlPub>>,
         \A m \in RlClients : m # n => (CmdHolds(m)' <=> CmdHolds(m)) /\ (LoopHolds(m)' <=> LoopHolds(m)),
         \A m \in RlClients : m # n =>
            /\ \A c \in RlCommands : rlCmd'[c].client = m => rlCmd[c].client = m
            /\ \A k \in RlLoops : rlLoop'[k].client = m => rlLoop[k].client = m,
         \A c, d \in RlCommands : rlCmd'[c].client = n /\ rlCmd'[d].client = n => c = d,
         \A k, l \in RlLoops : rlLoop'[k].client = n /\ rlLoop'[l].client = n => k = l,
         ~(CmdHolds(n)' /\ LoopHolds(n)')
  PROVE  ClientsOK'
<1>1. /\ n \in FreeClients
      /\ rlClient' = [m \in RlClients |->
           CASE m = n -> "up" [] rlClient[m] = "up" -> "lost" [] OTHER -> rlClient[m]]
  BY DEF Connects
<1>2. rlClient[n] = "none" /\ rlPub[n] = NoPub /\ rlSlot # n
  BY <1>1 DEF FreeClients, Holds
<1>3. /\ rlClient' \in [RlClients -> {"none", "up", "lost"}] /\ rlClient'[n] = "up"
      /\ \A m \in RlClients : rlClient[m] # "none" => rlClient'[m] # "none"
  <2>1. \A m \in RlClients : rlClient[m] \in {"none", "up", "lost"}
    BY DEF ClientsOK
  <2>2. \A m \in RlClients : rlClient'[m] = IF m = n THEN "up" ELSE
          IF rlClient[m] = "up" THEN "lost" ELSE rlClient[m]
    <3> TAKE m \in RlClients
    <3>1. rlClient'[m] = CASE m = n -> "up" [] rlClient[m] = "up" -> "lost" [] OTHER -> rlClient[m]
      BY <1>1
    <3>2. CASE m = n
      BY <1>2, <3>1, <3>2
    <3>3. CASE m # n /\ rlClient[m] = "up"
      BY <3>1, <3>3
    <3>4. CASE m # n /\ rlClient[m] # "up"
      BY <3>1, <3>4
    <3> QED
      BY <3>2, <3>3, <3>4
  <2>3. rlClient' = [m \in RlClients |-> rlClient'[m]]
    BY <1>1
  <2>4. \A m \in RlClients : rlClient'[m] \in {"none", "up", "lost"}
    BY <2>1, <2>2
  <2> HIDE <1>1
  <2>5. rlClient' \in [RlClients -> {"none", "up", "lost"}]
    BY <2>3, <2>4
  <2> QED
    BY <2>1, <2>2, <2>5
<1>4. rlConsumer[n] = "none"
  BY <1>2 DEF ClientsOK
<1>5. ASSUME NEW m \in RlClients, CmdHolds(m)' \/ LoopHolds(m)' PROVE Fresh(m)'
  <2>1. CASE m = n
    BY <1>2, <1>3, <1>4, <2>1 DEF Fresh
  <2>2. CASE m # n
    <3>1. Fresh(m)
      BY <1>5, <2>2 DEF ClientsOK
    <3>2. ~(CmdHolds(m)' /\ LoopHolds(m)')
      BY <2>2, <3>1 DEF Fresh
    <3>3. rlClient'[m] # "none" /\ rlConsumer'[m] = "none" /\ rlPub'[m] = NoPub /\ rlSlot' # m
      BY <1>3, <3>1 DEF Fresh
    <3>4. \A c, d \in RlCommands : rlCmd'[c].client = m /\ rlCmd'[d].client = m => c = d
      BY <2>2, <3>1 DEF Fresh
    <3>5. \A k, l \in RlLoops : rlLoop'[k].client = m /\ rlLoop'[l].client = m => k = l
      BY <2>2, <3>1 DEF Fresh
    <3> QED
      BY <3>2, <3>3, <3>4, <3>5 DEF Fresh
  <2> QED
    BY <2>1, <2>2
<1>6. SlotHasConsumer' /\ rlSlot' \in RlAnyClient /\ rlConsumer' \in [RlClients -> {"none", "run", "schedule"}]
  BY DEF ClientsOK, SlotHasConsumer
<1>7. \A m \in RlClients : rlConsumer'[m] # "none" => rlClient'[m] # "none"
  BY <1>3 DEF ClientsOK
<1> QED
  BY <1>3, <1>5, <1>6, <1>7 DEF ClientsOK

LEMMA ConnectsRevisions ==
  ASSUME RevisionsOK, NEW n \in RlClients, Connects(n), UNCHANGED <<rlRev, rlBundle>>
  PROVE  RevisionsOK'
<1>1. rlServer' = [rlServer EXCEPT !.owner = n]
  BY DEF Connects
<1>2. /\ rlServer'.rev = rlServer.rev /\ rlServer'.bundle = rlServer.bundle
      /\ rlServer' \in [owner : RlAnyClient, rev : Nat, bundle : Nat]
  BY <1>1 DEF RevisionsOK, RlAnyClient
<1> QED
  BY <1>2 DEF RevisionsOK

LEMMA ConfigureConnectsKeeps ==
  ASSUME RlInv, NEW c \in RlCommands, ConfigureConnects(c)
  PROVE  RlInv'
<1>0. DomainOK /\ CmdsOK /\ LoopsOK /\ ClientsOK /\ RevisionsOK /\ PubsOK
  BY DEF RlInv
<1>1. PICK n \in RlClients : Connects(n) /\ rlCmd' = [rlCmd EXCEPT ![c].pc = "install", ![c].client = n]
  BY DEF ConfigureConnects
<1>2. /\ rlCmd[c].pc = "dial"
      /\ UNCHANGED <<rlConfig, rlStale, rlSlot, rlConsumer, rlReconnect, rlDiscovery>>
  BY DEF ConfigureConnects
<1>3. UNCHANGED <<rlRev, rlBundle, rlState, rlPub, rlLoop, rlActive, rlTask, rlStoring>>
  BY <1>2 DEF rlDiscovery, rlReconnect
<1>4. /\ rlCmd' \in [RlCommands -> RlCmds] /\ rlCmd'[c].pc = "install" /\ rlCmd'[c].client = n
      /\ \A d \in RlCommands : d # c => rlCmd'[d] = rlCmd[d]
  BY <1>0, <1>1, CmdUpdate DEF RlAnyClient
<1>5. rlCmd[c].client = RlNone /\ n # RlNone
  BY <1>0, <1>2, NoneIsNoClient DEF CmdsOK
<1>6. CmdsOK'
  BY <1>0, <1>4, <1>5 DEF CmdsOK
<1>7. (\A d \in RlCommands : rlCmd[d].client # n) /\ \A k \in RlLoops : rlLoop[k].client # n
  BY <1>1 DEF Connects, FreeClients, Holds
<1>8. ClientsOK'
  <2>1. ASSUME NEW m \in RlClients, m # n
        PROVE  /\ (CmdHolds(m)' <=> CmdHolds(m)) /\ (LoopHolds(m)' <=> LoopHolds(m))
               /\ \A d \in RlCommands : rlCmd'[d].client = m => rlCmd[d].client = m
               /\ \A k \in RlLoops : rlLoop'[k].client = m => rlLoop[k].client = m
    <3>1. \A d \in RlCommands : rlCmd'[d].client = m <=> rlCmd[d].client = m
      BY <1>4, <1>5, <2>1, NoneIsNoClient
    <3> QED
      BY <1>3, <3>1 DEF CmdHolds, LoopHolds
  <2>2. \A d, e \in RlCommands : rlCmd'[d].client = n /\ rlCmd'[e].client = n => d = e
    BY <1>4, <1>7
  <2>3. \A k \in RlLoops : rlLoop'[k].client # n
    BY <1>3, <1>7
  <2>4. ~LoopHolds(n)'
    BY <2>3 DEF LoopHolds
  <2> QED
    BY <1>0, <1>1, <1>2, <1>3, <2>1, <2>2, <2>3, <2>4, ConnectsKeeps
<1>9. RevisionsOK'
  BY <1>0, <1>1, <1>3, ConnectsRevisions
<1>10. PubsOK'
  <2>1. \A d \in RlCommands : rlCmd'[d].pc = "publish" \/ rlPub[d] = NoPub
    BY <1>0, <1>2, <1>4 DEF PubsOK
  <2> QED
    BY <1>0, <1>3, <2>1, PubsFrame
<1>11. DomainOK' /\ LoopsOK'
  BY <1>0, <1>2, <1>3 DEF DomainOK, LoopsOK
<1> QED
  BY <1>6, <1>8, <1>9, <1>10, <1>11 DEF RlInv

LEMMA LoopConnectsKeeps ==
  ASSUME RlInv, NEW k \in RlLoops, LoopConnects(k)
  PROVE  RlInv'
<1>0. DomainOK /\ CmdsOK /\ LoopsOK /\ ClientsOK /\ RevisionsOK /\ PubsOK
  BY DEF RlInv
<1>1. PICK n \in RlClients :
        Connects(n) /\ rlLoop' = [rlLoop EXCEPT ![k] = [pc |-> "install", client |-> n]]
  BY DEF LoopConnects
<1>2. /\ rlLoop[k].pc = "dial"
      /\ UNCHANGED <<rlConfig, rlStale, rlSlot, rlConsumer, rlActive, rlTask, rlStoring, rlCmd, rlDiscovery>>
  BY DEF LoopConnects
<1>3. UNCHANGED <<rlRev, rlBundle, rlState, rlPub>>
  BY <1>2 DEF rlDiscovery
<1>4. /\ rlLoop' \in [RlLoops -> RlLoopStates] /\ rlLoop'[k].pc = "install" /\ rlLoop'[k].client = n
      /\ \A l \in RlLoops : l # k => rlLoop'[l] = rlLoop[l]
  BY <1>0, <1>1 DEF LoopsOK, RlLoopStates, RlAnyClient
<1>5. rlLoop[k].client = RlNone /\ n # RlNone
  BY <1>0, <1>2, NoneIsNoClient DEF LoopsOK
<1>6. LoopsOK'
  BY <1>0, <1>4, <1>5 DEF LoopsOK
<1>7. (\A d \in RlCommands : rlCmd[d].client # n) /\ \A l \in RlLoops : rlLoop[l].client # n
  BY <1>1 DEF Connects, FreeClients, Holds
<1>8. ClientsOK'
  <2>1. ASSUME NEW m \in RlClients, m # n
        PROVE  /\ (CmdHolds(m)' <=> CmdHolds(m)) /\ (LoopHolds(m)' <=> LoopHolds(m))
               /\ \A d \in RlCommands : rlCmd'[d].client = m => rlCmd[d].client = m
               /\ \A l \in RlLoops : rlLoop'[l].client = m => rlLoop[l].client = m
    <3>1. \A l \in RlLoops : rlLoop'[l].client = m <=> rlLoop[l].client = m
      BY <1>4, <1>5, <2>1, NoneIsNoClient
    <3> QED
      BY <1>2, <3>1 DEF CmdHolds, LoopHolds
  <2>2. \A l, j \in RlLoops : rlLoop'[l].client = n /\ rlLoop'[j].client = n => l = j
    BY <1>4, <1>7
  <2>3. \A d \in RlCommands : rlCmd'[d].client # n
    BY <1>2, <1>7
  <2>4. ~CmdHolds(n)'
    BY <2>3 DEF CmdHolds
  <2> QED
    BY <1>0, <1>1, <1>2, <1>3, <2>1, <2>2, <2>3, <2>4, ConnectsKeeps
<1>9. RevisionsOK'
  BY <1>0, <1>1, <1>3, ConnectsRevisions
<1>10. PubsOK'
  <2>1. \A d \in RlCommands : rlCmd'[d].pc = "publish" \/ rlPub[d] = NoPub
    BY <1>0, <1>2 DEF PubsOK
  <2> QED
    BY <1>0, <1>3, <2>1, PubsFrame
<1>11. DomainOK' /\ CmdsOK'
  BY <1>0, <1>2 DEF DomainOK, CmdsOK
<1> QED
  BY <1>6, <1>8, <1>9, <1>10, <1>11 DEF RlInv

\* The client goes from its one holder into the slot.
LEMMA InstallKeeps ==
  ASSUME ClientsOK, PubsOK, HoldersShrink, NEW n \in RlClients, Fresh(n), Install(n),
         ~CmdHolds(n)', ~LoopHolds(n)', UNCHANGED <<rlClient, rlRev, rlState>>,
         \A c \in RlCommands : rlCmd'[c].pc = "publish" \/ rlPub[c] = NoPub
  PROVE  ClientsOK' /\ PubsOK'
<1>1. /\ rlSlot' = n /\ rlConsumer' = [rlConsumer EXCEPT ![n] = "run"]
      /\ rlPub' = [rlPub EXCEPT ![n].pc = "start"]
  BY DEF Install, Publishes
<1>2. n \in RlPubs /\ n \notin RlCommands /\ n # RlNone
  BY RelayControlAssumption, NoneIsNoClient DEF RlPubs, RlCommands
<1>3. rlPub[n] = NoPub /\ rlClient[n] # "none"
  BY DEF Fresh
<1>4. /\ rlConsumer' \in [RlClients -> {"none", "run", "schedule"}] /\ rlConsumer'[n] = "run"
      /\ \A m \in RlClients : m # n => rlConsumer'[m] = rlConsumer[m]
  BY <1>1 DEF ClientsOK
<1>5. /\ DOMAIN rlPub' = RlPubs /\ rlPub' = [p \in RlPubs |-> rlPub'[p]]
      /\ rlPub'[n] = [NoPub EXCEPT !.pc = "start"]
      /\ \A p \in RlPubs : p # n => rlPub'[p] = rlPub[p]
  BY <1>1, <1>2, <1>3 DEF PubsOK
<1>6. rlPub'[n] = [pc |-> "start", client |-> RlNone, rev |-> 0, bundle |-> 0, tries |-> 0]
  BY <1>5 DEF NoPub
<1>7. ClientsOK'
  <2>1. ASSUME NEW m \in RlClients, CmdHolds(m)' \/ LoopHolds(m)' PROVE Fresh(m)'
    <3>1. m # n /\ Fresh(m)
      BY <2>1, StillHeld
    <3>2. m \in RlPubs
      BY DEF RlPubs
    <3>3. New(m)'
      BY <1>1, <1>4, <1>5, <3>1, <3>2 DEF New, Fresh
    <3> QED
      BY <2>1, <3>3, FreshAfter
  <2>2. SlotHasConsumer' /\ rlSlot' \in RlAnyClient
    BY <1>1, <1>4 DEF SlotHasConsumer, RlAnyClient
  <2>3. \A m \in RlClients : rlConsumer'[m] # "none" => rlClient'[m] # "none"
    BY <1>3, <1>4 DEF ClientsOK
  <2>4. rlClient' \in [RlClients -> {"none", "up", "lost"}]
    BY DEF ClientsOK
  <2> QED
    BY <1>4, <2>1, <2>2, <2>3, <2>4 DEF ClientsOK
<1>8. PubsOK'
  <2>1. rlPub'[n] \in RlPubStates
    BY <1>6 DEF RlPubStates, RlAnyClient
  <2>2. \A p \in RlPubs : rlPub'[p] \in RlPubStates
    BY <1>5, <2>1 DEF PubsOK
  <2>3. rlPub' \in [RlPubs -> RlPubStates]
    BY <1>5, <2>2
  <2>4. RlAttempts \in Nat \ {0}
    BY RelayControlAssumption
  <2>5. \A p \in RlPubs : rlPub'[p].rev <= rlRev' /\ rlPub'[p].bundle <= rlPub'[p].rev
                          /\ rlPub'[p].tries < RlAttempts
    <3>1. rlPub[n].rev <= rlRev /\ rlPub[n].rev = 0
      BY <1>2, <1>3 DEF PubsOK, PubOK, NoPub
    <3>2. rlPub'[n].rev <= rlRev' /\ rlPub'[n].bundle <= rlPub'[n].rev /\ rlPub'[n].tries < RlAttempts
      BY <1>6, <2>4, <3>1
    <3> QED
      BY <1>5, <3>2 DEF PubsOK, PubOK
  <2>6. \A c \in RlCommands : rlCmd'[c].pc = "publish" \/ rlPub'[c] = NoPub
    BY <1>2, <1>5 DEF RlPubs
  <2>7. PublishingHasPublisher'
    <3> SUFFICES ASSUME rlState = "publishing"
                 PROVE  \E p \in RlPubs : rlPub'[p].pc \in {"send", "acked", "failed"}
      BY DEF PublishingHasPublisher
    <3>1. PICK p \in RlPubs : rlPub[p].pc \in {"send", "acked", "failed"}
      BY DEF PubsOK, PublishingHasPublisher
    <3>2. p # n
      BY <1>3, <3>1 DEF NoPub
    <3> QED
      BY <1>5, <3>1, <3>2
  <2>8. rlState' \in {"idle", "publishing", "published", "degraded"}
    BY DEF PubsOK
  <2> QED
    BY <2>3, <2>5, <2>6, <2>7, <2>8 DEF PubsOK, PubOK
<1> QED
  BY <1>7, <1>8

LEMMA ConfigureInstallsKeeps ==
  ASSUME RlInv, NEW c \in RlCommands, ConfigureInstalls(c)
  PROVE  RlInv'
<1>0. DomainOK /\ CmdsOK /\ LoopsOK /\ ClientsOK /\ RevisionsOK /\ PubsOK
  BY DEF RlInv
<1>1. PICK n : n = rlCmd[c].client
  OBVIOUS
<1>2. /\ rlCmd[c].pc = "install" /\ Install(n)
      /\ rlCmd' = [rlCmd EXCEPT ![c].pc = "done", ![c].client = RlNone]
      /\ UNCHANGED <<rlConfig, rlStale, rlClient, rlReconnect, rlRev, rlBundle, rlState, rlServer>>
  BY <1>1 DEF ConfigureInstalls
<1>3. n \in RlClients
  <2>1. rlCmd[c] \in RlCmds /\ n # RlNone
    BY <1>0, <1>1, <1>2 DEF CmdsOK
  <2> QED
    BY <1>1, <2>1 DEF RlCmds, RlAnyClient
<1>4. /\ rlCmd' \in [RlCommands -> RlCmds] /\ rlCmd'[c].pc = "done" /\ rlCmd'[c].client = RlNone
      /\ \A d \in RlCommands : d # c => rlCmd'[d] = rlCmd[d]
  BY <1>0, <1>2, CmdUpdate DEF RlAnyClient
<1>5. CmdsOK'
  BY <1>0, <1>4 DEF CmdsOK
<1>6. UNCHANGED <<rlLoop, rlActive, rlTask, rlStoring>>
  BY <1>2 DEF rlReconnect
<1>7. HoldersShrink
  BY <1>4, <1>6 DEF HoldersShrink
<1>8. CmdHolds(n)
  BY <1>1 DEF CmdHolds
<1>9. Fresh(n)
  BY <1>0, <1>3, <1>8 DEF ClientsOK
<1>10. ~CmdHolds(n)' /\ ~LoopHolds(n)'
  <2>1. \A d \in RlCommands : rlCmd'[d].client # n
    BY <1>1, <1>3, <1>4, <1>9, NoneIsNoClient DEF Fresh
  <2>2. ~LoopHolds(n)
    BY <1>8, <1>9 DEF Fresh
  <2> QED
    BY <1>6, <2>1, <2>2 DEF CmdHolds, LoopHolds
<1>11. \A d \in RlCommands : rlCmd'[d].pc = "publish" \/ rlPub[d] = NoPub
  BY <1>0, <1>2, <1>4 DEF PubsOK
<1>12. ClientsOK' /\ PubsOK'
  BY <1>0, <1>2, <1>3, <1>7, <1>9, <1>10, <1>11, InstallKeeps
<1>13. DomainOK' /\ LoopsOK' /\ RevisionsOK'
  BY <1>0, <1>2, <1>6 DEF DomainOK, LoopsOK, RevisionsOK
<1> QED
  BY <1>5, <1>12, <1>13 DEF RlInv

LEMMA LoopInstallsKeeps ==
  ASSUME RlInv, NEW k \in RlLoops, LoopInstalls(k)
  PROVE  RlInv'
<1>0. DomainOK /\ CmdsOK /\ LoopsOK /\ ClientsOK /\ RevisionsOK /\ PubsOK
  BY DEF RlInv
<1>1. PICK n : n = rlLoop[k].client
  OBVIOUS
<1>2. /\ rlLoop[k].pc = "install" /\ Install(n)
      /\ rlLoop' = [rlLoop EXCEPT ![k] = [pc |-> "resume", client |-> RlNone]]
      /\ UNCHANGED <<rlConfig, rlStale, rlClient, rlActive, rlTask, rlStoring, rlCmd, rlRev, rlBundle,
                     rlState, rlServer>>
  BY <1>1 DEF LoopInstalls
<1>3. n \in RlClients
  <2>1. rlLoop[k] \in RlLoopStates /\ n # RlNone
    BY <1>0, <1>1, <1>2 DEF LoopsOK
  <2> QED
    BY <1>1, <2>1 DEF RlLoopStates, RlAnyClient
<1>4. /\ rlLoop' \in [RlLoops -> RlLoopStates] /\ rlLoop'[k].pc = "resume" /\ rlLoop'[k].client = RlNone
      /\ \A l \in RlLoops : l # k => rlLoop'[l] = rlLoop[l]
  BY <1>0, <1>2 DEF LoopsOK, RlLoopStates, RlAnyClient
<1>5. LoopsOK'
  BY <1>0, <1>4 DEF LoopsOK
<1>7. HoldersShrink
  BY <1>2, <1>4 DEF HoldersShrink
<1>8. LoopHolds(n)
  BY <1>1 DEF LoopHolds
<1>9. Fresh(n)
  BY <1>0, <1>3, <1>8 DEF ClientsOK
<1>10. ~CmdHolds(n)' /\ ~LoopHolds(n)'
  <2>1. \A l \in RlLoops : rlLoop'[l].client # n
    BY <1>1, <1>3, <1>4, <1>9, NoneIsNoClient DEF Fresh
  <2>2. ~CmdHolds(n)
    BY <1>8, <1>9 DEF Fresh
  <2> QED
    BY <1>2, <2>1, <2>2 DEF CmdHolds, LoopHolds
<1>11. \A d \in RlCommands : rlCmd'[d].pc = "publish" \/ rlPub[d] = NoPub
  BY <1>0, <1>2 DEF PubsOK
<1>12. ClientsOK' /\ PubsOK'
  BY <1>0, <1>2, <1>3, <1>7, <1>9, <1>10, <1>11, InstallKeeps
<1>13. DomainOK' /\ CmdsOK' /\ RevisionsOK'
  BY <1>0, <1>2 DEF DomainOK, CmdsOK, RevisionsOK
<1> QED
  BY <1>5, <1>12, <1>13 DEF RlInv

LEMMA ClientLostKeeps ==
  ASSUME RlInv, NEW n \in RlClients, ClientLost(n)
  PROVE  RlInv'
<1>0. DomainOK /\ CmdsOK /\ LoopsOK /\ ClientsOK /\ RevisionsOK /\ PubsOK
  BY DEF RlInv
<1>1. /\ rlClient[n] = "up" /\ rlClient' = [rlClient EXCEPT ![n] = "lost"]
      /\ UNCHANGED <<rlConfig, rlStale, rlSlot, rlConsumer, rlReconnect, rlCmd, rlDiscovery, rlServer>>
  BY DEF ClientLost
<1>2. UNCHANGED <<rlRev, rlBundle, rlState, rlPub, rlLoop, rlActive, rlTask, rlStoring>>
  BY <1>1 DEF rlDiscovery, rlReconnect
<1>3. /\ rlClient' \in [RlClients -> {"none", "up", "lost"}]
      /\ \A m \in RlClients : rlClient[m] # "none" => rlClient'[m] # "none"
  BY <1>0, <1>1 DEF ClientsOK
<1>4. HoldersShrink
  BY <1>1, <1>2 DEF HoldersShrink
<1>5. ASSUME NEW m \in RlClients, CmdHolds(m)' \/ LoopHolds(m)' PROVE Fresh(m)'
  <2>1. Fresh(m)
    BY <1>0, <1>4, <1>5, StillHeld
  <2>2. New(m)'
    BY <1>1, <1>2, <1>3, <2>1 DEF New, Fresh
  <2> QED
    BY <1>0, <1>4, <1>5, <2>2, FreshAfter
<1>6. ClientsOK'
  BY <1>0, <1>1, <1>3, <1>5 DEF ClientsOK, SlotHasConsumer
<1>7. DomainOK' /\ CmdsOK' /\ LoopsOK' /\ RevisionsOK'
  BY <1>0, <1>1, <1>2 DEF DomainOK, CmdsOK, LoopsOK, RevisionsOK
<1>8. PubsOK'
  BY <1>0, <1>1, <1>2 DEF PubsOK, PubOK, PublishingHasPublisher
<1> QED
  BY <1>6, <1>7, <1>8 DEF RlInv

LEMMA ConsumerEmptiesKeeps ==
  ASSUME RlInv, NEW n \in RlClients, ConsumerEmpties(n)
  PROVE  RlInv'
<1>0. DomainOK /\ CmdsOK /\ LoopsOK /\ ClientsOK /\ RevisionsOK /\ PubsOK
  BY DEF RlInv
<1>1. /\ rlConsumer[n] = "run" /\ rlConsumer' = [rlConsumer EXCEPT ![n] = "schedule"] /\ rlSlot' = RlNone
      /\ UNCHANGED <<rlConfig, rlStale, rlClient, rlReconnect, rlCmd, rlDiscovery, rlServer>>
  BY DEF ConsumerEmpties, SlotTaken
<1>2. UNCHANGED <<rlRev, rlBundle, rlState, rlPub, rlLoop, rlActive, rlTask, rlStoring>>
  BY <1>1 DEF rlDiscovery, rlReconnect
<1>3. /\ rlConsumer' \in [RlClients -> {"none", "run", "schedule"}]
      /\ \A m \in RlClients : rlConsumer'[m] = "none" <=> rlConsumer[m] = "none"
  BY <1>0, <1>1 DEF ClientsOK
<1>4. HoldersShrink
  BY <1>1, <1>2 DEF HoldersShrink
<1>5. ASSUME NEW m \in RlClients, CmdHolds(m)' \/ LoopHolds(m)' PROVE Fresh(m)'
  <2>1. Fresh(m)
    BY <1>0, <1>4, <1>5, StillHeld
  <2>2. New(m)'
    BY <1>1, <1>2, <1>3, <2>1, NoneIsNoClient DEF New, Fresh
  <2> QED
    BY <1>0, <1>4, <1>5, <2>2, FreshAfter
<1>6. ClientsOK'
  BY <1>0, <1>1, <1>3, <1>5 DEF ClientsOK, SlotHasConsumer, RlAnyClient
<1>7. DomainOK' /\ CmdsOK' /\ LoopsOK' /\ RevisionsOK'
  BY <1>0, <1>1, <1>2 DEF DomainOK, CmdsOK, LoopsOK, RevisionsOK
<1>8. PubsOK'
  BY <1>0, <1>1, <1>2 DEF PubsOK, PubOK, PublishingHasPublisher
<1> QED
  BY <1>6, <1>7, <1>8 DEF RlInv

LEMMA ConsumerSchedulesKeeps ==
  ASSUME RlInv, NEW n \in RlClients, ConsumerSchedules(n)
  PROVE  RlInv'
<1>0. DomainOK /\ CmdsOK /\ LoopsOK /\ ClientsOK /\ RevisionsOK /\ PubsOK /\ Alike(rlLoop)
  BY AlikeSame DEF RlInv
<1>1. /\ rlConsumer[n] = "schedule" /\ rlConsumer' = [rlConsumer EXCEPT ![n] = "none"]
      /\ rlClient' = [rlClient EXCEPT ![n] = "none"] /\ ScheduleReconnect(rlLoop)
      /\ UNCHANGED <<rlConfig, rlStale, rlSlot, rlTask, rlCmd, rlDiscovery, rlServer>>
  BY DEF ConsumerSchedules
<1>2. UNCHANGED <<rlRev, rlBundle, rlState, rlPub>>
  BY <1>1 DEF rlDiscovery
<1>3. Alike(rlLoop') /\ rlActive' \in BOOLEAN /\ rlStoring' \subseteq RlLoops
  BY <1>0, <1>1, Schedules
<1>4. LoopsOK' /\ \A k \in RlLoops : rlLoop'[k].client = rlLoop[k].client
  BY <1>0, <1>3, AlikeOK
<1>5. /\ rlConsumer' \in [RlClients -> {"none", "run", "schedule"}]
      /\ rlClient' \in [RlClients -> {"none", "up", "lost"}] /\ rlConsumer'[n] = "none"
      /\ \A m \in RlClients : m # n => rlConsumer'[m] = rlConsumer[m] /\ rlClient'[m] = rlClient[m]
  BY <1>0, <1>1 DEF ClientsOK
<1>6. HoldersShrink
  BY <1>1, <1>4 DEF HoldersShrink
<1>7. rlSlot # n
  BY <1>0, <1>1, NoneIsNoClient DEF ClientsOK, SlotHasConsumer
<1>8. ASSUME NEW m \in RlClients, CmdHolds(m)' \/ LoopHolds(m)' PROVE Fresh(m)'
  <2>1. Fresh(m)
    BY <1>0, <1>6, <1>8, StillHeld
  <2>2. m # n
    BY <1>1, <2>1 DEF Fresh
  <2>3. New(m)'
    BY <1>1, <1>2, <1>5, <2>1, <2>2 DEF New, Fresh
  <2> QED
    BY <1>0, <1>6, <1>8, <2>3, FreshAfter
<1>9. SlotHasConsumer'
  BY <1>0, <1>1, <1>5, <1>7 DEF ClientsOK, SlotHasConsumer, RlAnyClient
<1>10. \A m \in RlClients : rlConsumer'[m] # "none" => rlClient'[m] # "none"
  BY <1>0, <1>5 DEF ClientsOK
<1>11. ClientsOK'
  BY <1>0, <1>1, <1>5, <1>8, <1>9, <1>10 DEF ClientsOK
<1>12. DomainOK' /\ CmdsOK' /\ RevisionsOK'
  BY <1>0, <1>1, <1>2, <1>3 DEF DomainOK, CmdsOK, RevisionsOK
<1>13. PubsOK'
  BY <1>0, <1>1, <1>2 DEF PubsOK, PubOK, PublishingHasPublisher
<1> QED
  BY <1>4, <1>11, <1>12, <1>13 DEF RlInv

-----------------------------------------------------------------------------
(* Revisions and publications                                              *)

LEMMA EnvironmentBumpKeeps ==
  ASSUME RlInv, NEW c \in RlCommands, EnvironmentBump(c)
  PROVE  RlInv'
<1>0. DomainOK /\ CmdsOK /\ LoopsOK /\ ClientsOK /\ RevisionsOK /\ PubsOK
  BY DEF RlInv
<1>1. /\ rlCmd[c].pc = "bump" /\ rlCmd' = [rlCmd EXCEPT ![c].pc = "refresh"]
      /\ rlRev' = rlRev + 1 /\ rlState' = "idle"
      /\ UNCHANGED <<rlControl, rlReconnect, rlBundle, rlPub, rlServer>>
  BY DEF EnvironmentBump
<1>2. PICK r \in RlCmds : rlCmd' = [rlCmd EXCEPT ![c] = r] /\ r.pc = "refresh" /\ r.client = rlCmd[c].client
  BY <1>0, <1>1, CmdStage
<1>3. /\ CmdsOK' /\ (\A d \in RlCommands : rlCmd'[d].client = rlCmd[d].client)
      /\ \A d \in RlCommands : rlCmd'[d].pc = "publish" \/ rlPub[d] = NoPub
  BY <1>0, <1>1, <1>2, CmdMoves
<1>4. /\ SameHolders /\ UNCHANGED <<rlSlot, rlClient, rlConsumer, rlLoop>>
  BY <1>1, <1>3 DEF SameHolders, rlControl, rlReconnect
<1>5. ClientsOK'
  BY <1>0, <1>1, <1>4, ClientsFrame
<1>6. RevisionsOK'
  BY <1>0, <1>1 DEF RevisionsOK
<1>7. PubsOK'
  <2>1. \A p \in RlPubs : rlPub[p].rev \in Nat /\ rlPub[p].rev <= rlRev + 1
    <3> TAKE p \in RlPubs
    <3>1. rlPub[p] \in RlPubStates /\ PubOK(p) /\ rlRev \in Nat
      BY <1>0 DEF PubsOK, RevisionsOK
    <3>2. rlPub[p].rev \in Nat /\ rlPub[p].rev <= rlRev
      BY <3>1 DEF RlPubStates, PubOK
    <3> QED
      BY <3>1, <3>2
  <2> QED
    BY <1>0, <1>1, <1>3, <2>1 DEF PubsOK, PubOK, PublishingHasPublisher
<1>8. DomainOK' /\ LoopsOK'
  BY <1>0, <1>1, <1>4 DEF DomainOK, LoopsOK, rlControl, rlReconnect
<1> QED
  BY <1>3, <1>5, <1>6, <1>7, <1>8 DEF RlInv

LEMMA EnvironmentRefreshKeeps ==
  ASSUME RlInv, NEW c \in RlCommands, EnvironmentRefresh(c)
  PROVE  RlInv'
<1>0. DomainOK /\ CmdsOK /\ LoopsOK /\ ClientsOK /\ RevisionsOK /\ PubsOK
  BY DEF RlInv
<1>1. /\ rlCmd[c].pc = "refresh" /\ rlCmd' = [rlCmd EXCEPT ![c].pc = "publish"]
      /\ rlBundle' = rlRev /\ rlPub' = [rlPub EXCEPT ![c].pc = "start"]
      /\ UNCHANGED <<rlControl, rlReconnect, rlRev, rlState, rlServer>>
  BY DEF EnvironmentRefresh
<1>2. PICK r \in RlCmds : rlCmd' = [rlCmd EXCEPT ![c] = r] /\ r.pc = "publish" /\ r.client = rlCmd[c].client
  BY <1>0, <1>1, CmdStage
<1>3. /\ CmdsOK' /\ (\A d \in RlCommands : rlCmd'[d].client = rlCmd[d].client)
      /\ \A d \in RlCommands : rlCmd'[d].pc = "publish" \/ rlPub[d] = NoPub
  BY <1>0, <1>1, <1>2, CmdMoves
<1>4. /\ SameHolders /\ UNCHANGED <<rlSlot, rlClient, rlConsumer, rlLoop>>
  BY <1>1, <1>3 DEF SameHolders, rlControl, rlReconnect
<1>5. c \in RlPubs /\ c \notin RlClients /\ rlPub[c] = NoPub
  BY <1>0, <1>1, RelayControlAssumption DEF RlPubs, RlCommands, PubsOK
<1>6. /\ DOMAIN rlPub' = RlPubs /\ rlPub' = [p \in RlPubs |-> rlPub'[p]]
      /\ rlPub'[c] = [NoPub EXCEPT !.pc = "start"]
      /\ \A p \in RlPubs : p # c => rlPub'[p] = rlPub[p]
  BY <1>0, <1>1, <1>5 DEF PubsOK
<1>7. rlPub'[c] = [pc |-> "start", client |-> RlNone, rev |-> 0, bundle |-> 0, tries |-> 0]
  BY <1>6 DEF NoPub
<1>8. ClientsOK'
  <2>1. \A n \in RlClients : rlPub'[n] = rlPub[n]
    BY <1>5, <1>6 DEF RlPubs
  <2> QED
    BY <1>0, <1>4, <2>1, ClientsFrame
<1>9. RevisionsOK'
  BY <1>0, <1>1 DEF RevisionsOK
<1>10. PubsOK'
  <2>1. rlPub'[c] \in RlPubStates
    BY <1>7 DEF RlPubStates, RlAnyClient
  <2>2. \A p \in RlPubs : rlPub'[p] \in RlPubStates
    BY <1>0, <1>6, <2>1 DEF PubsOK
  <2>3. rlPub' \in [RlPubs -> RlPubStates]
    BY <1>6, <2>2
  <2>4. rlRev \in Nat /\ RlAttempts \in Nat \ {0}
    BY <1>0, RelayControlAssumption DEF RevisionsOK
  <2>5. rlPub'[c].rev <= rlRev /\ rlPub'[c].bundle <= rlPub'[c].rev /\ rlPub'[c].tries < RlAttempts
    BY <1>7, <2>4
  <2>6. \A p \in RlPubs : rlPub'[p].rev <= rlRev' /\ rlPub'[p].bundle <= rlPub'[p].rev
                          /\ rlPub'[p].tries < RlAttempts
    BY <1>0, <1>1, <1>6, <2>5 DEF PubsOK, PubOK
  <2>7. \A d \in RlCommands : rlCmd'[d].pc = "publish" \/ rlPub'[d] = NoPub
    <3>1. rlCmd'[c].pc = "publish"
      BY <1>0, <1>2 DEF CmdsOK
    <3> QED
      BY <1>3, <1>6, <3>1 DEF RlPubs
  <2>8. PublishingHasPublisher'
    <3> SUFFICES ASSUME rlState = "publishing"
                 PROVE  \E p \in RlPubs : rlPub'[p].pc \in {"send", "acked", "failed"}
      BY <1>1 DEF PublishingHasPublisher
    <3>1. PICK p \in RlPubs : rlPub[p].pc \in {"send", "acked", "failed"}
      BY <1>0 DEF PubsOK, PublishingHasPublisher
    <3>2. p # c
      BY <1>5, <3>1 DEF NoPub
    <3> QED
      BY <1>6, <3>1, <3>2
  <2>9. rlState' \in {"idle", "publishing", "published", "degraded"}
    BY <1>0, <1>1 DEF PubsOK
  <2> QED
    BY <2>3, <2>6, <2>7, <2>8, <2>9 DEF PubsOK, PubOK
<1>11. DomainOK' /\ LoopsOK'
  BY <1>0, <1>1, <1>4 DEF DomainOK, LoopsOK, rlControl, rlReconnect
<1> QED
  BY <1>3, <1>8, <1>9, <1>10, <1>11 DEF RlInv

\* A step of one publication under way, whatever becomes of the relay's copy.
LEMMA PubMoves ==
  ASSUME RlInv, NEW p \in RlPubs, rlPub[p].pc # "none", NEW r \in RlPubStates,
         rlPub' = [rlPub EXCEPT ![p] = r],
         r.rev <= rlRev, r.bundle <= r.rev, r.tries < RlAttempts,
         rlState' \in {"idle", "publishing", "published", "degraded"},
         rlState' = "publishing" =>
            \/ r.pc \in {"send", "acked", "failed"}
            \/ rlState = "publishing" /\ rlPub[p].pc = "start",
         UNCHANGED <<rlControl, rlReconnect, rlCmd, rlRev, rlBundle>>, RevisionsOK'
  PROVE  RlInv'
<1>0. DomainOK /\ CmdsOK /\ LoopsOK /\ ClientsOK /\ RevisionsOK /\ PubsOK
  BY DEF RlInv
<1>1. rlPub' \in [RlPubs -> RlPubStates] /\ rlPub'[p] = r /\ \A q \in RlPubs : q # p => rlPub'[q] = rlPub[q]
  BY <1>0 DEF PubsOK
<1>2. rlPub[p] # NoPub
  BY DEF NoPub
<1>3. SameHolders /\ UNCHANGED <<rlSlot, rlClient, rlConsumer, rlLoop>>
  BY DEF SameHolders, rlControl, rlReconnect
<1>4. \A n \in RlClients : CmdHolds(n) \/ LoopHolds(n) => rlPub'[n] = rlPub[n]
  BY <1>0, <1>1, <1>2 DEF ClientsOK, Fresh, RlPubs
<1>5. ClientsOK'
  BY <1>0, <1>3, <1>4, ClientsFrame
<1>6. PubsOK'
  <2>1. \A q \in RlPubs : rlPub'[q].rev <= rlRev' /\ rlPub'[q].bundle <= rlPub'[q].rev
                          /\ rlPub'[q].tries < RlAttempts
    BY <1>0, <1>1 DEF PubsOK, PubOK
  <2>2. \A d \in RlCommands : rlCmd'[d].pc = "publish" \/ rlPub'[d] = NoPub
    BY <1>0, <1>1, <1>2 DEF PubsOK, RlPubs
  <2>3. PublishingHasPublisher'
    <3> SUFFICES ASSUME rlState' = "publishing"
                 PROVE  \E q \in RlPubs : rlPub'[q].pc \in {"send", "acked", "failed"}
      BY DEF PublishingHasPublisher
    <3>1. CASE r.pc \in {"send", "acked", "failed"}
      BY <1>1, <3>1
    <3>2. CASE rlState = "publishing" /\ rlPub[p].pc = "start"
      <4>1. PICK q \in RlPubs : rlPub[q].pc \in {"send", "acked", "failed"}
        BY <1>0, <3>2 DEF PubsOK, PublishingHasPublisher
      <4> QED
        BY <1>1, <3>2, <4>1
    <3> QED
      BY <3>1, <3>2
  <2> QED
    BY <1>1, <2>1, <2>2, <2>3 DEF PubsOK, PubOK
<1>7. DomainOK' /\ LoopsOK' /\ CmdsOK'
  BY <1>0, <1>3 DEF DomainOK, LoopsOK, CmdsOK, rlControl, rlReconnect
<1> QED
  BY <1>5, <1>6, <1>7 DEF RlInv

LEMMA NoPubOK ==
  ASSUME RlInv
  PROVE  NoPub \in RlPubStates /\ NoPub.rev <= rlRev /\ NoPub.bundle <= NoPub.rev /\ NoPub.tries < RlAttempts
<1>1. rlRev \in Nat /\ RlAttempts \in Nat \ {0}
  BY RelayControlAssumption DEF RlInv, RevisionsOK
<1> QED
  BY <1>1 DEF NoPub, RlPubStates, RlAnyClient

LEMMA EndPublishKeeps ==
  ASSUME RlInv, NEW p \in RlPubs, rlPub[p].pc # "none", NEW state, EndPublish(p, state),
         state \in {"published", "degraded"} \/ (state = rlState /\ rlPub[p].pc = "start"),
         UNCHANGED <<rlControl, rlReconnect, rlCmd, rlRev, rlBundle, rlServer>>
  PROVE  RlInv'
<1>1. RevisionsOK'
  BY RevisionsFrame DEF RlInv
<1>2. rlState \in {"idle", "publishing", "published", "degraded"}
  BY DEF RlInv, PubsOK
<1> QED
  BY <1>1, <1>2, NoPubOK, PubMoves DEF EndPublish

LEMMA PublishStartKeeps ==
  ASSUME RlInv, NEW p \in RlPubs, PublishStart(p)
  PROVE  RlInv'
<1>1. rlPub[p].pc = "start" /\ UNCHANGED <<rlControl, rlReconnect, rlCmd, rlRev, rlBundle, rlServer>>
  BY DEF PublishStart
<1>2. CASE EndPublish(p, rlState)
  BY <1>1, <1>2, EndPublishKeeps
<1>3. CASE /\ rlPub' = [rlPub EXCEPT ![p] = [pc |-> "send", client |-> rlSlot, rev |-> rlRev,
                                             bundle |-> rlBundle, tries |-> 0]]
           /\ rlState' = "publishing"
  <2> DEFINE r == [pc |-> "send", client |-> rlSlot, rev |-> rlRev, bundle |-> rlBundle, tries |-> 0]
  <2>1. rlRev \in Nat /\ rlBundle \in Nat /\ rlBundle <= rlRev /\ RlAttempts \in Nat \ {0}
    BY RelayControlAssumption DEF RlInv, RevisionsOK
  <2>2. r \in RlPubStates
    BY <2>1 DEF RlPubStates, RlInv, ClientsOK
  <2>3. r.rev <= rlRev /\ r.bundle <= r.rev /\ r.tries < RlAttempts /\ r.pc = "send"
    BY <2>1
  <2>4. RevisionsOK'
    BY <1>1, RevisionsFrame DEF RlInv
  <2>5. rlPub' = [rlPub EXCEPT ![p] = r]
    BY <1>3
  <2> HIDE DEF r
  <2> QED
    BY <1>1, <1>3, <2>2, <2>3, <2>4, <2>5, PubMoves
<1> QED
  BY <1>2, <1>3 DEF PublishStart

\* The next stage of a publication, with what it sends as it was.
LEMMA PubStage ==
  ASSUME PubsOK, NEW p \in RlPubs, NEW pc \in {"acked", "failed"}, rlPub' = [rlPub EXCEPT ![p].pc = pc]
  PROVE  \E r \in RlPubStates :
            /\ rlPub' = [rlPub EXCEPT ![p] = r] /\ r.pc = pc /\ r.rev = rlPub[p].rev
            /\ r.bundle = rlPub[p].bundle /\ r.tries = rlPub[p].tries
<1> DEFINE r == [rlPub[p] EXCEPT !.pc = pc]
<1>1. rlPub[p] \in RlPubStates
  BY DEF PubsOK
<1>2. /\ r \in RlPubStates /\ r.pc = pc /\ r.rev = rlPub[p].rev
      /\ r.bundle = rlPub[p].bundle /\ r.tries = rlPub[p].tries
  BY <1>1 DEF RlPubStates
<1>3. rlPub' = [rlPub EXCEPT ![p] = r]
  BY DEF PubsOK
<1> HIDE DEF r
<1> QED
  BY <1>2, <1>3

LEMMA PublishSendKeeps ==
  ASSUME RlInv, NEW p \in RlPubs, PublishSend(p)
  PROVE  RlInv'
<1>0. PubsOK /\ RevisionsOK /\ PubOK(p) /\ rlPub[p] \in RlPubStates
  BY DEF RlInv, PubsOK
<1>1. /\ rlPub[p].pc = "send" /\ UNCHANGED <<rlControl, rlReconnect, rlCmd, rlRev, rlBundle, rlState>>
      /\ rlServer' = IF Accepts(p)
                     THEN [rlServer EXCEPT !.rev = rlPub[p].rev, !.bundle = rlPub[p].bundle]
                     ELSE rlServer
  BY DEF PublishSend
<1>2. \E pc \in {"acked", "failed"} : rlPub' = [rlPub EXCEPT ![p].pc = pc]
  BY DEF PublishSend
<1>3. PICK r \in RlPubStates :
        /\ rlPub' = [rlPub EXCEPT ![p] = r] /\ r.pc \in {"acked", "failed"} /\ r.rev = rlPub[p].rev
        /\ r.bundle = rlPub[p].bundle /\ r.tries = rlPub[p].tries
  <2>1. PICK pc \in {"acked", "failed"} : rlPub' = [rlPub EXCEPT ![p].pc = pc]
    BY <1>2
  <2> QED
    BY <1>0, <2>1, PubStage
<1>4. r.rev <= rlRev /\ r.bundle <= r.rev /\ r.tries < RlAttempts
  BY <1>0, <1>3 DEF PubOK
<1>5. rlServer'.rev \in Nat /\ rlServer'.bundle \in Nat /\ rlServer'.rev <= rlRev
      /\ rlServer'.bundle <= rlServer'.rev /\ rlServer' \in [owner : RlAnyClient, rev : Nat, bundle : Nat]
  <2>1. rlPub[p].rev \in Nat /\ rlPub[p].bundle \in Nat
    BY <1>0 DEF RlPubStates
  <2>2. CASE Accepts(p)
    <3>1. rlServer' = [owner |-> rlServer.owner, rev |-> rlPub[p].rev, bundle |-> rlPub[p].bundle]
      BY <1>0, <1>1, <2>2 DEF RevisionsOK
    <3> QED
      BY <1>0, <2>1, <3>1 DEF PubOK, RevisionsOK
  <2>3. CASE ~Accepts(p)
    BY <1>0, <1>1, <2>3 DEF RevisionsOK
  <2> QED
    BY <2>2, <2>3
<1>6. RevisionsOK'
  BY <1>0, <1>1, <1>5 DEF RevisionsOK
<1>7. rlState' \in {"idle", "publishing", "published", "degraded"}
  BY <1>0, <1>1 DEF PubsOK
<1> QED
  BY <1>1, <1>3, <1>4, <1>6, <1>7, PubMoves

LEMMA PublishRetriesKeeps ==
  ASSUME RlInv, NEW p \in RlPubs, PublishRetries(p)
  PROVE  RlInv'
<1>1. rlPub[p].pc = "failed" /\ UNCHANGED <<rlControl, rlReconnect, rlCmd, rlRev, rlBundle, rlServer>>
  BY DEF PublishRetries
<1>2. CASE EndPublish(p, StateDegraded)
  BY <1>1, <1>2, EndPublishKeeps DEF StateDegraded
<1>3. CASE /\ MayRetry(p) /\ UNCHANGED rlState
           /\ rlPub' = [rlPub EXCEPT ![p].pc = "send", ![p].tries = @ + 1]
  <2> DEFINE r == [pc |-> "send", client |-> rlPub[p].client, rev |-> rlPub[p].rev,
                   bundle |-> rlPub[p].bundle, tries |-> rlPub[p].tries + 1]
             staged == [rlPub EXCEPT ![p].pc = "send"]
  <2>1. PubsOK /\ PubOK(p) /\ rlPub[p] \in RlPubStates
    BY DEF RlInv, PubsOK
  <2>2. rlPub' = [rlPub EXCEPT ![p] = r]
    <3>1. rlPub' = [staged EXCEPT ![p].tries = @ + 1]
      BY <1>3
    <3>2. /\ staged = [q \in RlPubs |-> staged[q]] /\ staged[p] = [rlPub[p] EXCEPT !.pc = "send"]
          /\ \A q \in RlPubs : q # p => staged[q] = rlPub[q]
      BY <2>1 DEF PubsOK
    <3>3. staged[p] = [pc |-> "send", client |-> rlPub[p].client, rev |-> rlPub[p].rev,
                       bundle |-> rlPub[p].bundle, tries |-> rlPub[p].tries]
      BY <2>1, <3>2 DEF RlPubStates
    <3> HIDE DEF staged
    <3>4. rlPub' = [q \in RlPubs |-> IF q = p THEN [staged[p] EXCEPT !.tries = @ + 1] ELSE staged[q]]
      BY <3>1, <3>2
    <3>5. [staged[p] EXCEPT !.tries = @ + 1] = r
      BY <3>3
    <3> HIDE DEF r
    <3> QED
      BY <2>1, <3>2, <3>4, <3>5 DEF PubsOK
  <2>3. r \in RlPubStates
    BY <2>1 DEF RlPubStates
  <2>4. r.rev <= rlRev /\ r.bundle <= r.rev /\ r.tries < RlAttempts /\ r.pc = "send"
    BY <1>3, <2>1 DEF PubOK, MayRetry
  <2> HIDE DEF r
  <2>5. RevisionsOK' /\ rlState' \in {"idle", "publishing", "published", "degraded"}
    BY <1>1, <1>3, <2>1, RevisionsFrame DEF RlInv, PubsOK
  <2> QED
    BY <1>1, <2>2, <2>3, <2>4, <2>5, PubMoves
<1> QED
  BY <1>2, <1>3 DEF PublishRetries

LEMMA PublishStepKeeps ==
  ASSUME RlInv, NEW p \in RlPubs, RlPublishStep(p)
  PROVE  RlInv'
<1>1. CASE PublishUnavailable(p)
  BY <1>1, EndPublishKeeps DEF PublishUnavailable, StateDegraded
<1>2. CASE PublishAcked(p)
  BY <1>2, EndPublishKeeps DEF PublishAcked
<1> QED
  BY <1>1, <1>2, PublishStartKeeps, PublishSendKeeps, PublishRetriesKeeps DEF RlPublishStep

-----------------------------------------------------------------------------
(* The theorem                                                             *)

LEMMA RlInvInit ==
  ASSUME RelayControlInit PROVE RlInv
<1>1. DomainOK
  BY DEF RelayControlInit, DomainOK
<1>2. CmdsOK /\ \A c \in RlCommands : rlCmd[c].client = RlNone
  BY DEF RelayControlInit, CmdsOK, RlCmds, RlAnyClient
<1>3. LoopsOK /\ \A k \in RlLoops : rlLoop[k].client = RlNone
  BY DEF RelayControlInit, LoopsOK, RlLoopStates, RlAnyClient, Resting
<1>4. ClientsOK
  <2>1. \A n \in RlClients : ~CmdHolds(n) /\ ~LoopHolds(n)
    BY <1>2, <1>3, NoneIsNoClient DEF CmdHolds, LoopHolds
  <2> QED
    BY <2>1 DEF RelayControlInit, ClientsOK, SlotHasConsumer, RlAnyClient
<1>5. RevisionsOK
  BY DEF RelayControlInit, RevisionsOK, RlAnyClient
<1>6. PubsOK
  <2>1. RlAttempts \in Nat \ {0}
    BY RelayControlAssumption
  <2>2. NoPub \in RlPubStates
    BY DEF NoPub, RlPubStates, RlAnyClient
  <2>3. \A p \in RlPubs : rlPub[p] = NoPub
    BY DEF RelayControlInit
  <2>4. rlPub \in [RlPubs -> RlPubStates]
    BY <2>2 DEF RelayControlInit
  <2>5. \A p \in RlPubs : PubOK(p)
    BY <2>1, <2>3 DEF RelayControlInit, PubOK, NoPub
  <2>6. \A c \in RlCommands : rlPub[c] = NoPub
    BY <2>3 DEF RlPubs
  <2> QED
    BY <2>4, <2>5, <2>6 DEF RelayControlInit, PubsOK, PublishingHasPublisher
<1> QED
  BY <1>1, <1>2, <1>3, <1>4, <1>5, <1>6 DEF RlInv

LEMMA RlInvStep ==
  ASSUME RlInv, [RelayControlNext]_rlVars PROVE RlInv'
<1>1. ASSUME NEW c \in RlCommands, RlCommandStep(c) PROVE RlInv'
  BY <1>1, StopFlagKeeps, StopTakenKeeps, ClearConfigKeeps, DropControlKeeps, SetConfigKeeps,
     ConfigureFailsKeeps, ConfigureConnectsKeeps, ConfigureInstallsKeeps, EnvironmentBumpKeeps,
     EnvironmentRefreshKeeps, EnvironmentDoneKeeps DEF RlCommandStep
<1>2. ASSUME NEW k \in RlLoops, RlLoopStep(k) PROVE RlInv'
  BY <1>2, LoopStepsKeep, LoopFailsKeeps, LoopConnectsKeeps, LoopInstallsKeeps DEF RlLoopStep
<1>3. ASSUME NEW n \in RlClients, RlConsumerStep(n) \/ ClientLost(n) PROVE RlInv'
  BY <1>3, ConsumerEmptiesKeeps, ConsumerSchedulesKeeps, ClientLostKeeps DEF RlConsumerStep
<1>4. CASE UNCHANGED rlVars
  BY <1>4 DEF RlInv, DomainOK, CmdsOK, LoopsOK, ClientsOK, SlotHasConsumer, Fresh, CmdHolds, LoopHolds,
     RevisionsOK, PubsOK, PubOK, PublishingHasPublisher, rlVars
<1>5. ASSUME NEW c \in RlCommands, NEW op \in RlOps, CommandStart(c, op) PROVE RlInv'
  BY <1>5, CommandStartKeeps
<1>6. ASSUME NEW p \in RlPubs, RlPublishStep(p) PROVE RlInv'
  BY <1>6, PublishStepKeeps
<1> QED
  BY <1>1, <1>2, <1>3, <1>4, <1>5, <1>6 DEF RelayControlNext

LEMMA RlInvImplies ==
  ASSUME RlInv PROVE SlotConsistent
<1>1. \A k \in RlLoops : rlLoop[k].pc \in {"none", "sleep", "dial", "install", "resume", "ending", "ended"}
  <2> TAKE k \in RlLoops
  <2>1. rlLoop[k] \in RlLoopStates
    BY DEF RlInv, LoopsOK
  <2> QED
    BY <2>1 DEF RlLoopStates
<1>2. RelayControlTypeOK
  BY <1>1 DEF RlInv, RelayControlTypeOK, DomainOK, LoopsOK, ClientsOK, RevisionsOK, PubsOK, PubOK, RlAnyClient
<1> QED
  BY <1>2 DEF RlInv, SlotConsistent, ClientsOK, PubsOK

\* The domain state of the relay connection is looked after, however ConfigureRelay
\* tasks, reconnect loops, consumers and publications overlap: a client in the slot
\* has a running consumer (setup_v2_control_plane spawns it, consume_control_events takes
\* the client out before the consumer ends), and "publishing" is shown only while a
\* publish call is under way.
THEOREM SlotStaysConsistent == RelayControlSpec => []SlotConsistent
<1>1. RelayControlInit => RlInv
  BY RlInvInit
<1>2. RlInv /\ [RelayControlNext]_rlVars => RlInv'
  BY RlInvStep
<1>3. RlInv => SlotConsistent
  BY RlInvImplies
<1> QED
  BY <1>1, <1>2, <1>3, PTL DEF RelayControlSpec

\* A step that leaves a loop where it is or in a stage that is not "ending".
LoopNotEnding(k) == rlLoop'[k].pc = "ending" => rlLoop[k].pc = "ending"
MayEnd(k) == rlStale' \/ ~rlConfig \/ rlSlot # RlNone \/ rlLoop[k].pc = "resume"

LEMMA ScheduleEndsNone ==
  ASSUME LoopsOK, NEW loops, Alike(loops), ScheduleReconnect(loops),
         \A k \in RlLoops : loops[k].pc = "ending" => rlLoop[k].pc = "ending"
  PROVE  \A k \in RlLoops : LoopNotEnding(k)
<1>1. CASE rlActive \/ rlStale
  BY <1>1 DEF ScheduleReconnect, LoopNotEnding
<1>2. CASE ~(rlActive \/ rlStale)
  <2> DEFINE j == CHOOSE j \in FreeLoops : TRUE
  <2>1. FreeLoops # {} /\ rlLoop' = [loops EXCEPT ![j].pc = "sleep"]
    BY <1>2 DEF ScheduleReconnect
  <2>2. j \in RlLoops
    BY <2>1 DEF FreeLoops
  <2> HIDE DEF j
  <2>3. loops[j] \in RlLoopStates /\ loops \in [RlLoops -> RlLoopStates]
    BY <2>2 DEF Alike
  <2>4. rlLoop'[j] = [loops[j] EXCEPT !.pc = "sleep"] /\ \A k \in RlLoops : k # j => rlLoop'[k] = loops[k]
    BY <2>1, <2>2, <2>3
  <2>5. rlLoop'[j].pc = "sleep"
    BY <2>3, <2>4 DEF RlLoopStates
  <2> QED
    BY <2>4, <2>5 DEF LoopNotEnding
<1> QED
  BY <1>1, <1>2

LEMMA LoopToReads ==
  ASSUME LoopsOK, NEW k \in RlLoops, NEW pc, LoopTo(k, pc)
  PROVE  rlLoop'[k].pc = pc /\ \A j \in RlLoops : j # k => rlLoop'[j] = rlLoop[j]
<1>1. rlLoop[k] \in RlLoopStates /\ rlLoop \in [RlLoops -> RlLoopStates]
  BY DEF LoopsOK
<1>2. rlLoop'[k] = [rlLoop[k] EXCEPT !.pc = pc] /\ \A j \in RlLoops : j # k => rlLoop'[j] = rlLoop[j]
  BY <1>1 DEF LoopTo
<1> QED
  BY <1>1, <1>2 DEF RlLoopStates

LEMMA LoopEndsForAReason ==
  ASSUME RlInv, [RelayControlNext]_rlVars
  PROVE  \A k \in RlLoops : LoopNotEnding(k) \/ MayEnd(k)
<1>0. LoopsOK /\ Alike(rlLoop)
  BY AlikeSame DEF RlInv
<1>1. ASSUME NEW c \in RlCommands, RlCommandStep(c) PROVE \A k \in RlLoops : LoopNotEnding(k)
  <2>1. CASE UNCHANGED rlLoop
    BY <2>1 DEF LoopNotEnding
  <2>2. CASE StopTaken(c)
    BY <1>0, <2>2 DEF StopTaken, LoopNotEnding, Resting
  <2>3. CASE ConfigureFails(c)
    <3>1. UNCHANGED rlLoop \/ ScheduleReconnect(rlLoop)
      BY <2>3 DEF ConfigureFails, rlReconnect
    <3> QED
      BY <1>0, <2>1, <3>1, ScheduleEndsNone
  <2> QED
    BY <1>1, <2>1, <2>2, <2>3 DEF RlCommandStep, StopFlag, ClearConfig, DropControl, SetConfig,
       ConfigureConnects, ConfigureInstalls, EnvironmentBump, EnvironmentRefresh, EnvironmentDone, rlReconnect
<1>2. ASSUME NEW k \in RlLoops, RlLoopStep(k) PROVE \A j \in RlLoops : LoopNotEnding(j) \/ MayEnd(j)
  <2>1. CASE StoreTask(k)
    BY <2>1 DEF StoreTask, LoopNotEnding
  <2>2. CASE LoopWakes(k)
    <3> DEFINE pc == IF rlStale \/ ~rlConfig \/ rlSlot # RlNone THEN "ending" ELSE "dial"
    <3>1. LoopTo(k, pc) /\ rlStale' = rlStale
      BY <2>2 DEF LoopWakes, rlControl
    <3>2. rlLoop'[k].pc = pc /\ \A j \in RlLoops : j # k => rlLoop'[j] = rlLoop[j]
      BY <1>0, <3>1, LoopToReads
    <3> QED
      BY <3>1, <3>2 DEF LoopNotEnding, MayEnd
  <2>3. CASE LoopFails(k)
    <3>1. CASE rlStale' = TRUE /\ LoopTo(k, "ending")
      <4>1. \A j \in RlLoops : j # k => rlLoop'[j] = rlLoop[j]
        BY <1>0, <3>1, LoopToReads
      <4> QED
        BY <3>1, <4>1 DEF LoopNotEnding, MayEnd
    <3>2. CASE ScheduleReconnect(AfterFailure(k))
      <4> DEFINE loops == AfterFailure(k)
      <4>1. loops = [rlLoop EXCEPT ![k].pc = "sleep"] /\ ScheduleReconnect(loops)
        BY <3>2 DEF AfterFailure
      <4>2. rlLoop[k] \in RlLoopStates /\ rlLoop[k].pc = "dial"
        BY <1>0, <2>3 DEF LoopsOK, LoopFails
      <4>3. loops[k] = [rlLoop[k] EXCEPT !.pc = "sleep"] /\ \A j \in RlLoops : j # k => loops[j] = rlLoop[j]
        BY <1>0, <4>1 DEF LoopsOK
      <4>4. loops[k].pc = "sleep"
        BY <4>2, <4>3 DEF RlLoopStates
      <4> HIDE DEF loops
      <4>5. Alike(loops)
        BY <1>0, <4>1, <4>2, AlikeStage
      <4> QED
        BY <1>0, <4>1, <4>3, <4>4, <4>5, ScheduleEndsNone
    <3> QED
      BY <2>3, <3>1, <3>2 DEF LoopFails
  <2>4. CASE LoopConnects(k) \/ LoopInstalls(k)
    <3>1. \E r : rlLoop' = [rlLoop EXCEPT ![k] = r] /\ r.pc # "ending"
      BY <2>4 DEF LoopConnects, LoopInstalls
    <3>2. PICK r : rlLoop' = [rlLoop EXCEPT ![k] = r] /\ r.pc # "ending"
      BY <3>1
    <3> QED
      BY <1>0, <3>2 DEF LoopsOK, LoopNotEnding
  <2>5. CASE LoopResumed(k)
    <3>1. \A j \in RlLoops : j # k => rlLoop'[j] = rlLoop[j]
      BY <1>0, <2>5, LoopToReads DEF LoopResumed
    <3> QED
      BY <2>5, <3>1 DEF LoopResumed, LoopNotEnding, MayEnd
  <2>6. CASE LoopEnds(k) \/ LoopForgets(k)
    <3>1. (rlLoop'[k].pc # "ending") /\ \A j \in RlLoops : j # k => rlLoop'[j] = rlLoop[j]
      BY <1>0, <2>6, LoopToReads DEF LoopEnds, LoopForgets
    <3> QED
      BY <3>1 DEF LoopNotEnding
  <2> QED
    BY <1>2, <2>1, <2>2, <2>3, <2>4, <2>5, <2>6 DEF RlLoopStep
<1>3. ASSUME NEW n \in RlClients, RlConsumerStep(n) \/ ClientLost(n)
      PROVE  \A k \in RlLoops : LoopNotEnding(k)
  <2>1. UNCHANGED rlLoop \/ ScheduleReconnect(rlLoop)
    BY <1>3 DEF RlConsumerStep, ConsumerEmpties, ConsumerSchedules, ClientLost, rlReconnect
  <2>2. CASE UNCHANGED rlLoop
    BY <2>2 DEF LoopNotEnding
  <2> QED
    BY <1>0, <2>1, <2>2, ScheduleEndsNone
<1>4. CASE UNCHANGED rlLoop
  BY <1>4 DEF LoopNotEnding
<1>5. ASSUME NEW c \in RlCommands, NEW op \in RlOps, CommandStart(c, op) PROVE UNCHANGED rlLoop
  BY <1>5 DEF CommandStart, rlReconnect
<1>6. ASSUME NEW p \in RlPubs, RlPublishStep(p) PROVE UNCHANGED rlLoop
  BY <1>6 DEF RlPublishStep, PublishStart, PublishSend, PublishUnavailable, PublishAcked, PublishRetries, rlReconnect
<1>7. CASE UNCHANGED rlVars
  BY <1>4, <1>7 DEF rlVars
<1> QED
  BY <1>1, <1>2, <1>3, <1>4, <1>5, <1>6, <1>7 DEF RelayControlNext

\* The loop of schedule_relay_reconnect does not give up: it ends only once a client is in the slot,
\* the configuration is gone or the credential is stale, whichever task changed them;
\* a failed dial is never the reason.
THEOREM ReconnectDoesNotGiveUp == RelayControlSpec => RetriesUntilConnected
<1>1. RelayControlInit => RlInv
  BY RlInvInit
<1>2. RlInv /\ [RelayControlNext]_rlVars => RlInv'
  BY RlInvStep
<1>3. ASSUME RlInv, [RelayControlNext]_rlVars
      PROVE  [\A k \in RlLoops :
                (rlLoop[k].pc # "ending" /\ rlLoop'[k].pc = "ending")
                   => \/ rlStale' \/ ~rlConfig \/ rlSlot # RlNone \/ rlLoop[k].pc = "resume"]_rlVars
  BY <1>3, LoopEndsForAReason DEF LoopNotEnding, MayEnd
<1> QED
  BY <1>1, <1>2, <1>3, PTL DEF RelayControlSpec, RetriesUntilConnected
=============================================================================
