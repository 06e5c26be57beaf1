------------------------- MODULE SouthRuntime_proofs -------------------------
(***************************************************************************)
(* Proofs about SouthRuntime, for any sets of connections, groups, callers *)
(* and runtimes and any limit of concurrent reads.  IInv is inductive: one *)
(* lemma per conjunct says that a step which starts in IInv preserves it,  *)
(* with a case for each action; a family of actions that is out of the     *)
(* conjunct's way is one step.  The safety properties are consequences of  *)
(* IInv in one state.                                                      *)
(***************************************************************************)
EXTENDS SouthRuntime, TLAPS, FiniteSetTheorems

(* Types.                                                                  *)
(* Only an edit touches the rows, and only with rows the store may hold.   *)
LEMMA StoreTypeStep ==
    IInv /\ [Next]_vars => StoreType'
<1> SUFFICES ASSUME IInv, [Next]_vars PROVE StoreType'
  OBVIOUS
<1> USE DEF IInv, TypeOK, StoreType, TopoType, UsersType, OpType, OpShape,
        Users, Actors, Idle, store, owed, grs, topo, users, links, what, todo,
        op, vars
<1>1. ASSUME Environment PROVE StoreType'
  <2>1. ASSUME NEW c \in Conns, EditConn(c) PROVE StoreType'
    BY <2>1, Bounds DEF EditConn
  <2>2. ASSUME NEW g \in Groups, EditGroup(g) PROVE StoreType'
    BY <2>2, Bounds DEF EditGroup
  <2>3. ASSUME NEW rt \in Rts, LinkLost(rt) PROVE StoreType'
    BY <2>3 DEF LinkLost
  <2>4. QED
    BY <1>1, <2>1, <2>2, <2>3 DEF Environment
<1>2. ASSUME NEW g \in Groups, Collect(g) PROVE StoreType'
  BY <1>2 DEF Collect, Tick, WorkerExit, CollectAcquire, AcquireCancelled,
      Leave, TakeSlot, SlotCancelled, Release, ReadDone, DriverReturns,
      ProbeDone
<1>3. ASSUME NEW p \in Callers, Call(p) PROVE StoreType'
  BY <1>3 DEF Call, CallerLookup, CallerAcquire, CallerTimeout, Leave,
      CallDone, Release, DriverReturns
<1>4. ASSUME BeginOp PROVE StoreType'
  BY <1>4 DEF BeginOp, ReloadConnection, Create, Referenced,
      DisableConnection, RemoveConn, UnloadConnection, Reload, Stop
<1>5. ASSUME OpStep PROVE StoreType'
  BY <1>5 DEF OpStep, BootConn, Create, Referenced, BootConnFails, ConnectOk,
      ConnectFailed, Discard, Return, Publish, NextPhase, CloseAcquire,
      CloseDone, CloseFinished, ListGroups, ListGroupsFails, GroupsStarted,
      StartGroup, Launch, GroupConn, SkipGroup, StartGroupFails, Drained,
      Forget, CancelOld, RemoveOld, ReloadedRow, LaunchNew
<1>6. CASE UNCHANGED vars
  BY <1>6
<1>7. QED
  BY <1>1, <1>2, <1>3, <1>4, <1>5, <1>6 DEF Next

(* A group is launched on a connection that exists.                        *)
LEMMA TopoTypeStep ==
    IInv /\ [Next]_vars => TopoType'
<1> SUFFICES ASSUME IInv, [Next]_vars PROVE TopoType'
  OBVIOUS
<1> USE DEF IInv, TypeOK, StoreType, TopoType, UsersType, OpType, OpShape,
        Users, Actors, Idle, store, owed, grs, topo, users, links, what, todo,
        op, vars
<1>1. ASSUME Environment PROVE TopoType'
  BY <1>1 DEF Environment, EditConn, EditGroup, LinkLost
<1>2. ASSUME NEW g \in Groups, Collect(g) PROVE TopoType'
  BY <1>2 DEF Collect, Tick, WorkerExit, CollectAcquire, AcquireCancelled,
      Leave, TakeSlot, SlotCancelled, Release, ReadDone, DriverReturns,
      ProbeDone
<1>3. ASSUME NEW p \in Callers, Call(p) PROVE TopoType'
  BY <1>3 DEF Call, CallerLookup, CallerAcquire, CallerTimeout, Leave,
      CallDone, Release, DriverReturns
<1>4. ASSUME BeginOp PROVE TopoType'
  <2>1. ASSUME NEW c \in Conns, NEW rt \in Rts, ReloadConnection(c, rt)
        PROVE  TopoType'
    BY <2>1 DEF ReloadConnection
  <2>2. ASSUME NEW c \in Conns, DisableConnection(c) \/ UnloadConnection(c)
        PROVE  TopoType'
    <3>1. /\ conns' = [conns EXCEPT ![c] = None]
          /\ groups' \subseteq groups
          /\ cancelled' \in [Groups -> BOOLEAN]
          /\ UNCHANGED <<started, grConn, grRt, grTagged>>
      BY <2>2 DEF DisableConnection, UnloadConnection, RemoveConn
    <3>2. QED
      BY <3>1
  <2>3. ASSUME NEW g \in Groups, Reload(g) PROVE TopoType'
    BY <2>3 DEF Reload
  <2>4. CASE Stop
    BY <2>4 DEF Stop
  <2>5. QED
    BY <1>4, <2>1, <2>2, <2>3, <2>4 DEF BeginOp
<1>5. ASSUME OpStep PROVE TopoType'
  <2>1. ASSUME NEW c \in Conns, NEW rt \in Rts, BootConn(c, rt)
        PROVE  TopoType'
    BY <2>1 DEF BootConn, Create, Referenced
  <2>2. ASSUME NEW c \in Conns, BootConnFails(c) PROVE TopoType'
    BY <2>2 DEF BootConnFails
  <2>3. CASE ConnectOk
    BY <2>3 DEF ConnectOk
  <2>4. CASE ConnectFailed
    BY <2>4 DEF ConnectFailed
  <2>5. CASE Discard
    BY <2>5 DEF Discard, Return
  <2>6. CASE Publish
    BY <2>6 DEF Publish, NextPhase
  <2>7. ASSUME NEW rt \in Rts, CloseAcquire(rt) PROVE TopoType'
    BY <2>7 DEF CloseAcquire
  <2>8. CASE CloseDone
    BY <2>8 DEF CloseDone
  <2>9. CASE CloseFinished
    BY <2>9 DEF CloseFinished, Return, NextPhase
  <2>10. CASE ListGroups
    BY <2>10 DEF ListGroups
  <2>11. CASE ListGroupsFails
    BY <2>11 DEF ListGroupsFails, Return
  <2>12. CASE GroupsStarted
    BY <2>12 DEF GroupsStarted, Return
  <2>13. ASSUME NEW g \in Groups, StartGroup(g) PROVE TopoType'
    BY <2>13 DEF StartGroup, Launch, GroupConn, GroupRow
  <2>14. ASSUME NEW g \in Groups, SkipGroup(g) PROVE TopoType'
    BY <2>14 DEF SkipGroup
  <2>15. ASSUME NEW g \in Groups, StartGroupFails(g) PROVE TopoType'
    BY <2>15 DEF StartGroupFails, Return
  <2>16. CASE Drained
    <3>1. CASE opKind = "group"
      BY <2>16, <3>1 DEF Drained
    <3>2. CASE opKind # "group"
      <4>1. Forget(opDrain) /\ UNCHANGED <<started, conns, groups>>
        BY <2>16, <3>2 DEF Drained
      <4>2. QED
        BY <4>1 DEF Forget
    <3>3. QED
      BY <3>1, <3>2
  <2>17. CASE CancelOld
    BY <2>17 DEF CancelOld
  <2>18. CASE RemoveOld
    BY <2>18 DEF RemoveOld, ReloadedRow, Forget, Return
  <2>19. CASE LaunchNew
    BY <2>19 DEF LaunchNew, Launch, Return, ReloadLocals, GroupRow
  <2>20. QED
    BY <1>5, <2>1, <2>2, <2>3, <2>4, <2>5, <2>6, <2>7, <2>8, <2>9, <2>10,
        <2>11, <2>12, <2>13, <2>14, <2>15, <2>16, <2>17, <2>18, <2>19 DEF
        OpStep
<1>6. CASE UNCHANGED vars
  BY <1>6
<1>7. QED
  BY <1>1, <1>2, <1>3, <1>4, <1>5, <1>6 DEF Next

(* Every step moves a goroutine to a position of its loop.                 *)
LEMMA UsersTypeStep ==
    IInv /\ [Next]_vars => UsersType'
<1> SUFFICES ASSUME IInv, [Next]_vars PROVE UsersType'
  OBVIOUS
<1> USE DEF IInv, TypeOK, StoreType, TopoType, UsersType, OpType, OpShape,
        Users, Actors, Idle, store, owed, grs, topo, users, links, what, todo,
        op, vars
<1>1. ASSUME Environment PROVE UsersType'
  <2>1. ASSUME NEW c \in Conns, EditConn(c) PROVE UsersType'
    BY <2>1 DEF EditConn
  <2>2. ASSUME NEW g \in Groups, EditGroup(g) PROVE UsersType'
    BY <2>2 DEF EditGroup
  <2>3. ASSUME NEW rt \in Rts, LinkLost(rt) PROVE UsersType'
    BY <2>3 DEF LinkLost
  <2>4. QED
    BY <1>1, <2>1, <2>2, <2>3 DEF Environment
<1>2. ASSUME NEW g \in Groups, Collect(g) PROVE UsersType'
  BY <1>2 DEF Collect, Tick, WorkerExit, CollectAcquire, AcquireCancelled,
      Leave, TakeSlot, SlotCancelled, Release, ReadDone, DriverReturns,
      ProbeDone
<1>3. ASSUME NEW p \in Callers, Call(p) PROVE UsersType'
  BY <1>3 DEF Call, CallerLookup, CallerAcquire, CallerTimeout, Leave,
      CallDone, Release, DriverReturns
<1>4. ASSUME BeginOp PROVE UsersType'
  <2>1. ASSUME NEW c \in Conns, NEW rt \in Rts, ReloadConnection(c, rt)
        PROVE  UsersType'
    BY <2>1 DEF ReloadConnection, Create, Referenced
  <2>2. ASSUME NEW c \in Conns, DisableConnection(c) PROVE UsersType'
    BY <2>2 DEF DisableConnection, RemoveConn
  <2>3. ASSUME NEW c \in Conns, UnloadConnection(c) PROVE UsersType'
    BY <2>3 DEF UnloadConnection, RemoveConn
  <2>4. ASSUME NEW g \in Groups, Reload(g) PROVE UsersType'
    BY <2>4 DEF Reload
  <2>5. CASE Stop
    BY <2>5 DEF Stop
  <2>6. QED
    BY <1>4, <2>1, <2>2, <2>3, <2>4, <2>5 DEF BeginOp
<1>5. ASSUME OpStep PROVE UsersType'
  <2>1. ASSUME NEW c \in Conns, NEW rt \in Rts, BootConn(c, rt)
        PROVE  UsersType'
    BY <2>1 DEF BootConn, Create, Referenced
  <2>2. ASSUME NEW c \in Conns, BootConnFails(c) PROVE UsersType'
    BY <2>2 DEF BootConnFails
  <2>3. CASE ConnectOk
    BY <2>3 DEF ConnectOk
  <2>4. CASE ConnectFailed
    BY <2>4 DEF ConnectFailed
  <2>5. CASE Discard
    BY <2>5 DEF Discard, Return
  <2>6. CASE Publish
    BY <2>6 DEF Publish, NextPhase
  <2>7. ASSUME NEW rt \in Rts, CloseAcquire(rt) PROVE UsersType'
    BY <2>7 DEF CloseAcquire
  <2>8. CASE CloseDone
    BY <2>8 DEF CloseDone
  <2>9. CASE CloseFinished
    BY <2>9 DEF CloseFinished, Return, NextPhase
  <2>10. CASE ListGroups
    BY <2>10 DEF ListGroups
  <2>11. CASE ListGroupsFails
    BY <2>11 DEF ListGroupsFails, Return
  <2>12. CASE GroupsStarted
    BY <2>12 DEF GroupsStarted, Return
  <2>13. ASSUME NEW g \in Groups, StartGroup(g) PROVE UsersType'
    BY <2>13 DEF StartGroup, Launch, GroupConn
  <2>14. ASSUME NEW g \in Groups, SkipGroup(g) PROVE UsersType'
    BY <2>14 DEF SkipGroup
  <2>15. ASSUME NEW g \in Groups, StartGroupFails(g) PROVE UsersType'
    BY <2>15 DEF StartGroupFails, Return
  <2>16. CASE Drained
    BY <2>16 DEF Drained, Forget
  <2>17. CASE CancelOld
    BY <2>17 DEF CancelOld
  <2>18. CASE RemoveOld
    BY <2>18 DEF RemoveOld, ReloadedRow, Forget, Return
  <2>19. CASE LaunchNew
    BY <2>19 DEF LaunchNew, ReloadedRow, Launch, Return
  <2>20. QED
    BY <1>5, <2>1, <2>2, <2>3, <2>4, <2>5, <2>6, <2>7, <2>8, <2>9, <2>10,
        <2>11, <2>12, <2>13, <2>14, <2>15, <2>16, <2>17, <2>18, <2>19 DEF
        OpStep
<1>6. CASE UNCHANGED vars
  BY <1>6
<1>7. QED
  BY <1>1, <1>2, <1>3, <1>4, <1>5, <1>6 DEF Next

(* A Reload keeps the row it has read and the runtime it starts on.        *)
LEMMA OpTypeStep ==
    IInv /\ [Next]_vars => OpType'
<1> SUFFICES ASSUME IInv, [Next]_vars PROVE OpType'
  OBVIOUS
<1> USE DEF IInv, TypeOK, StoreType, TopoType, UsersType, OpType, OpShape,
        Users, Actors, Idle, CandidatePrivate, store, owed, grs, topo, users,
        links, what, todo, op, vars
<1>1. ASSUME Environment PROVE OpType'
  BY <1>1 DEF Environment, EditConn, EditGroup, LinkLost
<1>2. ASSUME NEW g \in Groups, Collect(g) PROVE OpType'
  BY <1>2 DEF Collect, Tick, WorkerExit, CollectAcquire, AcquireCancelled,
      Leave, TakeSlot, SlotCancelled, Release, ReadDone, DriverReturns,
      ProbeDone
<1>3. ASSUME NEW p \in Callers, Call(p) PROVE OpType'
  BY <1>3 DEF Call, CallerLookup, CallerAcquire, CallerTimeout, Leave,
      CallDone, Release, DriverReturns
<1>4. ASSUME BeginOp PROVE OpType'
  <2>1. ASSUME NEW c \in Conns, NEW rt \in Rts, ReloadConnection(c, rt)
        PROVE  OpType'
    BY <2>1 DEF ReloadConnection, Create, Referenced
  <2>2. ASSUME NEW c \in Conns, DisableConnection(c) PROVE OpType'
    BY <2>2 DEF DisableConnection, RemoveConn
  <2>3. ASSUME NEW c \in Conns, UnloadConnection(c) PROVE OpType'
    BY <2>3 DEF UnloadConnection, RemoveConn
  <2>4. ASSUME NEW g \in Groups, Reload(g) PROVE OpType'
    <3>1. groupRow[g] \in GroupRow
      OBVIOUS
    <3>2. groupRow[g].enabled => groupRow[g].conn \in Conns
      BY <3>1 DEF GroupRow
    <3>3. opRt' \in Rts \cup {None}
      BY <2>4, <3>2 DEF Reload
    <3>4. QED
      BY <2>4, <3>1, <3>3 DEF Reload
  <2>5. CASE Stop
    BY <2>5 DEF Stop
  <2>6. QED
    BY <1>4, <2>1, <2>2, <2>3, <2>4, <2>5 DEF BeginOp
<1>5. ASSUME OpStep PROVE OpType'
  BY <1>5 DEF OpStep, BootConn, Create, Referenced, BootConnFails, ConnectOk,
      ConnectFailed, Discard, Return, Publish, NextPhase, CloseAcquire,
      CloseDone, CloseFinished, ListGroups, ListGroupsFails, GroupsStarted,
      StartGroup, Launch, GroupConn, SkipGroup, StartGroupFails, Drained,
      Forget, CancelOld, RemoveOld, ReloadedRow, LaunchNew
<1>6. CASE UNCHANGED vars
  BY <1>6
<1>7. QED
  BY <1>1, <1>2, <1>3, <1>4, <1>5, <1>6 DEF Next

(* A goroutine starts when its group enters the map, and the group is only *)
(* forgotten when the goroutine has returned.                              *)
LEMMA WorkersTrackedStep ==
    IInv /\ [Next]_vars => WorkersTracked'
<1> SUFFICES ASSUME IInv, [Next]_vars PROVE WorkersTracked'
  OBVIOUS
<1> USE DEF IInv, TypeOK, StoreType, TopoType, UsersType, OpType, OpShape,
        Users, Actors, Idle, WorkersTracked, ReloadLocals,
        GroupsUseInstalledConn, ClosingUnused, CandidatePrivate, store, owed,
        grs, topo, users, links, what, todo, op, vars
<1>1. ASSUME Environment PROVE WorkersTracked'
  BY <1>1 DEF Environment, EditConn, EditGroup, LinkLost
<1>2. ASSUME NEW g \in Groups, Collect(g) PROVE WorkersTracked'
  BY <1>2 DEF Collect, Tick, WorkerExit, CollectAcquire, AcquireCancelled,
      Leave, TakeSlot, SlotCancelled, Release, ReadDone, DriverReturns,
      ProbeDone
<1>3. ASSUME NEW p \in Callers, Call(p) PROVE WorkersTracked'
  BY <1>3 DEF Call, CallerLookup, CallerAcquire, CallerTimeout, Leave,
      CallDone, Release, DriverReturns
<1>4. ASSUME BeginOp PROVE WorkersTracked'
  BY <1>4 DEF BeginOp, ReloadConnection, Create, Referenced,
      DisableConnection, RemoveConn, UnloadConnection, Reload, Stop
<1>5. ASSUME OpStep PROVE WorkersTracked'
  <2>1. ASSUME NEW c \in Conns, NEW rt \in Rts, BootConn(c, rt)
        PROVE  WorkersTracked'
    BY <2>1, Identities DEF BootConn, Create, Referenced
  <2>2. ASSUME NEW c \in Conns, BootConnFails(c) PROVE WorkersTracked'
    BY <2>2, Identities DEF BootConnFails
  <2>3. CASE ConnectOk
    BY <2>3, Identities DEF ConnectOk
  <2>4. CASE ConnectFailed
    BY <2>4, Identities DEF ConnectFailed
  <2>5. CASE Discard
    BY <2>5, Identities DEF Discard, Return
  <2>6. CASE Publish
    BY <2>6, Identities DEF Publish, NextPhase
  <2>7. ASSUME NEW rt \in Rts, CloseAcquire(rt) PROVE WorkersTracked'
    BY <2>7, Identities DEF CloseAcquire
  <2>8. CASE CloseDone
    BY <2>8, Identities DEF CloseDone
  <2>9. CASE CloseFinished
    BY <2>9, Identities DEF CloseFinished, Return, NextPhase
  <2>10. CASE ListGroups
    BY <2>10, Identities DEF ListGroups
  <2>11. CASE ListGroupsFails
    BY <2>11, Identities DEF ListGroupsFails, Return
  <2>12. CASE GroupsStarted
    BY <2>12, Identities DEF GroupsStarted, Return
  <2>13. ASSUME NEW g \in Groups, StartGroup(g) PROVE WorkersTracked'
    BY <2>13, Identities DEF StartGroup, Launch, GroupConn
  <2>14. ASSUME NEW g \in Groups, SkipGroup(g) PROVE WorkersTracked'
    BY <2>14, Identities DEF SkipGroup
  <2>15. ASSUME NEW g \in Groups, StartGroupFails(g) PROVE WorkersTracked'
    BY <2>15, Identities DEF StartGroupFails, Return
  <2>16. CASE Drained
    BY <2>16, Identities DEF Drained, Forget
  <2>17. CASE CancelOld
    BY <2>17, Identities DEF CancelOld
  <2>18. CASE RemoveOld
    BY <2>18, Identities DEF RemoveOld, ReloadedRow, Forget, Return
  <2>19. CASE LaunchNew
    BY <2>19, Identities DEF LaunchNew, ReloadedRow, Launch, Return
  <2>20. QED
    BY <1>5, <2>1, <2>2, <2>3, <2>4, <2>5, <2>6, <2>7, <2>8, <2>9, <2>10,
        <2>11, <2>12, <2>13, <2>14, <2>15, <2>16, <2>17, <2>18, <2>19 DEF
        OpStep
<1>6. CASE UNCHANGED vars
  BY <1>6
<1>7. QED
  BY <1>1, <1>2, <1>3, <1>4, <1>5, <1>6 DEF Next

(* The semaphore has one holder, and its release is the holder's.          *)
LEMMA UsersHoldStep ==
    IInv /\ [Next]_vars => UsersHold'
<1> SUFFICES ASSUME IInv, [Next]_vars PROVE UsersHold'
  OBVIOUS
<1> USE DEF IInv, TypeOK, StoreType, TopoType, UsersType, OpType, OpShape,
        Users, Actors, Idle, UsersHold, CandidatePrivate, WorkersTracked,
        ReloadLocals, GroupsUseInstalledConn, store, owed, grs, topo, users,
        links, what, todo, op, vars
<1>1. ASSUME Environment PROVE UsersHold'
  BY <1>1 DEF Environment, EditConn, EditGroup, LinkLost
<1>2. ASSUME NEW g \in Groups, Collect(g) PROVE UsersHold'
  <2>1. CASE Tick(g)
    BY <2>1, Identities DEF Tick
  <2>2. CASE WorkerExit(g)
    BY <2>2, Identities DEF WorkerExit
  <2>3. CASE CollectAcquire(g)
    BY <2>3, Identities DEF CollectAcquire
  <2>4. CASE AcquireCancelled(g)
    BY <2>4, Identities DEF AcquireCancelled, Leave
  <2>5. CASE TakeSlot(g)
    BY <2>5, Identities DEF TakeSlot
  <2>6. CASE SlotCancelled(g)
    BY <2>6, Identities DEF SlotCancelled, Leave, Release
  <2>7. CASE ReadDone(g)
    BY <2>7, Identities DEF ReadDone, Leave, Release, DriverReturns
  <2>8. CASE ProbeDone(g)
    BY <2>8, Identities DEF ProbeDone, Leave, Release, DriverReturns
  <2>9. QED
    BY <1>2, <2>1, <2>2, <2>3, <2>4, <2>5, <2>6, <2>7, <2>8 DEF Collect
<1>3. ASSUME NEW p \in Callers, Call(p) PROVE UsersHold'
  <2>1. CASE CallerLookup(p)
    BY <2>1, Identities DEF CallerLookup
  <2>2. CASE CallerAcquire(p)
    BY <2>2, Identities DEF CallerAcquire
  <2>3. CASE CallerTimeout(p)
    BY <2>3, Identities DEF CallerTimeout, Leave
  <2>4. CASE CallDone(p)
    BY <2>4, Identities DEF CallDone, Leave, Release, DriverReturns
  <2>5. QED
    BY <1>3, <2>1, <2>2, <2>3, <2>4 DEF Call
<1>4. ASSUME BeginOp PROVE UsersHold'
  BY <1>4 DEF BeginOp, ReloadConnection, Create, Referenced,
      DisableConnection, RemoveConn, UnloadConnection, Reload, Stop
<1>5. ASSUME OpStep PROVE UsersHold'
  <2>1. ASSUME NEW c \in Conns, NEW rt \in Rts, BootConn(c, rt)
        PROVE  UsersHold'
    BY <2>1, Identities DEF BootConn, Create, Referenced
  <2>2. ASSUME NEW c \in Conns, BootConnFails(c) PROVE UsersHold'
    BY <2>2, Identities DEF BootConnFails
  <2>3. CASE ConnectOk
    BY <2>3, Identities DEF ConnectOk
  <2>4. CASE ConnectFailed
    BY <2>4, Identities DEF ConnectFailed
  <2>5. CASE Discard
    BY <2>5, Identities DEF Discard, Return
  <2>6. CASE Publish
    BY <2>6, Identities DEF Publish, NextPhase
  <2>7. ASSUME NEW rt \in Rts, CloseAcquire(rt) PROVE UsersHold'
    BY <2>7, Identities DEF CloseAcquire
  <2>8. CASE CloseDone
    BY <2>8, Identities DEF CloseDone
  <2>9. CASE CloseFinished
    BY <2>9, Identities DEF CloseFinished, Return, NextPhase
  <2>10. CASE ListGroups
    BY <2>10, Identities DEF ListGroups
  <2>11. CASE ListGroupsFails
    BY <2>11, Identities DEF ListGroupsFails, Return
  <2>12. CASE GroupsStarted
    BY <2>12, Identities DEF GroupsStarted, Return
  <2>13. ASSUME NEW g \in Groups, StartGroup(g) PROVE UsersHold'
    BY <2>13, Identities DEF StartGroup, Launch, GroupConn
  <2>14. ASSUME NEW g \in Groups, SkipGroup(g) PROVE UsersHold'
    BY <2>14, Identities DEF SkipGroup
  <2>15. ASSUME NEW g \in Groups, StartGroupFails(g) PROVE UsersHold'
    BY <2>15, Identities DEF StartGroupFails, Return
  <2>16. CASE Drained
    BY <2>16, Identities DEF Drained, Forget
  <2>17. CASE CancelOld
    BY <2>17, Identities DEF CancelOld
  <2>18. CASE RemoveOld
    BY <2>18, Identities DEF RemoveOld, ReloadedRow, Forget, Return
  <2>19. CASE LaunchNew
    BY <2>19, Identities DEF LaunchNew, ReloadedRow, Launch, Return
  <2>20. QED
    BY <1>5, <2>1, <2>2, <2>3, <2>4, <2>5, <2>6, <2>7, <2>8, <2>9, <2>10,
        <2>11, <2>12, <2>13, <2>14, <2>15, <2>16, <2>17, <2>18, <2>19 DEF
        OpStep
<1>6. CASE UNCHANGED vars
  BY <1>6
<1>7. QED
  BY <1>1, <1>2, <1>3, <1>4, <1>5, <1>6 DEF Next

(* A slot is taken and given back with the move of the goroutine.          *)
LEMMA SlotsOfReadersStep ==
    IInv /\ [Next]_vars => SlotsOfReaders'
<1> SUFFICES ASSUME IInv, [Next]_vars PROVE SlotsOfReaders'
  OBVIOUS
<1> USE DEF IInv, TypeOK, StoreType, TopoType, UsersType, OpType, OpShape,
        Users, Actors, Idle, SlotsOfReaders, UsersHold, WorkersTracked,
        ReloadLocals, CandidatePrivate, store, owed, grs, topo, users, links,
        what, todo, op, vars
<1>1. ASSUME Environment PROVE SlotsOfReaders'
  BY <1>1 DEF Environment, EditConn, EditGroup, LinkLost
<1>2. ASSUME NEW g \in Groups, Collect(g) PROVE SlotsOfReaders'
  <2>1. CASE Tick(g)
    BY <2>1, Identities DEF Tick
  <2>2. CASE WorkerExit(g)
    BY <2>2, Identities DEF WorkerExit
  <2>3. CASE CollectAcquire(g)
    BY <2>3, Identities DEF CollectAcquire
  <2>4. CASE AcquireCancelled(g)
    BY <2>4, Identities DEF AcquireCancelled, Leave
  <2>5. CASE TakeSlot(g)
    BY <2>5, Identities DEF TakeSlot
  <2>6. CASE SlotCancelled(g)
    BY <2>6, Identities DEF SlotCancelled, Leave, Release
  <2>7. CASE ReadDone(g)
    BY <2>7, Identities DEF ReadDone, Leave, Release, DriverReturns
  <2>8. CASE ProbeDone(g)
    BY <2>8, Identities DEF ProbeDone, Leave, Release, DriverReturns
  <2>9. QED
    BY <1>2, <2>1, <2>2, <2>3, <2>4, <2>5, <2>6, <2>7, <2>8 DEF Collect
<1>3. ASSUME NEW p \in Callers, Call(p) PROVE SlotsOfReaders'
  <2>1. CASE CallerLookup(p)
    BY <2>1, Identities DEF CallerLookup
  <2>2. CASE CallerAcquire(p)
    BY <2>2, Identities DEF CallerAcquire
  <2>3. CASE CallerTimeout(p)
    BY <2>3, Identities DEF CallerTimeout, Leave
  <2>4. CASE CallDone(p)
    BY <2>4, Identities DEF CallDone, Leave, Release, DriverReturns
  <2>5. QED
    BY <1>3, <2>1, <2>2, <2>3, <2>4 DEF Call
<1>4. ASSUME BeginOp PROVE SlotsOfReaders'
  BY <1>4 DEF BeginOp, ReloadConnection, Create, Referenced,
      DisableConnection, RemoveConn, UnloadConnection, Reload, Stop
<1>5. ASSUME OpStep PROVE SlotsOfReaders'
  BY <1>5 DEF OpStep, BootConn, Create, Referenced, BootConnFails, ConnectOk,
      ConnectFailed, Discard, Return, Publish, NextPhase, CloseAcquire,
      CloseDone, CloseFinished, ListGroups, ListGroupsFails, GroupsStarted,
      StartGroup, Launch, GroupConn, SkipGroup, StartGroupFails, Drained,
      Forget, CancelOld, RemoveOld, ReloadedRow, LaunchNew
<1>6. CASE UNCHANGED vars
  BY <1>6
<1>7. QED
  BY <1>1, <1>2, <1>3, <1>4, <1>5, <1>6 DEF Next

(* Taking a slot below the limit respects it, giving one back as well.     *)
LEMMA SlotAdded ==
    ASSUME NEW S, IsFiniteSet(S), NEW x, NEW k \in Nat, Cardinality(S) < k
    PROVE  Cardinality(S \cup {x}) <= k
<1>1. Cardinality(S) \in Nat
  BY FS_CardinalityType
<1>2. Cardinality(S \cup {x}) = IF x \in S THEN Cardinality(S)
                                          ELSE Cardinality(S) + 1
  BY FS_AddElement
<1>3. QED
  BY <1>1, <1>2

LEMMA SlotGivenBack ==
    ASSUME NEW S, IsFiniteSet(S), NEW x, NEW k \in Nat, Cardinality(S) <= k
    PROVE  Cardinality(S \ {x}) <= k
<1>1. Cardinality(S) \in Nat
  BY FS_CardinalityType
<1>2. Cardinality(S \ {x}) = IF x \in S THEN Cardinality(S) - 1
                                        ELSE Cardinality(S)
  BY FS_RemoveElement
<1>3. QED
  BY <1>1, <1>2

(* Only TakeSlot and ReadDone touch the slots.                             *)
LEMMA SlotsBoundedStep ==
    IInv /\ [Next]_vars => SlotsBounded'
<1> SUFFICES ASSUME IInv, [Next]_vars PROVE SlotsBounded'
  OBVIOUS
<1> USE DEF IInv, TypeOK, TopoType, SlotsBounded, UsersType, store, owed, grs,
        topo, users, links, what, todo, op, vars
<1>1. ASSUME Environment PROVE SlotsBounded'
  BY <1>1 DEF Environment, EditConn, EditGroup, LinkLost
<1>2. ASSUME NEW g \in Groups, Collect(g) PROVE SlotsBounded'
  <2>1. CASE Tick(g)
    BY <2>1 DEF Tick
  <2>2. CASE WorkerExit(g)
    BY <2>2 DEF WorkerExit
  <2>3. CASE CollectAcquire(g)
    BY <2>3 DEF CollectAcquire
  <2>4. CASE AcquireCancelled(g)
    BY <2>4 DEF AcquireCancelled, Leave
  <2>5. CASE TakeSlot(g)
    <3>1. slots' = slots \cup {g} /\ Cardinality(slots) < MaxConcurrency
      BY <2>5 DEF TakeSlot
    <3>2. QED
      BY <3>1, SlotAdded, Bounds, FS_Subset
  <2>6. CASE SlotCancelled(g)
    BY <2>6 DEF SlotCancelled, Leave, Release
  <2>7. CASE ReadDone(g)
    <3>1. slots' = slots \ {g}
      BY <2>7 DEF ReadDone
    <3>2. QED
      BY <3>1, SlotGivenBack, Bounds, FS_Subset
  <2>8. CASE ProbeDone(g)
    BY <2>8 DEF ProbeDone, Leave, Release, DriverReturns
  <2>9. QED
    BY <1>2, <2>1, <2>2, <2>3, <2>4, <2>5, <2>6, <2>7, <2>8 DEF Collect
<1>3. ASSUME NEW p \in Callers, Call(p) PROVE SlotsBounded'
  BY <1>3 DEF Call, CallerLookup, CallerAcquire, CallerTimeout, Leave,
      CallDone, Release, DriverReturns
<1>4. ASSUME BeginOp PROVE SlotsBounded'
  BY <1>4 DEF BeginOp, ReloadConnection, Create, Referenced, Idle,
      DisableConnection, RemoveConn, UnloadConnection, Reload, Stop
<1>5. ASSUME OpStep PROVE SlotsBounded'
  BY <1>5 DEF OpStep, BootConn, Create, Referenced, BootConnFails, ConnectOk,
      ConnectFailed, Discard, Return, Publish, NextPhase, CloseAcquire,
      CloseDone, CloseFinished, ListGroups, ListGroupsFails, GroupsStarted,
      StartGroup, Launch, GroupConn, SkipGroup, StartGroupFails, Drained,
      Forget, CancelOld, RemoveOld, ReloadedRow, LaunchNew
<1>6. CASE UNCHANGED vars
  BY <1>6
<1>7. QED
  BY <1>1, <1>2, <1>3, <1>4, <1>5, <1>6 DEF Next

(* A candidate is installed under one connection; a group is launched on   *)
(* the runtime of its own.                                                 *)
LEMMA OneOwnerStep ==
    IInv /\ [Next]_vars => OneOwner'
<1> SUFFICES ASSUME IInv, [Next]_vars PROVE OneOwner'
  OBVIOUS
<1> USE DEF IInv, TypeOK, StoreType, TopoType, UsersType, OpType, OpShape,
        Users, Actors, Idle, OneOwner, CandidatePrivate,
        GroupsUseInstalledConn, WorkersTracked, UsersHold, ReloadLocals,
        ClosingUnused, store, owed, grs, topo, users, links, what, todo, op,
        vars
<1>1. ASSUME Environment PROVE OneOwner'
  BY <1>1 DEF Environment, EditConn, EditGroup, LinkLost
<1>2. ASSUME NEW g \in Groups, Collect(g) PROVE OneOwner'
  <2>1. CASE Tick(g)
    BY <2>1, Identities DEF Tick
  <2>2. CASE WorkerExit(g)
    BY <2>2, Identities DEF WorkerExit
  <2>3. CASE CollectAcquire(g)
    BY <2>3, Identities DEF CollectAcquire
  <2>4. CASE AcquireCancelled(g)
    BY <2>4, Identities DEF AcquireCancelled, Leave
  <2>5. CASE TakeSlot(g)
    BY <2>5, Identities DEF TakeSlot
  <2>6. CASE SlotCancelled(g)
    BY <2>6, Identities DEF SlotCancelled, Leave, Release
  <2>7. CASE ReadDone(g)
    BY <2>7, Identities DEF ReadDone, Leave, Release, DriverReturns
  <2>8. CASE ProbeDone(g)
    BY <2>8, Identities DEF ProbeDone, Leave, Release, DriverReturns
  <2>9. QED
    BY <1>2, <2>1, <2>2, <2>3, <2>4, <2>5, <2>6, <2>7, <2>8 DEF Collect
<1>3. ASSUME NEW p \in Callers, Call(p) PROVE OneOwner'
  <2>1. CASE CallerLookup(p)
    BY <2>1, Identities DEF CallerLookup
  <2>2. CASE CallerAcquire(p)
    BY <2>2, Identities DEF CallerAcquire
  <2>3. CASE CallerTimeout(p)
    BY <2>3, Identities DEF CallerTimeout, Leave
  <2>4. CASE CallDone(p)
    BY <2>4, Identities DEF CallDone, Leave, Release, DriverReturns
  <2>5. QED
    BY <1>3, <2>1, <2>2, <2>3, <2>4 DEF Call
<1>4. ASSUME BeginOp PROVE OneOwner'
  BY <1>4 DEF BeginOp, ReloadConnection, Create, Referenced,
      DisableConnection, RemoveConn, UnloadConnection, Reload, Stop
<1>5. ASSUME OpStep PROVE OneOwner'
  <2>1. ASSUME NEW c \in Conns, NEW rt \in Rts, BootConn(c, rt)
        PROVE  OneOwner'
    BY <2>1, Identities DEF BootConn, Create, Referenced
  <2>2. ASSUME NEW c \in Conns, BootConnFails(c) PROVE OneOwner'
    BY <2>2, Identities DEF BootConnFails
  <2>3. CASE ConnectOk
    BY <2>3, Identities DEF ConnectOk
  <2>4. CASE ConnectFailed
    BY <2>4, Identities DEF ConnectFailed
  <2>5. CASE Discard
    BY <2>5, Identities DEF Discard, Return
  <2>6. CASE Publish
    BY <2>6, Identities DEF Publish, NextPhase
  <2>7. ASSUME NEW rt \in Rts, CloseAcquire(rt) PROVE OneOwner'
    BY <2>7, Identities DEF CloseAcquire
  <2>8. CASE CloseDone
    BY <2>8, Identities DEF CloseDone
  <2>9. CASE CloseFinished
    BY <2>9, Identities DEF CloseFinished, Return, NextPhase
  <2>10. CASE ListGroups
    BY <2>10, Identities DEF ListGroups
  <2>11. CASE ListGroupsFails
    BY <2>11, Identities DEF ListGroupsFails, Return
  <2>12. CASE GroupsStarted
    BY <2>12, Identities DEF GroupsStarted, Return
  <2>13. ASSUME NEW g \in Groups, StartGroup(g) PROVE OneOwner'
    <3>1. pc[g] = "none" /\ on[g] = None
      BY <2>13 DEF StartGroup
    <3>2. GroupConn(g) \in Conns
      BY <2>13 DEF StartGroup, GroupConn, GroupRow
    <3>3. /\ grConn' = [grConn EXCEPT ![g] = GroupConn(g)]
          /\ grRt' = [grRt EXCEPT ![g] = conns[GroupConn(g)]]
          /\ UNCHANGED <<conns, on>>
      BY <2>13 DEF StartGroup, Launch
    <3>4. QED
      BY <3>1, <3>2, <3>3, Identities
  <2>14. ASSUME NEW g \in Groups, SkipGroup(g) PROVE OneOwner'
    BY <2>14, Identities DEF SkipGroup
  <2>15. ASSUME NEW g \in Groups, StartGroupFails(g) PROVE OneOwner'
    BY <2>15, Identities DEF StartGroupFails, Return
  <2>16. CASE Drained
    BY <2>16, Identities DEF Drained, Forget
  <2>17. CASE CancelOld
    BY <2>17, Identities DEF CancelOld
  <2>18. CASE RemoveOld
    BY <2>18, Identities DEF RemoveOld, ReloadedRow, Forget, Return
  <2>19. CASE LaunchNew
    <3>1. pc[opGroup] = "none" /\ on[opGroup] = None
      BY <2>19 DEF LaunchNew
    <3>2. opRow.conn \in Conns /\ opRt = conns[opRow.conn]
      BY <2>19 DEF LaunchNew, GroupRow
    <3>3. /\ grConn' = [grConn EXCEPT ![opGroup] = opRow.conn]
          /\ grRt' = [grRt EXCEPT ![opGroup] = opRt]
          /\ UNCHANGED <<conns, on>>
      BY <2>19 DEF LaunchNew, Launch
    <3>4. QED
      BY <3>1, <3>2, <3>3, Identities
  <2>20. QED
    BY <1>5, <2>1, <2>2, <2>3, <2>4, <2>5, <2>6, <2>7, <2>8, <2>9, <2>10,
        <2>11, <2>12, <2>13, <2>14, <2>15, <2>16, <2>17, <2>18, <2>19 DEF
        OpStep
<1>6. CASE UNCHANGED vars
  BY <1>6
<1>7. QED
  BY <1>1, <1>2, <1>3, <1>4, <1>5, <1>6 DEF Next

(* Publish hands the new runtime to the groups in the step that installs   *)
(* it, and removing a connection removes its groups.                       *)
LEMMA GroupsUseInstalledConnStep ==
    IInv /\ [Next]_vars => GroupsUseInstalledConn'
<1> SUFFICES ASSUME IInv, [Next]_vars PROVE GroupsUseInstalledConn'
  OBVIOUS
<1> USE DEF IInv, TypeOK, StoreType, TopoType, UsersType, OpType, OpShape,
        Users, Actors, Idle, GroupsUseInstalledConn, CandidatePrivate,
        ReloadLocals, ClosingUnused, GroupRow, store, owed, grs, topo, users,
        links, what, todo, op, vars
<1>1. ASSUME Environment PROVE GroupsUseInstalledConn'
  BY <1>1 DEF Environment, EditConn, EditGroup, LinkLost
<1>2. ASSUME NEW g \in Groups, Collect(g) PROVE GroupsUseInstalledConn'
  BY <1>2 DEF Collect, Tick, WorkerExit, CollectAcquire, AcquireCancelled,
      Leave, TakeSlot, SlotCancelled, Release, ReadDone, DriverReturns,
      ProbeDone
<1>3. ASSUME NEW p \in Callers, Call(p) PROVE GroupsUseInstalledConn'
  BY <1>3 DEF Call, CallerLookup, CallerAcquire, CallerTimeout, Leave,
      CallDone, Release, DriverReturns
<1>4. ASSUME BeginOp PROVE GroupsUseInstalledConn'
  BY <1>4 DEF BeginOp, ReloadConnection, Create, Referenced,
      DisableConnection, RemoveConn, UnloadConnection, Reload, Stop
<1>5. ASSUME OpStep PROVE GroupsUseInstalledConn'
  <2>1. ASSUME NEW c \in Conns, NEW rt \in Rts, BootConn(c, rt)
        PROVE  GroupsUseInstalledConn'
    BY <2>1, Identities DEF BootConn, Create, Referenced
  <2>2. ASSUME NEW c \in Conns, BootConnFails(c)
        PROVE  GroupsUseInstalledConn'
    BY <2>2, Identities DEF BootConnFails
  <2>3. CASE ConnectOk
    BY <2>3, Identities DEF ConnectOk
  <2>4. CASE ConnectFailed
    BY <2>4, Identities DEF ConnectFailed
  <2>5. CASE Discard
    BY <2>5, Identities DEF Discard, Return
  <2>6. CASE Publish
    BY <2>6, Identities DEF Publish, NextPhase
  <2>7. ASSUME NEW rt \in Rts, CloseAcquire(rt)
        PROVE  GroupsUseInstalledConn'
    BY <2>7, Identities DEF CloseAcquire
  <2>8. CASE CloseDone
    BY <2>8, Identities DEF CloseDone
  <2>9. CASE CloseFinished
    BY <2>9, Identities DEF CloseFinished, Return, NextPhase
  <2>10. CASE ListGroups
    BY <2>10, Identities DEF ListGroups
  <2>11. CASE ListGroupsFails
    BY <2>11, Identities DEF ListGroupsFails, Return
  <2>12. CASE GroupsStarted
    BY <2>12, Identities DEF GroupsStarted, Return
  <2>13. ASSUME NEW g \in Groups, StartGroup(g) PROVE GroupsUseInstalledConn'
    BY <2>13, Identities DEF StartGroup, Launch, GroupConn
  <2>14. ASSUME NEW g \in Groups, SkipGroup(g) PROVE GroupsUseInstalledConn'
    BY <2>14, Identities DEF SkipGroup
  <2>15. ASSUME NEW g \in Groups, StartGroupFails(g)
        PROVE  GroupsUseInstalledConn'
    BY <2>15, Identities DEF StartGroupFails, Return
  <2>16. CASE Drained
    BY <2>16, Identities DEF Drained, Forget
  <2>17. CASE CancelOld
    BY <2>17, Identities DEF CancelOld
  <2>18. CASE RemoveOld
    BY <2>18, Identities DEF RemoveOld, ReloadedRow, Forget, Return
  <2>19. CASE LaunchNew
    BY <2>19, Identities DEF LaunchNew, ReloadedRow, Launch, Return
  <2>20. QED
    BY <1>5, <2>1, <2>2, <2>3, <2>4, <2>5, <2>6, <2>7, <2>8, <2>9, <2>10,
        <2>11, <2>12, <2>13, <2>14, <2>15, <2>16, <2>17, <2>18, <2>19 DEF
        OpStep
<1>6. CASE UNCHANGED vars
  BY <1>6
<1>7. QED
  BY <1>1, <1>2, <1>3, <1>4, <1>5, <1>6 DEF Next

(* A candidate is fresh, and a goroutine only takes what its group has.    *)
LEMMA CandidatePrivateStep ==
    IInv /\ [Next]_vars => CandidatePrivate'
<1> SUFFICES ASSUME IInv, [Next]_vars PROVE CandidatePrivate'
  OBVIOUS
<1> USE DEF IInv, TypeOK, StoreType, TopoType, UsersType, OpType, OpShape,
        Users, Actors, Idle, CandidatePrivate, WorkersTracked, store, owed,
        grs, topo, users, links, what, todo, op, vars
<1>1. ASSUME Environment PROVE CandidatePrivate'
  BY <1>1 DEF Environment, EditConn, EditGroup, LinkLost
<1>2. ASSUME NEW g \in Groups, Collect(g) PROVE CandidatePrivate'
  BY <1>2 DEF Collect, Tick, WorkerExit, CollectAcquire, AcquireCancelled,
      Leave, TakeSlot, SlotCancelled, Release, ReadDone, DriverReturns,
      ProbeDone
<1>3. ASSUME NEW p \in Callers, Call(p) PROVE CandidatePrivate'
  BY <1>3 DEF Call, CallerLookup, CallerAcquire, CallerTimeout, Leave,
      CallDone, Release, DriverReturns
<1>4. ASSUME BeginOp PROVE CandidatePrivate'
  <2>1. ASSUME NEW c \in Conns, NEW rt \in Rts, ReloadConnection(c, rt)
        PROVE  CandidatePrivate'
    BY <2>1, Identities DEF ReloadConnection, Create, Referenced
  <2>2. ASSUME NEW c \in Conns, DisableConnection(c) PROVE CandidatePrivate'
    BY <2>2, Identities DEF DisableConnection, RemoveConn
  <2>3. ASSUME NEW c \in Conns, UnloadConnection(c) PROVE CandidatePrivate'
    BY <2>3, Identities DEF UnloadConnection, RemoveConn
  <2>4. ASSUME NEW g \in Groups, Reload(g) PROVE CandidatePrivate'
    BY <2>4, Identities DEF Reload
  <2>5. CASE Stop
    BY <2>5, Identities DEF Stop
  <2>6. QED
    BY <1>4, <2>1, <2>2, <2>3, <2>4, <2>5 DEF BeginOp
<1>5. ASSUME OpStep PROVE CandidatePrivate'
  <2>1. ASSUME NEW c \in Conns, NEW rt \in Rts, BootConn(c, rt)
        PROVE  CandidatePrivate'
    BY <2>1, Identities DEF BootConn, Create, Referenced
  <2>2. ASSUME NEW c \in Conns, BootConnFails(c) PROVE CandidatePrivate'
    BY <2>2, Identities DEF BootConnFails
  <2>3. CASE ConnectOk
    BY <2>3, Identities DEF ConnectOk
  <2>4. CASE ConnectFailed
    BY <2>4, Identities DEF ConnectFailed
  <2>5. CASE Discard
    BY <2>5, Identities DEF Discard, Return
  <2>6. CASE Publish
    BY <2>6, Identities DEF Publish, NextPhase
  <2>7. ASSUME NEW rt \in Rts, CloseAcquire(rt) PROVE CandidatePrivate'
    BY <2>7, Identities DEF CloseAcquire
  <2>8. CASE CloseDone
    BY <2>8, Identities DEF CloseDone
  <2>9. CASE CloseFinished
    BY <2>9, Identities DEF CloseFinished, Return, NextPhase
  <2>10. CASE ListGroups
    BY <2>10, Identities DEF ListGroups
  <2>11. CASE ListGroupsFails
    BY <2>11, Identities DEF ListGroupsFails, Return
  <2>12. CASE GroupsStarted
    BY <2>12, Identities DEF GroupsStarted, Return
  <2>13. ASSUME NEW g \in Groups, StartGroup(g) PROVE CandidatePrivate'
    BY <2>13, Identities DEF StartGroup, Launch, GroupConn
  <2>14. ASSUME NEW g \in Groups, SkipGroup(g) PROVE CandidatePrivate'
    BY <2>14, Identities DEF SkipGroup
  <2>15. ASSUME NEW g \in Groups, StartGroupFails(g) PROVE CandidatePrivate'
    BY <2>15, Identities DEF StartGroupFails, Return
  <2>16. CASE Drained
    BY <2>16, Identities DEF Drained, Forget
  <2>17. CASE CancelOld
    BY <2>17, Identities DEF CancelOld
  <2>18. CASE RemoveOld
    BY <2>18, Identities DEF RemoveOld, ReloadedRow, Forget, Return
  <2>19. CASE LaunchNew
    BY <2>19, Identities DEF LaunchNew, ReloadedRow, Launch, Return
  <2>20. QED
    BY <1>5, <2>1, <2>2, <2>3, <2>4, <2>5, <2>6, <2>7, <2>8, <2>9, <2>10,
        <2>11, <2>12, <2>13, <2>14, <2>15, <2>16, <2>17, <2>18, <2>19 DEF
        OpStep
<1>6. CASE UNCHANGED vars
  BY <1>6
<1>7. QED
  BY <1>1, <1>2, <1>3, <1>4, <1>5, <1>6 DEF Next

(* A runtime to close has left the map, so that only the goroutines that   *)
(* are waited for can still take it.                                       *)
LEMMA ClosingUnusedStep ==
    IInv /\ [Next]_vars => ClosingUnused'
<1> SUFFICES ASSUME IInv, [Next]_vars PROVE ClosingUnused'
  OBVIOUS
<1> USE DEF IInv, TypeOK, StoreType, TopoType, UsersType, OpType, OpShape,
        Users, Actors, Idle, ClosingUnused, WorkersTracked,
        GroupsUseInstalledConn, OneOwner, UsersHold, store, owed, grs, topo,
        users, links, what, todo, op, vars
<1>1. ASSUME Environment PROVE ClosingUnused'
  BY <1>1 DEF Environment, EditConn, EditGroup, LinkLost
<1>2. ASSUME NEW g \in Groups, Collect(g) PROVE ClosingUnused'
  <2>1. CASE Tick(g)
    BY <2>1, Identities DEF Tick
  <2>2. CASE WorkerExit(g)
    BY <2>2, Identities DEF WorkerExit
  <2>3. CASE CollectAcquire(g)
    BY <2>3, Identities DEF CollectAcquire
  <2>4. CASE AcquireCancelled(g)
    BY <2>4, Identities DEF AcquireCancelled, Leave
  <2>5. CASE TakeSlot(g)
    BY <2>5, Identities DEF TakeSlot
  <2>6. CASE SlotCancelled(g)
    BY <2>6, Identities DEF SlotCancelled, Leave, Release
  <2>7. CASE ReadDone(g)
    BY <2>7, Identities DEF ReadDone, Leave, Release, DriverReturns
  <2>8. CASE ProbeDone(g)
    BY <2>8, Identities DEF ProbeDone, Leave, Release, DriverReturns
  <2>9. QED
    BY <1>2, <2>1, <2>2, <2>3, <2>4, <2>5, <2>6, <2>7, <2>8 DEF Collect
<1>3. ASSUME NEW p \in Callers, Call(p) PROVE ClosingUnused'
  <2>1. CASE CallerLookup(p)
    BY <2>1, Identities DEF CallerLookup
  <2>2. CASE CallerAcquire(p)
    BY <2>2, Identities DEF CallerAcquire
  <2>3. CASE CallerTimeout(p)
    BY <2>3, Identities DEF CallerTimeout, Leave
  <2>4. CASE CallDone(p)
    BY <2>4, Identities DEF CallDone, Leave, Release, DriverReturns
  <2>5. QED
    BY <1>3, <2>1, <2>2, <2>3, <2>4 DEF Call
<1>4. ASSUME BeginOp PROVE ClosingUnused'
  BY <1>4 DEF BeginOp, ReloadConnection, Create, Referenced,
      DisableConnection, RemoveConn, UnloadConnection, Reload, Stop
<1>5. ASSUME OpStep PROVE ClosingUnused'
  BY <1>5 DEF OpStep, BootConn, Create, Referenced, BootConnFails, ConnectOk,
      ConnectFailed, Discard, Return, Publish, NextPhase, CloseAcquire,
      CloseDone, CloseFinished, ListGroups, ListGroupsFails, GroupsStarted,
      StartGroup, Launch, GroupConn, SkipGroup, StartGroupFails, Drained,
      Forget, CancelOld, RemoveOld, ReloadedRow, LaunchNew
<1>6. CASE UNCHANGED vars
  BY <1>6
<1>7. QED
  BY <1>1, <1>2, <1>3, <1>4, <1>5, <1>6 DEF Next

(* lifecycleMu keeps the connection of a Reload installed.                 *)
LEMMA ReloadLocalsStep ==
    IInv /\ [Next]_vars => ReloadLocals'
<1> SUFFICES ASSUME IInv, [Next]_vars PROVE ReloadLocals'
  OBVIOUS
<1> USE DEF IInv, TypeOK, StoreType, TopoType, UsersType, OpType, OpShape,
        Users, Actors, Idle, ReloadLocals, WorkersTracked, CandidatePrivate,
        GroupRow, store, owed, grs, topo, users, links, what, todo, op, vars
<1>1. ASSUME Environment PROVE ReloadLocals'
  BY <1>1 DEF Environment, EditConn, EditGroup, LinkLost
<1>2. ASSUME NEW g \in Groups, Collect(g) PROVE ReloadLocals'
  BY <1>2 DEF Collect, Tick, WorkerExit, CollectAcquire, AcquireCancelled,
      Leave, TakeSlot, SlotCancelled, Release, ReadDone, DriverReturns,
      ProbeDone
<1>3. ASSUME NEW p \in Callers, Call(p) PROVE ReloadLocals'
  BY <1>3 DEF Call, CallerLookup, CallerAcquire, CallerTimeout, Leave,
      CallDone, Release, DriverReturns
<1>4. ASSUME BeginOp PROVE ReloadLocals'
  <2>1. ASSUME NEW c \in Conns, NEW rt \in Rts, ReloadConnection(c, rt)
        PROVE  ReloadLocals'
    BY <2>1, Identities DEF ReloadConnection, Create, Referenced
  <2>2. ASSUME NEW c \in Conns, DisableConnection(c) PROVE ReloadLocals'
    BY <2>2, Identities DEF DisableConnection, RemoveConn
  <2>3. ASSUME NEW c \in Conns, UnloadConnection(c) PROVE ReloadLocals'
    BY <2>3, Identities DEF UnloadConnection, RemoveConn
  <2>4. ASSUME NEW g \in Groups, Reload(g) PROVE ReloadLocals'
    BY <2>4, Identities DEF Reload
  <2>5. CASE Stop
    BY <2>5, Identities DEF Stop
  <2>6. QED
    BY <1>4, <2>1, <2>2, <2>3, <2>4, <2>5 DEF BeginOp
<1>5. ASSUME OpStep PROVE ReloadLocals'
  BY <1>5 DEF OpStep, BootConn, Create, Referenced, BootConnFails, ConnectOk,
      ConnectFailed, Discard, Return, Publish, NextPhase, CloseAcquire,
      CloseDone, CloseFinished, ListGroups, ListGroupsFails, GroupsStarted,
      StartGroup, Launch, GroupConn, SkipGroup, StartGroupFails, Drained,
      Forget, CancelOld, RemoveOld, ReloadedRow, LaunchNew
<1>6. CASE UNCHANGED vars
  BY <1>6
<1>7. QED
  BY <1>1, <1>2, <1>3, <1>4, <1>5, <1>6 DEF Next

(* Each operation goes through its own positions.                          *)
LEMMA OpShapeStep ==
    IInv /\ [Next]_vars => OpShape'
<1> SUFFICES ASSUME IInv, [Next]_vars PROVE OpShape'
  OBVIOUS
<1> USE DEF IInv, TypeOK, StoreType, TopoType, UsersType, OpType, OpShape,
        Users, Actors, Idle, CandidatePrivate, ClosingUnused, ReloadLocals,
        UsersHold, store, owed, grs, topo, users, links, what, todo, op, vars
<1>1. ASSUME Environment PROVE OpShape'
  BY <1>1 DEF Environment, EditConn, EditGroup, LinkLost
<1>2. ASSUME NEW g \in Groups, Collect(g) PROVE OpShape'
  <2>1. CASE Tick(g)
    BY <2>1, Identities DEF Tick
  <2>2. CASE WorkerExit(g)
    BY <2>2, Identities DEF WorkerExit
  <2>3. CASE CollectAcquire(g)
    BY <2>3, Identities DEF CollectAcquire
  <2>4. CASE AcquireCancelled(g)
    BY <2>4, Identities DEF AcquireCancelled, Leave
  <2>5. CASE TakeSlot(g)
    BY <2>5, Identities DEF TakeSlot
  <2>6. CASE SlotCancelled(g)
    BY <2>6, Identities DEF SlotCancelled, Leave, Release
  <2>7. CASE ReadDone(g)
    BY <2>7, Identities DEF ReadDone, Leave, Release, DriverReturns
  <2>8. CASE ProbeDone(g)
    BY <2>8, Identities DEF ProbeDone, Leave, Release, DriverReturns
  <2>9. QED
    BY <1>2, <2>1, <2>2, <2>3, <2>4, <2>5, <2>6, <2>7, <2>8 DEF Collect
<1>3. ASSUME NEW p \in Callers, Call(p) PROVE OpShape'
  <2>1. CASE CallerLookup(p)
    BY <2>1, Identities DEF CallerLookup
  <2>2. CASE CallerAcquire(p)
    BY <2>2, Identities DEF CallerAcquire
  <2>3. CASE CallerTimeout(p)
    BY <2>3, Identities DEF CallerTimeout, Leave
  <2>4. CASE CallDone(p)
    BY <2>4, Identities DEF CallDone, Leave, Release, DriverReturns
  <2>5. QED
    BY <1>3, <2>1, <2>2, <2>3, <2>4 DEF Call
<1>4. ASSUME BeginOp PROVE OpShape'
  <2>1. ASSUME NEW c \in Conns, NEW rt \in Rts, ReloadConnection(c, rt)
        PROVE  OpShape'
    BY <2>1, Identities DEF ReloadConnection, Create, Referenced
  <2>2. ASSUME NEW c \in Conns, DisableConnection(c) PROVE OpShape'
    BY <2>2, Identities DEF DisableConnection, RemoveConn
  <2>3. ASSUME NEW c \in Conns, UnloadConnection(c) PROVE OpShape'
    BY <2>3, Identities DEF UnloadConnection, RemoveConn
  <2>4. ASSUME NEW g \in Groups, Reload(g) PROVE OpShape'
    BY <2>4, Identities DEF Reload
  <2>5. CASE Stop
    BY <2>5, Identities DEF Stop
  <2>6. QED
    BY <1>4, <2>1, <2>2, <2>3, <2>4, <2>5 DEF BeginOp
<1>5. ASSUME OpStep PROVE OpShape'
  <2>1. ASSUME NEW c \in Conns, NEW rt \in Rts, BootConn(c, rt)
        PROVE  OpShape'
    BY <2>1, Identities DEF BootConn, Create, Referenced
  <2>2. ASSUME NEW c \in Conns, BootConnFails(c) PROVE OpShape'
    BY <2>2, Identities DEF BootConnFails
  <2>3. CASE ConnectOk
    BY <2>3, Identities DEF ConnectOk
  <2>4. CASE ConnectFailed
    BY <2>4, Identities DEF ConnectFailed
  <2>5. CASE Discard
    BY <2>5, Identities DEF Discard, Return
  <2>6. CASE Publish
    BY <2>6, Identities DEF Publish, NextPhase
  <2>7. ASSUME NEW rt \in Rts, CloseAcquire(rt) PROVE OpShape'
    BY <2>7, Identities DEF CloseAcquire
  <2>8. CASE CloseDone
    BY <2>8, Identities DEF CloseDone
  <2>9. CASE CloseFinished
    BY <2>9, Identities DEF CloseFinished, Return, NextPhase
  <2>10. CASE ListGroups
    BY <2>10, Identities DEF ListGroups
  <2>11. CASE ListGroupsFails
    BY <2>11, Identities DEF ListGroupsFails, Return
  <2>12. CASE GroupsStarted
    BY <2>12, Identities DEF GroupsStarted, Return
  <2>13. ASSUME NEW g \in Groups, StartGroup(g) PROVE OpShape'
    BY <2>13, Identities DEF StartGroup, Launch, GroupConn
  <2>14. ASSUME NEW g \in Groups, SkipGroup(g) PROVE OpShape'
    BY <2>14, Identities DEF SkipGroup
  <2>15. ASSUME NEW g \in Groups, StartGroupFails(g) PROVE OpShape'
    BY <2>15, Identities DEF StartGroupFails, Return
  <2>16. CASE Drained
    BY <2>16, Identities DEF Drained, Forget
  <2>17. CASE CancelOld
    BY <2>17, Identities DEF CancelOld
  <2>18. CASE RemoveOld
    BY <2>18, Identities DEF RemoveOld, ReloadedRow, Forget, Return
  <2>19. CASE LaunchNew
    BY <2>19, Identities DEF LaunchNew, ReloadedRow, Launch, Return
  <2>20. QED
    BY <1>5, <2>1, <2>2, <2>3, <2>4, <2>5, <2>6, <2>7, <2>8, <2>9, <2>10,
        <2>11, <2>12, <2>13, <2>14, <2>15, <2>16, <2>17, <2>18, <2>19 DEF
        OpStep
<1>6. CASE UNCHANGED vars
  BY <1>6
<1>7. QED
  BY <1>1, <1>2, <1>3, <1>4, <1>5, <1>6 DEF Next

(* The initial states satisfy the invariant.                               *)
LEMMA InitIInv == Init => IInv
<1> SUFFICES ASSUME Init PROVE IInv
  OBVIOUS
<1> USE Identities, Bounds DEF Init
<1>1. TypeOK
  BY DEF TypeOK, StoreType, TopoType, UsersType, OpType, Users, Actors
<1>2. WorkersTracked /\ GroupsUseInstalledConn
  BY DEF WorkersTracked, GroupsUseInstalledConn, Users
<1>3. UsersHold
  BY DEF UsersHold, Users
<1>4. SlotsOfReaders
  BY DEF SlotsOfReaders, Users
<1>5. OneOwner /\ CandidatePrivate /\ ClosingUnused
  BY DEF OneOwner, CandidatePrivate, ClosingUnused
<1>6. ReloadLocals /\ OpShape
  BY DEF ReloadLocals, OpShape, Idle
<1>7. SlotsBounded
  BY FS_EmptySet DEF SlotsBounded
<1>8. QED
  BY <1>1, <1>2, <1>3, <1>4, <1>5, <1>6, <1>7 DEF IInv

(* IInv is an invariant: whatever the sizes of the sets, each conjunct     *)
(* holds at every point of Start, Stop, Reload and ReloadConnection.       *)
THEOREM Inductive == Spec => []IInv
<1>1. IInv /\ [Next]_vars => IInv'
  <2> SUFFICES ASSUME IInv, [Next]_vars PROVE IInv'
    OBVIOUS
  <2>1. TypeOK'
    BY StoreTypeStep, TopoTypeStep, UsersTypeStep, OpTypeStep DEF TypeOK
  <2>2. WorkersTracked' /\ UsersHold' /\ OneOwner'
    BY WorkersTrackedStep, UsersHoldStep, OneOwnerStep
  <2>3. SlotsOfReaders' /\ SlotsBounded'
    BY SlotsOfReadersStep, SlotsBoundedStep
  <2>4. GroupsUseInstalledConn' /\ CandidatePrivate' /\ ClosingUnused'
    BY GroupsUseInstalledConnStep, CandidatePrivateStep, ClosingUnusedStep
  <2>5. ReloadLocals' /\ OpShape'
    BY ReloadLocalsStep, OpShapeStep
  <2>6. QED
    BY <2>1, <2>2, <2>3, <2>4, <2>5 DEF IInv
<1>2. QED
  BY InitIInv, <1>1, PTL DEF Spec

(* Every variable keeps its type.                                          *)
THEOREM Typed == Spec => []TypeOK
<1>1. IInv => TypeOK
  BY DEF IInv
<1>2. QED
  BY Inductive, <1>1, PTL

(* No driver is ever inside two calls: goroutines past their acquire are   *)
(* kept apart by ioSem, closeConnection by the same semaphore, and Connect *)
(* and the Disconnect of a rejected candidate, which take none, by the     *)
(* candidate being known to nobody.                                        *)
THEOREM Exclusive == Spec => []ExclusiveDriver
<1>1. IInv => ExclusiveDriver
  <2> SUFFICES ASSUME IInv, NEW rt \in Rts, NEW a \in Actors, NEW b \in Actors,
                      InDriver(a, rt), InDriver(b, rt)
               PROVE  a = b
    BY DEF ExclusiveDriver
  <2>1. ASSUME NEW u \in Users, InDriver(u, rt) PROVE io[rt] = u /\ on[u] = rt
    BY <2>1, Identities DEF IInv, UsersHold, InDriver
  <2>2. ASSUME InDriver(Lifecycle, rt), NEW u \in Users, InDriver(u, rt)
        PROVE  FALSE
    BY <2>1, <2>2, Identities DEF IInv, CandidatePrivate, OpShape, InDriver
  <2>3. QED
    BY <2>1, <2>2 DEF Actors
<1>2. QED
  BY Inductive, <1>1, PTL

(* The limit of concurrent reads holds and no two groups of one connection *)
(* hold slots at the same time.                                            *)
THEOREM FairSlots == Spec => []SlotsFairlyShared
<1>1. IInv => SlotsFairlyShared
  BY DEF IInv, SlotsOfReaders, SlotsBounded, UsersHold,
         SlotsFairlyShared, Users
<1>2. QED
  BY Inductive, <1>1, PTL

(* A running group always refers to the installed runtime.                 *)
THEOREM Installed == Spec => []GroupsUseInstalledConn
<1>1. IInv => GroupsUseInstalledConn
  BY DEF IInv
<1>2. QED
  BY Inductive, <1>1, PTL

(* Stop, disable and unload close a connection with no goroutine on it.    *)
THEOREM Drains == Spec => []DrainedBeforeClose
<1>1. IInv => DrainedBeforeClose
  BY DEF IInv, ClosingUnused, OpShape, DrainedBeforeClose
<1>2. QED
  BY Inductive, <1>1, PTL

(* Between operations groups and collection goroutines are one to one.     *)
THEOREM OneWorker == Spec => []OneWorkerPerGroup
<1>1. IInv => OneWorkerPerGroup
  BY DEF IInv, WorkersTracked, OpShape, OneWorkerPerGroup, Idle
<1>2. QED
  BY Inductive, <1>1, PTL

(* A goroutine is only started when the group's last one has returned.     *)
THEOREM OneGeneration == Spec => NeverTwoWorkers
<1> DEFINE OK == \A g \in Groups : Starts(g) => pc[g] = "none"
<1>1. IInv => OK
  <2> SUFFICES ASSUME IInv, NEW g \in Groups, Starts(g) PROVE pc[g] = "none"
    OBVIOUS
  <2>1. CASE StartGroup(g)
    BY <2>1 DEF IInv, WorkersTracked, OpShape, StartGroup
  <2>2. CASE LaunchNew /\ opGroup = g
    BY <2>2 DEF IInv, WorkersTracked, OpShape, ReloadLocals, LaunchNew
  <2>3. QED
    BY <2>1, <2>2 DEF Starts
<1>2. [](IInv) => [][OK]_vars
  BY <1>1, PTL
<1>3. QED
  BY Inductive, <1>2, PTL DEF NeverTwoWorkers

(* Collecting and calling change no row, no map and no operation.          *)
LEMMA CollectFrame ==
    ASSUME NEW g \in Groups, Collect(g)
    PROVE  UNCHANGED <<store, owed, topo, op>>
  BY DEF Collect, Tick, WorkerExit, CollectAcquire, AcquireCancelled, TakeSlot,
      SlotCancelled, ReadDone, ProbeDone

LEMMA CallFrame ==
    ASSUME NEW p \in Callers, Call(p)
    PROVE  UNCHANGED <<store, owed, topo, op>>
  BY DEF Call, CallerLookup, CallerAcquire, CallerTimeout, CallDone

(* A connection enters the map when its row is enabled, and leaves it with *)
(* the row disabled or marked again.                                       *)
LEMMA ConnsMatchStep ==
    IInv /\ SInv /\ [Next]_vars => ConnsMatch'
<1> SUFFICES ASSUME IInv, SInv, [Next]_vars PROVE ConnsMatch'
  OBVIOUS
<1> USE DEF IInv, TypeOK, StoreType, TopoType, OpType, OpShape, Idle, SInv,
        ConnsMatch, ToBoot, StartLocals, ConnLocals, RowLocals,
        CandidatePrivate, ClosingUnused, store, owed, grs, topo, what, todo,
        op, vars
<1>1. ASSUME Environment PROVE ConnsMatch'
  <2>1. ASSUME NEW c \in Conns, EditConn(c) PROVE ConnsMatch'
    BY <2>1, Identities DEF EditConn
  <2>2. ASSUME NEW g \in Groups, EditGroup(g) PROVE ConnsMatch'
    BY <2>2, Identities DEF EditGroup
  <2>3. ASSUME NEW rt \in Rts, LinkLost(rt) PROVE ConnsMatch'
    BY <2>3, Identities DEF LinkLost
  <2>4. QED
    BY <1>1, <2>1, <2>2, <2>3 DEF Environment
<1>2. ASSUME NEW g \in Groups, Collect(g) PROVE ConnsMatch'
  <2>1. UNCHANGED <<store, owed, topo, op>>
    BY <1>2, CollectFrame
  <2>2. QED
    BY <2>1
<1>3. ASSUME NEW p \in Callers, Call(p) PROVE ConnsMatch'
  <2>1. UNCHANGED <<store, owed, topo, op>>
    BY <1>3, CallFrame
  <2>2. QED
    BY <2>1
<1>4. ASSUME BeginOp PROVE ConnsMatch'
  <2>1. ASSUME NEW c \in Conns, NEW rt \in Rts, ReloadConnection(c, rt)
        PROVE  ConnsMatch'
    BY <2>1, Identities DEF ReloadConnection, Create, Referenced
  <2>2. ASSUME NEW c \in Conns, DisableConnection(c) PROVE ConnsMatch'
    BY <2>2, Identities DEF DisableConnection, RemoveConn
  <2>3. ASSUME NEW c \in Conns, UnloadConnection(c) PROVE ConnsMatch'
    BY <2>3, Identities DEF UnloadConnection, RemoveConn
  <2>4. ASSUME NEW g \in Groups, Reload(g) PROVE ConnsMatch'
    BY <2>4, Identities DEF Reload
  <2>5. CASE Stop
    BY <2>5, Identities DEF Stop
  <2>6. QED
    BY <1>4, <2>1, <2>2, <2>3, <2>4, <2>5 DEF BeginOp
<1>5. ASSUME OpStep PROVE ConnsMatch'
  <2>1. ASSUME NEW c \in Conns, NEW rt \in Rts, BootConn(c, rt)
        PROVE  ConnsMatch'
    BY <2>1, Identities DEF BootConn, Create, Referenced
  <2>2. ASSUME NEW c \in Conns, BootConnFails(c) PROVE ConnsMatch'
    BY <2>2, Identities DEF BootConnFails
  <2>3. CASE ConnectOk
    BY <2>3, Identities DEF ConnectOk
  <2>4. CASE ConnectFailed
    BY <2>4, Identities DEF ConnectFailed
  <2>5. CASE Discard
    BY <2>5, Identities DEF Discard, Return
  <2>6. CASE Publish
    BY <2>6, Identities DEF Publish, NextPhase
  <2>7. ASSUME NEW rt \in Rts, CloseAcquire(rt) PROVE ConnsMatch'
    BY <2>7, Identities DEF CloseAcquire
  <2>8. CASE CloseDone
    BY <2>8, Identities DEF CloseDone
  <2>9. CASE CloseFinished
    BY <2>9, Identities DEF CloseFinished, Return, NextPhase
  <2>10. CASE ListGroups
    BY <2>10, Identities DEF ListGroups
  <2>11. CASE ListGroupsFails
    BY <2>11, Identities DEF ListGroupsFails, Return
  <2>12. CASE GroupsStarted
    BY <2>12, Identities DEF GroupsStarted, Return
  <2>13. ASSUME NEW g \in Groups, StartGroup(g) PROVE ConnsMatch'
    BY <2>13, Identities DEF StartGroup, Launch, GroupConn
  <2>14. ASSUME NEW g \in Groups, SkipGroup(g) PROVE ConnsMatch'
    BY <2>14, Identities DEF SkipGroup
  <2>15. ASSUME NEW g \in Groups, StartGroupFails(g) PROVE ConnsMatch'
    BY <2>15, Identities DEF StartGroupFails, Return
  <2>16. CASE Drained
    BY <2>16, Identities DEF Drained, Forget
  <2>17. CASE CancelOld
    BY <2>17, Identities DEF CancelOld
  <2>18. CASE RemoveOld
    BY <2>18, Identities DEF RemoveOld, ReloadedRow, Forget, Return
  <2>19. CASE LaunchNew
    BY <2>19, Identities DEF LaunchNew, ReloadedRow, Launch, Return
  <2>20. QED
    BY <1>5, <2>1, <2>2, <2>3, <2>4, <2>5, <2>6, <2>7, <2>8, <2>9, <2>10,
        <2>11, <2>12, <2>13, <2>14, <2>15, <2>16, <2>17, <2>18, <2>19 DEF
        OpStep
<1>6. CASE UNCHANGED vars
  BY <1>6
<1>7. QED
  BY <1>1, <1>2, <1>3, <1>4, <1>5, <1>6 DEF Next

(* Launch takes the row as it is, and a later edit marks it.               *)
LEMMA GroupsCurrentStep ==
    IInv /\ SInv /\ [Next]_vars => GroupsCurrent'
<1> SUFFICES ASSUME IInv, SInv, [Next]_vars PROVE GroupsCurrent'
  OBVIOUS
<1> USE DEF IInv, TypeOK, StoreType, TopoType, OpType, OpShape, Idle, SInv,
        GroupsCurrent, StartLocals, ConnLocals, RowLocals, ReloadLocals,
        ClosingUnused, GroupRow, store, owed, grs, topo, what, todo, op, vars
<1>1. ASSUME Environment PROVE GroupsCurrent'
  <2>1. ASSUME NEW c \in Conns, EditConn(c) PROVE GroupsCurrent'
    BY <2>1, Identities DEF EditConn
  <2>2. ASSUME NEW g \in Groups, EditGroup(g) PROVE GroupsCurrent'
    BY <2>2, Identities DEF EditGroup
  <2>3. ASSUME NEW rt \in Rts, LinkLost(rt) PROVE GroupsCurrent'
    BY <2>3, Identities DEF LinkLost
  <2>4. QED
    BY <1>1, <2>1, <2>2, <2>3 DEF Environment
<1>2. ASSUME NEW g \in Groups, Collect(g) PROVE GroupsCurrent'
  <2>1. UNCHANGED <<store, owed, topo, op>>
    BY <1>2, CollectFrame
  <2>2. QED
    BY <2>1
<1>3. ASSUME NEW p \in Callers, Call(p) PROVE GroupsCurrent'
  <2>1. UNCHANGED <<store, owed, topo, op>>
    BY <1>3, CallFrame
  <2>2. QED
    BY <2>1
<1>4. ASSUME BeginOp PROVE GroupsCurrent'
  <2>1. ASSUME NEW c \in Conns, NEW rt \in Rts, ReloadConnection(c, rt)
        PROVE  GroupsCurrent'
    BY <2>1, Identities DEF ReloadConnection, Create, Referenced
  <2>2. ASSUME NEW c \in Conns, DisableConnection(c) PROVE GroupsCurrent'
    BY <2>2, Identities DEF DisableConnection, RemoveConn
  <2>3. ASSUME NEW c \in Conns, UnloadConnection(c) PROVE GroupsCurrent'
    BY <2>3, Identities DEF UnloadConnection, RemoveConn
  <2>4. ASSUME NEW g \in Groups, Reload(g) PROVE GroupsCurrent'
    BY <2>4, Identities DEF Reload
  <2>5. CASE Stop
    BY <2>5, Identities DEF Stop
  <2>6. QED
    BY <1>4, <2>1, <2>2, <2>3, <2>4, <2>5 DEF BeginOp
<1>5. ASSUME OpStep PROVE GroupsCurrent'
  <2>1. ASSUME NEW c \in Conns, NEW rt \in Rts, BootConn(c, rt)
        PROVE  GroupsCurrent'
    BY <2>1, Identities DEF BootConn, Create, Referenced
  <2>2. ASSUME NEW c \in Conns, BootConnFails(c) PROVE GroupsCurrent'
    BY <2>2, Identities DEF BootConnFails
  <2>3. CASE ConnectOk
    BY <2>3, Identities DEF ConnectOk
  <2>4. CASE ConnectFailed
    BY <2>4, Identities DEF ConnectFailed
  <2>5. CASE Discard
    BY <2>5, Identities DEF Discard, Return
  <2>6. CASE Publish
    BY <2>6, Identities DEF Publish, NextPhase
  <2>7. ASSUME NEW rt \in Rts, CloseAcquire(rt) PROVE GroupsCurrent'
    BY <2>7, Identities DEF CloseAcquire
  <2>8. CASE CloseDone
    BY <2>8, Identities DEF CloseDone
  <2>9. CASE CloseFinished
    BY <2>9, Identities DEF CloseFinished, Return, NextPhase
  <2>10. CASE ListGroups
    BY <2>10, Identities DEF ListGroups
  <2>11. CASE ListGroupsFails
    BY <2>11, Identities DEF ListGroupsFails, Return
  <2>12. CASE GroupsStarted
    BY <2>12, Identities DEF GroupsStarted, Return
  <2>13. ASSUME NEW g \in Groups, StartGroup(g) PROVE GroupsCurrent'
    BY <2>13, Identities DEF StartGroup, Launch, GroupConn
  <2>14. ASSUME NEW g \in Groups, SkipGroup(g) PROVE GroupsCurrent'
    BY <2>14, Identities DEF SkipGroup
  <2>15. ASSUME NEW g \in Groups, StartGroupFails(g) PROVE GroupsCurrent'
    BY <2>15, Identities DEF StartGroupFails, Return
  <2>16. CASE Drained
    BY <2>16, Identities DEF Drained, Forget
  <2>17. CASE CancelOld
    BY <2>17, Identities DEF CancelOld
  <2>18. CASE RemoveOld
    BY <2>18, Identities DEF RemoveOld, ReloadedRow, Forget, Return
  <2>19. CASE LaunchNew
    BY <2>19, Identities DEF LaunchNew, ReloadedRow, Launch, Return
  <2>20. QED
    BY <1>5, <2>1, <2>2, <2>3, <2>4, <2>5, <2>6, <2>7, <2>8, <2>9, <2>10,
        <2>11, <2>12, <2>13, <2>14, <2>15, <2>16, <2>17, <2>18, <2>19 DEF
        OpStep
<1>6. CASE UNCHANGED vars
  BY <1>6
<1>7. QED
  BY <1>1, <1>2, <1>3, <1>4, <1>5, <1>6 DEF Next

(* No operation loses a group that the store wants to run.                 *)
LEMMA GroupsCompleteStep ==
    IInv /\ SInv /\ [Next]_vars => GroupsComplete'
<1> SUFFICES ASSUME IInv, SInv, [Next]_vars PROVE GroupsComplete'
  OBVIOUS
<1> USE DEF IInv, TypeOK, StoreType, TopoType, OpType, OpShape, Idle, SInv,
        GroupsComplete, ToStart, ConnsMatch, ToBoot, GroupsCurrent,
        StartLocals, ConnLocals, RowLocals, ReloadLocals, ClosingUnused,
        CandidatePrivate, GroupsUseInstalledConn, GroupRow, store, owed, grs,
        topo, what, todo, op, vars
<1>1. ASSUME Environment PROVE GroupsComplete'
  <2>1. ASSUME NEW c \in Conns, EditConn(c) PROVE GroupsComplete'
    BY <2>1, Identities DEF EditConn
  <2>2. ASSUME NEW g \in Groups, EditGroup(g) PROVE GroupsComplete'
    BY <2>2, Identities DEF EditGroup
  <2>3. ASSUME NEW rt \in Rts, LinkLost(rt) PROVE GroupsComplete'
    BY <2>3, Identities DEF LinkLost
  <2>4. QED
    BY <1>1, <2>1, <2>2, <2>3 DEF Environment
<1>2. ASSUME NEW g \in Groups, Collect(g) PROVE GroupsComplete'
  <2>1. UNCHANGED <<store, owed, topo, op>>
    BY <1>2, CollectFrame
  <2>2. QED
    BY <2>1
<1>3. ASSUME NEW p \in Callers, Call(p) PROVE GroupsComplete'
  <2>1. UNCHANGED <<store, owed, topo, op>>
    BY <1>3, CallFrame
  <2>2. QED
    BY <2>1
<1>4. ASSUME BeginOp PROVE GroupsComplete'
  <2>1. ASSUME NEW c \in Conns, NEW rt \in Rts, ReloadConnection(c, rt)
        PROVE  GroupsComplete'
    BY <2>1, Identities DEF ReloadConnection, Create, Referenced
  <2>2. ASSUME NEW c \in Conns, DisableConnection(c) PROVE GroupsComplete'
    BY <2>2, Identities DEF DisableConnection, RemoveConn
  <2>3. ASSUME NEW c \in Conns, UnloadConnection(c) PROVE GroupsComplete'
    BY <2>3, Identities DEF UnloadConnection, RemoveConn
  <2>4. ASSUME NEW g \in Groups, Reload(g) PROVE GroupsComplete'
    BY <2>4, Identities DEF Reload
  <2>5. CASE Stop
    BY <2>5, Identities DEF Stop
  <2>6. QED
    BY <1>4, <2>1, <2>2, <2>3, <2>4, <2>5 DEF BeginOp
<1>5. ASSUME OpStep PROVE GroupsComplete'
  <2>1. ASSUME NEW c \in Conns, NEW rt \in Rts, BootConn(c, rt)
        PROVE  GroupsComplete'
    BY <2>1, Identities DEF BootConn, Create, Referenced
  <2>2. ASSUME NEW c \in Conns, BootConnFails(c) PROVE GroupsComplete'
    BY <2>2, Identities DEF BootConnFails
  <2>3. CASE ConnectOk
    BY <2>3, Identities DEF ConnectOk
  <2>4. CASE ConnectFailed
    BY <2>4, Identities DEF ConnectFailed
  <2>5. CASE Discard
    BY <2>5, Identities DEF Discard, Return
  <2>6. CASE Publish
    BY <2>6, Identities DEF Publish, NextPhase
  <2>7. ASSUME NEW rt \in Rts, CloseAcquire(rt) PROVE GroupsComplete'
    BY <2>7, Identities DEF CloseAcquire
  <2>8. CASE CloseDone
    BY <2>8, Identities DEF CloseDone
  <2>9. CASE CloseFinished
    BY <2>9, Identities DEF CloseFinished, Return, NextPhase
  <2>10. CASE ListGroups
    BY <2>10, Identities DEF ListGroups
  <2>11. CASE ListGroupsFails
    BY <2>11, Identities DEF ListGroupsFails, Return
  <2>12. CASE GroupsStarted
    BY <2>12, Identities DEF GroupsStarted, Return
  <2>13. ASSUME NEW g \in Groups, StartGroup(g) PROVE GroupsComplete'
    BY <2>13, Identities DEF StartGroup, Launch, GroupConn
  <2>14. ASSUME NEW g \in Groups, SkipGroup(g) PROVE GroupsComplete'
    BY <2>14, Identities DEF SkipGroup
  <2>15. ASSUME NEW g \in Groups, StartGroupFails(g) PROVE GroupsComplete'
    BY <2>15, Identities DEF StartGroupFails, Return
  <2>16. CASE Drained
    BY <2>16, Identities DEF Drained, Forget
  <2>17. CASE CancelOld
    BY <2>17, Identities DEF CancelOld
  <2>18. CASE RemoveOld
    BY <2>18, Identities DEF RemoveOld, ReloadedRow, Forget, Return
  <2>19. CASE LaunchNew
    BY <2>19, Identities DEF LaunchNew, ReloadedRow, Launch, Return
  <2>20. QED
    BY <1>5, <2>1, <2>2, <2>3, <2>4, <2>5, <2>6, <2>7, <2>8, <2>9, <2>10,
        <2>11, <2>12, <2>13, <2>14, <2>15, <2>16, <2>17, <2>18, <2>19 DEF
        OpStep
<1>6. CASE UNCHANGED vars
  BY <1>6
<1>7. QED
  BY <1>1, <1>2, <1>3, <1>4, <1>5, <1>6 DEF Next

(* The locals of Start.                                                    *)
LEMMA StartLocalsStep ==
    IInv /\ SInv /\ [Next]_vars => StartLocals'
<1> SUFFICES ASSUME IInv, SInv, [Next]_vars PROVE StartLocals'
  OBVIOUS
<1> USE DEF IInv, TypeOK, StoreType, TopoType, OpType, OpShape, Idle, SInv,
        StartLocals, ConnsMatch, ToBoot, CandidatePrivate, ClosingUnused,
        store, owed, grs, topo, what, todo, op, vars
<1>1. ASSUME Environment PROVE StartLocals'
  <2>1. ASSUME NEW c \in Conns, EditConn(c) PROVE StartLocals'
    BY <2>1, Identities DEF EditConn
  <2>2. ASSUME NEW g \in Groups, EditGroup(g) PROVE StartLocals'
    BY <2>2, Identities DEF EditGroup
  <2>3. ASSUME NEW rt \in Rts, LinkLost(rt) PROVE StartLocals'
    BY <2>3, Identities DEF LinkLost
  <2>4. QED
    BY <1>1, <2>1, <2>2, <2>3 DEF Environment
<1>2. ASSUME NEW g \in Groups, Collect(g) PROVE StartLocals'
  <2>1. UNCHANGED <<store, owed, topo, op>>
    BY <1>2, CollectFrame
  <2>2. QED
    BY <2>1
<1>3. ASSUME NEW p \in Callers, Call(p) PROVE StartLocals'
  <2>1. UNCHANGED <<store, owed, topo, op>>
    BY <1>3, CallFrame
  <2>2. QED
    BY <2>1
<1>4. ASSUME BeginOp PROVE StartLocals'
  <2>1. ASSUME NEW c \in Conns, NEW rt \in Rts, ReloadConnection(c, rt)
        PROVE  StartLocals'
    BY <2>1, Identities DEF ReloadConnection, Create, Referenced
  <2>2. ASSUME NEW c \in Conns, DisableConnection(c) PROVE StartLocals'
    BY <2>2, Identities DEF DisableConnection, RemoveConn
  <2>3. ASSUME NEW c \in Conns, UnloadConnection(c) PROVE StartLocals'
    BY <2>3, Identities DEF UnloadConnection, RemoveConn
  <2>4. ASSUME NEW g \in Groups, Reload(g) PROVE StartLocals'
    BY <2>4, Identities DEF Reload
  <2>5. CASE Stop
    BY <2>5, Identities DEF Stop
  <2>6. QED
    BY <1>4, <2>1, <2>2, <2>3, <2>4, <2>5 DEF BeginOp
<1>5. ASSUME OpStep PROVE StartLocals'
  <2>1. ASSUME NEW c \in Conns, NEW rt \in Rts, BootConn(c, rt)
        PROVE  StartLocals'
    BY <2>1, Identities DEF BootConn, Create, Referenced
  <2>2. ASSUME NEW c \in Conns, BootConnFails(c) PROVE StartLocals'
    BY <2>2, Identities DEF BootConnFails
  <2>3. CASE ConnectOk
    BY <2>3, Identities DEF ConnectOk
  <2>4. CASE ConnectFailed
    BY <2>4, Identities DEF ConnectFailed
  <2>5. CASE Discard
    BY <2>5, Identities DEF Discard, Return
  <2>6. CASE Publish
    BY <2>6, Identities DEF Publish, NextPhase
  <2>7. ASSUME NEW rt \in Rts, CloseAcquire(rt) PROVE StartLocals'
    BY <2>7, Identities DEF CloseAcquire
  <2>8. CASE CloseDone
    BY <2>8, Identities DEF CloseDone
  <2>9. CASE CloseFinished
    BY <2>9, Identities DEF CloseFinished, Return, NextPhase
  <2>10. CASE ListGroups
    BY <2>10, Identities DEF ListGroups
  <2>11. CASE ListGroupsFails
    BY <2>11, Identities DEF ListGroupsFails, Return
  <2>12. CASE GroupsStarted
    BY <2>12, Identities DEF GroupsStarted, Return
  <2>13. ASSUME NEW g \in Groups, StartGroup(g) PROVE StartLocals'
    BY <2>13, Identities DEF StartGroup, Launch, GroupConn
  <2>14. ASSUME NEW g \in Groups, SkipGroup(g) PROVE StartLocals'
    BY <2>14, Identities DEF SkipGroup
  <2>15. ASSUME NEW g \in Groups, StartGroupFails(g) PROVE StartLocals'
    BY <2>15, Identities DEF StartGroupFails, Return
  <2>16. CASE Drained
    BY <2>16, Identities DEF Drained, Forget
  <2>17. CASE CancelOld
    BY <2>17, Identities DEF CancelOld
  <2>18. CASE RemoveOld
    BY <2>18, Identities DEF RemoveOld, ReloadedRow, Forget, Return
  <2>19. CASE LaunchNew
    BY <2>19, Identities DEF LaunchNew, ReloadedRow, Launch, Return
  <2>20. QED
    BY <1>5, <2>1, <2>2, <2>3, <2>4, <2>5, <2>6, <2>7, <2>8, <2>9, <2>10,
        <2>11, <2>12, <2>13, <2>14, <2>15, <2>16, <2>17, <2>18, <2>19 DEF
        OpStep
<1>6. CASE UNCHANGED vars
  BY <1>6
<1>7. QED
  BY <1>1, <1>2, <1>3, <1>4, <1>5, <1>6 DEF Next

(* The locals of ReloadConnection.                                         *)
LEMMA ConnLocalsStep ==
    IInv /\ SInv /\ [Next]_vars => ConnLocals'
<1> SUFFICES ASSUME IInv, SInv, [Next]_vars PROVE ConnLocals'
  OBVIOUS
<1> USE DEF IInv, TypeOK, StoreType, TopoType, OpType, OpShape, Idle, SInv,
        ConnLocals, StartLocals, CandidatePrivate, ClosingUnused,
        GroupsCurrent, store, owed, grs, topo, what, todo, op, vars
<1>1. ASSUME Environment PROVE ConnLocals'
  <2>1. ASSUME NEW c \in Conns, EditConn(c) PROVE ConnLocals'
    BY <2>1, Identities DEF EditConn
  <2>2. ASSUME NEW g \in Groups, EditGroup(g) PROVE ConnLocals'
    BY <2>2, Identities DEF EditGroup
  <2>3. ASSUME NEW rt \in Rts, LinkLost(rt) PROVE ConnLocals'
    BY <2>3, Identities DEF LinkLost
  <2>4. QED
    BY <1>1, <2>1, <2>2, <2>3 DEF Environment
<1>2. ASSUME NEW g \in Groups, Collect(g) PROVE ConnLocals'
  <2>1. UNCHANGED <<store, owed, topo, op>>
    BY <1>2, CollectFrame
  <2>2. QED
    BY <2>1
<1>3. ASSUME NEW p \in Callers, Call(p) PROVE ConnLocals'
  <2>1. UNCHANGED <<store, owed, topo, op>>
    BY <1>3, CallFrame
  <2>2. QED
    BY <2>1
<1>4. ASSUME BeginOp PROVE ConnLocals'
  <2>1. ASSUME NEW c \in Conns, NEW rt \in Rts, ReloadConnection(c, rt)
        PROVE  ConnLocals'
    BY <2>1, Identities DEF ReloadConnection, Create, Referenced
  <2>2. ASSUME NEW c \in Conns, DisableConnection(c) PROVE ConnLocals'
    BY <2>2, Identities DEF DisableConnection, RemoveConn
  <2>3. ASSUME NEW c \in Conns, UnloadConnection(c) PROVE ConnLocals'
    BY <2>3, Identities DEF UnloadConnection, RemoveConn
  <2>4. ASSUME NEW g \in Groups, Reload(g) PROVE ConnLocals'
    BY <2>4, Identities DEF Reload
  <2>5. CASE Stop
    BY <2>5, Identities DEF Stop
  <2>6. QED
    BY <1>4, <2>1, <2>2, <2>3, <2>4, <2>5 DEF BeginOp
<1>5. ASSUME OpStep PROVE ConnLocals'
  <2>1. ASSUME NEW c \in Conns, NEW rt \in Rts, BootConn(c, rt)
        PROVE  ConnLocals'
    BY <2>1, Identities DEF BootConn, Create, Referenced
  <2>2. ASSUME NEW c \in Conns, BootConnFails(c) PROVE ConnLocals'
    BY <2>2, Identities DEF BootConnFails
  <2>3. CASE ConnectOk
    BY <2>3, Identities DEF ConnectOk
  <2>4. CASE ConnectFailed
    BY <2>4, Identities DEF ConnectFailed
  <2>5. CASE Discard
    BY <2>5, Identities DEF Discard, Return
  <2>6. CASE Publish
    BY <2>6, Identities DEF Publish, NextPhase
  <2>7. ASSUME NEW rt \in Rts, CloseAcquire(rt) PROVE ConnLocals'
    BY <2>7, Identities DEF CloseAcquire
  <2>8. CASE CloseDone
    BY <2>8, Identities DEF CloseDone
  <2>9. CASE CloseFinished
    BY <2>9, Identities DEF CloseFinished, Return, NextPhase
  <2>10. CASE ListGroups
    BY <2>10, Identities DEF ListGroups
  <2>11. CASE ListGroupsFails
    BY <2>11, Identities DEF ListGroupsFails, Return
  <2>12. CASE GroupsStarted
    BY <2>12, Identities DEF GroupsStarted, Return
  <2>13. ASSUME NEW g \in Groups, StartGroup(g) PROVE ConnLocals'
    BY <2>13, Identities DEF StartGroup, Launch, GroupConn
  <2>14. ASSUME NEW g \in Groups, SkipGroup(g) PROVE ConnLocals'
    BY <2>14, Identities DEF SkipGroup
  <2>15. ASSUME NEW g \in Groups, StartGroupFails(g) PROVE ConnLocals'
    BY <2>15, Identities DEF StartGroupFails, Return
  <2>16. CASE Drained
    BY <2>16, Identities DEF Drained, Forget
  <2>17. CASE CancelOld
    BY <2>17, Identities DEF CancelOld
  <2>18. CASE RemoveOld
    BY <2>18, Identities DEF RemoveOld, ReloadedRow, Forget, Return
  <2>19. CASE LaunchNew
    BY <2>19, Identities DEF LaunchNew, ReloadedRow, Launch, Return
  <2>20. QED
    BY <1>5, <2>1, <2>2, <2>3, <2>4, <2>5, <2>6, <2>7, <2>8, <2>9, <2>10,
        <2>11, <2>12, <2>13, <2>14, <2>15, <2>16, <2>17, <2>18, <2>19 DEF
        OpStep
<1>6. CASE UNCHANGED vars
  BY <1>6
<1>7. QED
  BY <1>1, <1>2, <1>3, <1>4, <1>5, <1>6 DEF Next

(* The locals of Reload and of a disabled connection.                      *)
LEMMA RowLocalsStep ==
    IInv /\ SInv /\ [Next]_vars => RowLocals'
<1> SUFFICES ASSUME IInv, SInv, [Next]_vars PROVE RowLocals'
  OBVIOUS
<1> USE DEF IInv, TypeOK, StoreType, TopoType, OpType, OpShape, Idle, SInv,
        RowLocals, StartLocals, CandidatePrivate, ClosingUnused, ReloadLocals,
        store, owed, grs, topo, what, todo, op, vars
<1>1. ASSUME Environment PROVE RowLocals'
  <2>1. ASSUME NEW c \in Conns, EditConn(c) PROVE RowLocals'
    BY <2>1, Identities DEF EditConn
  <2>2. ASSUME NEW g \in Groups, EditGroup(g) PROVE RowLocals'
    BY <2>2, Identities DEF EditGroup
  <2>3. ASSUME NEW rt \in Rts, LinkLost(rt) PROVE RowLocals'
    BY <2>3, Identities DEF LinkLost
  <2>4. QED
    BY <1>1, <2>1, <2>2, <2>3 DEF Environment
<1>2. ASSUME NEW g \in Groups, Collect(g) PROVE RowLocals'
  <2>1. UNCHANGED <<store, owed, topo, op>>
    BY <1>2, CollectFrame
  <2>2. QED
    BY <2>1
<1>3. ASSUME NEW p \in Callers, Call(p) PROVE RowLocals'
  <2>1. UNCHANGED <<store, owed, topo, op>>
    BY <1>3, CallFrame
  <2>2. QED
    BY <2>1
<1>4. ASSUME BeginOp PROVE RowLocals'
  <2>1. ASSUME NEW c \in Conns, NEW rt \in Rts, ReloadConnection(c, rt)
        PROVE  RowLocals'
    BY <2>1, Identities DEF ReloadConnection, Create, Referenced
  <2>2. ASSUME NEW c \in Conns, DisableConnection(c) PROVE RowLocals'
    BY <2>2, Identities DEF DisableConnection, RemoveConn
  <2>3. ASSUME NEW c \in Conns, UnloadConnection(c) PROVE RowLocals'
    BY <2>3, Identities DEF UnloadConnection, RemoveConn
  <2>4. ASSUME NEW g \in Groups, Reload(g) PROVE RowLocals'
    BY <2>4, Identities DEF Reload
  <2>5. CASE Stop
    BY <2>5, Identities DEF Stop
  <2>6. QED
    BY <1>4, <2>1, <2>2, <2>3, <2>4, <2>5 DEF BeginOp
<1>5. ASSUME OpStep PROVE RowLocals'
  <2>1. ASSUME NEW c \in Conns, NEW rt \in Rts, BootConn(c, rt)
        PROVE  RowLocals'
    BY <2>1, Identities DEF BootConn, Create, Referenced
  <2>2. ASSUME NEW c \in Conns, BootConnFails(c) PROVE RowLocals'
    BY <2>2, Identities DEF BootConnFails
  <2>3. CASE ConnectOk
    BY <2>3, Identities DEF ConnectOk
  <2>4. CASE ConnectFailed
    BY <2>4, Identities DEF ConnectFailed
  <2>5. CASE Discard
    BY <2>5, Identities DEF Discard, Return
  <2>6. CASE Publish
    BY <2>6, Identities DEF Publish, NextPhase
  <2>7. ASSUME NEW rt \in Rts, CloseAcquire(rt) PROVE RowLocals'
    BY <2>7, Identities DEF CloseAcquire
  <2>8. CASE CloseDone
    BY <2>8, Identities DEF CloseDone
  <2>9. CASE CloseFinished
    BY <2>9, Identities DEF CloseFinished, Return, NextPhase
  <2>10. CASE ListGroups
    BY <2>10, Identities DEF ListGroups
  <2>11. CASE ListGroupsFails
    BY <2>11, Identities DEF ListGroupsFails, Return
  <2>12. CASE GroupsStarted
    BY <2>12, Identities DEF GroupsStarted, Return
  <2>13. ASSUME NEW g \in Groups, StartGroup(g) PROVE RowLocals'
    BY <2>13, Identities DEF StartGroup, Launch, GroupConn
  <2>14. ASSUME NEW g \in Groups, SkipGroup(g) PROVE RowLocals'
    BY <2>14, Identities DEF SkipGroup
  <2>15. ASSUME NEW g \in Groups, StartGroupFails(g) PROVE RowLocals'
    BY <2>15, Identities DEF StartGroupFails, Return
  <2>16. CASE Drained
    BY <2>16, Identities DEF Drained, Forget
  <2>17. CASE CancelOld
    BY <2>17, Identities DEF CancelOld
  <2>18. CASE RemoveOld
    BY <2>18, Identities DEF RemoveOld, ReloadedRow, Forget, Return
  <2>19. CASE LaunchNew
    BY <2>19, Identities DEF LaunchNew, ReloadedRow, Launch, Return
  <2>20. QED
    BY <1>5, <2>1, <2>2, <2>3, <2>4, <2>5, <2>6, <2>7, <2>8, <2>9, <2>10,
        <2>11, <2>12, <2>13, <2>14, <2>15, <2>16, <2>17, <2>18, <2>19 DEF
        OpStep
<1>6. CASE UNCHANGED vars
  BY <1>6
<1>7. QED
  BY <1>1, <1>2, <1>3, <1>4, <1>5, <1>6 DEF Next

LEMMA InitSInv == Init => SInv
<1> SUFFICES ASSUME Init PROVE SInv
  OBVIOUS
<1> USE Identities, Bounds DEF Init
<1>1. ConnsMatch /\ GroupsCurrent /\ GroupsComplete
  BY DEF ConnsMatch, ToBoot, GroupsCurrent, GroupsComplete, ToStart
<1>2. StartLocals /\ ConnLocals /\ RowLocals
  BY DEF StartLocals, ConnLocals, RowLocals
<1>3. QED
  BY <1>1, <1>2 DEF SInv

(* What the operation in progress still owes the store is in its locals.   *)
LEMMA StoreInv == Spec => []SInv
<1>1. IInv /\ SInv /\ [Next]_vars => SInv'
  <2> SUFFICES ASSUME IInv, SInv, [Next]_vars PROVE SInv'
    OBVIOUS
  <2>1. ConnsMatch' /\ GroupsCurrent' /\ GroupsComplete'
    BY ConnsMatchStep, GroupsCurrentStep, GroupsCompleteStep
  <2>2. StartLocals' /\ ConnLocals' /\ RowLocals'
    BY StartLocalsStep, ConnLocalsStep, RowLocalsStep
  <2>3. QED
    BY <2>1, <2>2 DEF SInv
<1>2. QED
  BY InitSInv, Inductive, <1>1, PTL DEF Spec

(* Whatever edits, failed operations and restarts came before: a row that  *)
(* was reloaded after its last edit is what runs.  The first direction for *)
(* a group, that nothing runs which the store does not want, needs the     *)
(* connection it refers to to be the installed one.                        *)
THEOREM Matches == Spec => []RuntimeMatchesStore
<1>1. IInv /\ SInv => RuntimeMatchesStore
  <2> SUFFICES ASSUME IInv, SInv, Idle, started PROVE RuntimeMatchesStore
    BY DEF RuntimeMatchesStore
  <2> USE DEF IInv, SInv
  <2>1. opKind = "none" /\ opPc = "idle"
    BY DEF OpShape, Idle
  <2>2. \A c \in Conns \ pendingConns : conns[c] # None <=> connOn[c]
    BY <2>1 DEF ConnsMatch, ToBoot, TypeOK, StoreType
  <2>3. ASSUME NEW g \in Groups \ pendingGroups,
               groupRow[g].conn \notin pendingConns
        PROVE  /\ g \in groups <=> groupRow[g].enabled
                                     /\ connOn[groupRow[g].conn]
               /\ g \in groups => /\ grConn[g] = groupRow[g].conn
                                  /\ grTagged[g] = groupRow[g].tagged
    <3>1. g \in groups => /\ groupRow[g].enabled
                          /\ grConn[g] = groupRow[g].conn
                          /\ grTagged[g] = groupRow[g].tagged
      BY <2>3 DEF GroupsCurrent
    <3>2. g \in groups => connOn[groupRow[g].conn]
      BY <2>2, <2>3, <3>1 DEF GroupsUseInstalledConn
    <3>3. groupRow[g].enabled /\ connOn[groupRow[g].conn] => g \in groups
      BY <2>1, <2>3 DEF GroupsComplete, ToStart
    <3>4. QED
      BY <3>1, <3>2, <3>3
  <2>4. QED
    BY <2>2, <2>3 DEF RuntimeMatchesStore
<1>2. QED
  BY Inductive, StoreInv, <1>1, PTL
=============================================================================
