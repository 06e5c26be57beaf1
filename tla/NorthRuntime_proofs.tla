------------------------- MODULE NorthRuntime_proofs -------------------------
(***************************************************************************)
(* Proofs about NorthRuntime, for any groups, applications, instances and  *)
(* devices and any size of the channels.  IInv is inductive: one lemma per *)
(* conjunct says that a step which starts in IInv preserves it.  The three *)
(* families of steps (feeds and bridges, beginnings of operations, their   *)
(* later steps) are one case each, and split into actions where a conjunct *)
(* needs more than their definitions.                                      *)
(***************************************************************************)
EXTENDS NorthRuntime, TLAPS

(* What an operation gets from the pool and from a row.                    *)
LEMMA LookupType ==
    ASSUME NEW ids \in SUBSET Apps, NEW p \in [Apps -> Insts \cup {None}]
    PROVE  Lookup(ids, p) \subseteq Insts
  BY DEF Lookup

LEMMA LookupMonotone ==
    ASSUME NEW ids \in SUBSET Apps, NEW p
    PROVE  Lookup(ids, p) \subseteq Lookup(Apps, p)
  BY DEF Lookup

LEMMA LookupSame ==
    ASSUME NEW ids, NEW p, NEW q, \A a \in ids : p[a] = q[a]
    PROVE  Lookup(ids, p) = Lookup(ids, q)
  BY DEF Lookup

LEMMA Rows ==
    /\ None \in GroupRow
    /\ \A row \in EnabledRow :
          row \in GroupRow /\ row # None
          /\ row.apps \in SUBSET Apps /\ row.dev \in Devices
    /\ \A row \in GroupRow : row # None => row \in EnabledRow
  BY Distinct DEF GroupRow, EnabledRow

(* Only Start and Stop change started.                                     *)
LEMMA StartedStep == IInv /\ [Next]_vars => started' \in BOOLEAN
<1> SUFFICES ASSUME IInv, [Next]_vars PROVE started' \in BOOLEAN
  OBVIOUS
<1> USE DEF IInv, TypeOK, AppsType, TopoType, FeedType, OpType, Idle, apps,
        topo, feed, op, vars
<1>1. ASSUME NEW g \in Groups, Publish(g) \/ Bridge(g)
      PROVE  started' \in BOOLEAN
  BY <1>1 DEF Bridge, Publish, BridgeTake, BridgeLock, BridgeUnlock,
      BridgeExit, BridgeCall
<1>2. ASSUME BeginOp PROVE started' \in BOOLEAN
  BY <1>2 DEF BeginOp, Start, Stop, Cancel, StartGroup, Launch, ReloadGroup,
      StopGroups, CreateApp, Unused, RemoveApp, Repoint, Bound
<1>3. ASSUME OpStep PROVE started' \in BOOLEAN
  BY <1>3 DEF OpStep, Reject, Return, InstallApp, Repoint, Bound, AwaitNorths,
      WriterWaits, LockNorths, CloseOld, RegisterGroups, EndGroup, Deregister,
      Forget, Drained, ReplaceGroup, LaunchNew, Launch, Leave, CloseApps, Left
<1>4. ASSUME NEW i \in Insts, LinkChanges(i) PROVE started' \in BOOLEAN
  BY <1>4 DEF LinkChanges
<1>5. CASE UNCHANGED vars
  BY <1>5
<1>6. QED
  BY <1>1, <1>2, <1>3, <1>4, <1>5 DEF Next

(* Instances come from CreateApp, registrations from the groups in the     *)
(* maps.                                                                   *)
LEMMA AppsTypeStep == IInv /\ [Next]_vars => AppsType'
<1> SUFFICES ASSUME IInv, [Next]_vars PROVE AppsType'
  OBVIOUS
<1> USE Distinct DEF IInv, TypeOK, AppsType, TopoType, FeedType, OpType,
        OpShape, Idle, apps, topo, feed, op, vars
<1>1. ASSUME NEW g \in Groups, Publish(g) \/ Bridge(g) PROVE AppsType'
  BY <1>1 DEF Bridge, Publish, BridgeTake, BridgeLock, BridgeUnlock,
      BridgeExit, BridgeCall
<1>2. ASSUME BeginOp PROVE AppsType'
  <2>1. CASE Start
    BY <2>1 DEF Start
  <2>2. CASE Stop
    BY <2>2, LookupType, Rows DEF Stop, Cancel
  <2>3. ASSUME NEW g \in Groups, StartGroup(g) PROVE AppsType'
    BY <2>3, LookupType, Rows DEF StartGroup, Launch
  <2>4. ASSUME NEW g \in Groups, ReloadGroup(g) PROVE AppsType'
    BY <2>4, LookupType, Rows DEF ReloadGroup, Cancel
  <2>5. ASSUME NEW gs \in SUBSET Groups, StopGroups(gs) PROVE AppsType'
    BY <2>5 DEF StopGroups, Cancel
  <2>6. ASSUME NEW a \in Apps, NEW i \in Insts, CreateApp(a, i)
        PROVE  AppsType'
    BY <2>6 DEF CreateApp, Unused
  <2>7. ASSUME NEW a \in Apps, NEW detach \in BOOLEAN, RemoveApp(a, detach)
        PROVE  AppsType'
    BY <2>7, LookupType, Rows DEF RemoveApp, Repoint, Bound
  <2>8. QED
    BY <1>2, <2>1, <2>2, <2>3, <2>4, <2>5, <2>6, <2>7 DEF BeginOp
<1>3. ASSUME OpStep PROVE AppsType'
  BY <1>3, Rows, LookupType DEF OpStep, Reject, Return, InstallApp, Repoint,
      Bound, AwaitNorths, WriterWaits, LockNorths, CloseOld, RegisterGroups,
      EndGroup, Deregister, Forget, Drained, ReplaceGroup, LaunchNew, Launch,
      Leave, CloseApps, Left
<1>4. ASSUME NEW i \in Insts, LinkChanges(i) PROVE AppsType'
  BY <1>4 DEF LinkChanges
<1>5. CASE UNCHANGED vars
  BY <1>5
<1>6. QED
  BY <1>1, <1>2, <1>3, <1>4, <1>5 DEF Next

(* Rows name applications and devices, and lookups yield instances.        *)
LEMMA TopoTypeStep == IInv /\ [Next]_vars => TopoType'
<1> SUFFICES ASSUME IInv, [Next]_vars PROVE TopoType'
  OBVIOUS
<1> USE Distinct DEF IInv, TypeOK, AppsType, TopoType, FeedType, OpType,
        OpShape, Idle, apps, topo, feed, op, vars
<1>1. ASSUME NEW g \in Groups, Publish(g) \/ Bridge(g) PROVE TopoType'
  BY <1>1 DEF Bridge, Publish, BridgeTake, BridgeLock, BridgeUnlock,
      BridgeExit, BridgeCall
<1>2. ASSUME BeginOp PROVE TopoType'
  <2>1. CASE Start
    BY <2>1 DEF Start
  <2>2. CASE Stop
    BY <2>2, LookupType, Rows DEF Stop, Cancel
  <2>3. ASSUME NEW g \in Groups, StartGroup(g) PROVE TopoType'
    BY <2>3, LookupType, Rows DEF StartGroup, Launch
  <2>4. ASSUME NEW g \in Groups, ReloadGroup(g) PROVE TopoType'
    BY <2>4, LookupType, Rows DEF ReloadGroup, Cancel
  <2>5. ASSUME NEW gs \in SUBSET Groups, StopGroups(gs) PROVE TopoType'
    BY <2>5 DEF StopGroups, Cancel
  <2>6. ASSUME NEW a \in Apps, NEW i \in Insts, CreateApp(a, i)
        PROVE  TopoType'
    BY <2>6 DEF CreateApp, Unused
  <2>7. ASSUME NEW a \in Apps, NEW detach \in BOOLEAN, RemoveApp(a, detach)
        PROVE  TopoType'
    BY <2>7, LookupType, Rows DEF RemoveApp, Repoint, Bound
  <2>8. QED
    BY <1>2, <2>1, <2>2, <2>3, <2>4, <2>5, <2>6, <2>7 DEF BeginOp
<1>3. ASSUME OpStep PROVE TopoType'
  <2>1. CASE Reject
    BY <2>1, Rows DEF Reject, Return
  <2>2. CASE InstallApp
    BY <2>2, LookupType, Rows DEF InstallApp, Repoint, Bound
  <2>3. CASE AwaitNorths \/ LockNorths
    BY <2>3 DEF AwaitNorths, WriterWaits, LockNorths
  <2>4. CASE CloseOld
    BY <2>4 DEF CloseOld
  <2>5. CASE RegisterGroups
    BY <2>5, Rows DEF RegisterGroups, Return
  <2>6. ASSUME NEW g \in Groups, EndGroup(g) PROVE TopoType'
    BY <2>6, Rows DEF EndGroup, Deregister, Forget, Return, Drained
  <2>7. ASSUME NEW g \in Groups, ReplaceGroup(g) PROVE TopoType'
    BY <2>7 DEF ReplaceGroup, Deregister, Drained
  <2>8. ASSUME NEW g \in Groups, LaunchNew(g) PROVE TopoType'
    BY <2>8, LookupType, Rows DEF LaunchNew, Launch, Return
  <2>9. ASSUME NEW g \in Groups, Leave(g) PROVE TopoType'
    BY <2>9 DEF Leave, Deregister, Forget, Drained
  <2>10. ASSUME NEW i \in Insts, CloseApps(i) PROVE TopoType'
    BY <2>10 DEF CloseApps
  <2>11. CASE Left
    BY <2>11, Rows DEF Left, Return
  <2>12. QED
    BY <1>3, <2>1, <2>2, <2>3, <2>4, <2>5, <2>6, <2>7, <2>8, <2>9, <2>10,
        <2>11 DEF OpStep
<1>4. ASSUME NEW i \in Insts, LinkChanges(i) PROVE TopoType'
  BY <1>4 DEF LinkChanges
<1>5. CASE UNCHANGED vars
  BY <1>5
<1>6. QED
  BY <1>1, <1>2, <1>3, <1>4, <1>5 DEF Next

(* A channel holds what its buffer takes.                                  *)
LEMMA FeedTypeStep == IInv /\ [Next]_vars => FeedType'
<1> SUFFICES ASSUME IInv, [Next]_vars PROVE FeedType'
  OBVIOUS
<1> USE Distinct, Buffer DEF IInv, TypeOK, AppsType, TopoType, FeedType,
        OpType, OpShape, Idle, apps, topo, feed, op, vars
<1>1. ASSUME NEW g \in Groups, Publish(g) \/ Bridge(g) PROVE FeedType'
  BY <1>1 DEF Bridge, Publish, BridgeTake, BridgeLock, BridgeUnlock,
      BridgeExit, BridgeCall
<1>2. ASSUME BeginOp PROVE FeedType'
  <2>1. CASE Start
    BY <2>1 DEF Start
  <2>2. CASE Stop
    BY <2>2, LookupType, Rows DEF Stop, Cancel
  <2>3. ASSUME NEW g \in Groups, StartGroup(g) PROVE FeedType'
    BY <2>3, LookupType, Rows DEF StartGroup, Launch
  <2>4. ASSUME NEW g \in Groups, ReloadGroup(g) PROVE FeedType'
    BY <2>4, LookupType, Rows DEF ReloadGroup, Cancel
  <2>5. ASSUME NEW gs \in SUBSET Groups, StopGroups(gs) PROVE FeedType'
    BY <2>5 DEF StopGroups, Cancel
  <2>6. ASSUME NEW a \in Apps, NEW i \in Insts, CreateApp(a, i)
        PROVE  FeedType'
    BY <2>6 DEF CreateApp, Unused
  <2>7. ASSUME NEW a \in Apps, NEW detach \in BOOLEAN, RemoveApp(a, detach)
        PROVE  FeedType'
    BY <2>7, LookupType, Rows DEF RemoveApp, Repoint, Bound
  <2>8. QED
    BY <1>2, <2>1, <2>2, <2>3, <2>4, <2>5, <2>6, <2>7 DEF BeginOp
<1>3. ASSUME OpStep PROVE FeedType'
  BY <1>3, Rows, LookupType DEF OpStep, Reject, Return, InstallApp, Repoint,
      Bound, AwaitNorths, WriterWaits, LockNorths, CloseOld, RegisterGroups,
      EndGroup, Deregister, Forget, Drained, ReplaceGroup, LaunchNew, Launch,
      Leave, CloseApps, Left
<1>4. ASSUME NEW i \in Insts, LinkChanges(i) PROVE FeedType'
  BY <1>4 DEF LinkChanges
<1>5. CASE UNCHANGED vars
  BY <1>5
<1>6. QED
  BY <1>1, <1>2, <1>3, <1>4, <1>5 DEF Next

(* An operation only remembers what it has read or found in the maps.      *)
LEMMA OpTypeStep == IInv /\ [Next]_vars => OpType'
<1> SUFFICES ASSUME IInv, [Next]_vars PROVE OpType'
  OBVIOUS
<1> USE Distinct DEF IInv, TypeOK, AppsType, TopoType, FeedType, OpType,
        OpShape, Phases, Idle, apps, topo, feed, op, vars
<1>1. ASSUME NEW g \in Groups, Publish(g) \/ Bridge(g) PROVE OpType'
  BY <1>1 DEF Bridge, Publish, BridgeTake, BridgeLock, BridgeUnlock,
      BridgeExit, BridgeCall
<1>2. ASSUME BeginOp PROVE OpType'
  <2>1. CASE Start
    BY <2>1 DEF Start
  <2>2. CASE Stop
    BY <2>2, LookupType, Rows DEF Stop, Cancel
  <2>3. ASSUME NEW g \in Groups, StartGroup(g) PROVE OpType'
    BY <2>3, LookupType, Rows DEF StartGroup, Launch
  <2>4. ASSUME NEW g \in Groups, ReloadGroup(g) PROVE OpType'
    BY <2>4, LookupType, Rows DEF ReloadGroup, Cancel
  <2>5. ASSUME NEW gs \in SUBSET Groups, StopGroups(gs) PROVE OpType'
    BY <2>5 DEF StopGroups, Cancel
  <2>6. ASSUME NEW a \in Apps, NEW i \in Insts, CreateApp(a, i)
        PROVE  OpType'
    BY <2>6 DEF CreateApp, Unused
  <2>7. ASSUME NEW a \in Apps, NEW detach \in BOOLEAN, RemoveApp(a, detach)
        PROVE  OpType'
    BY <2>7, LookupType, Rows DEF RemoveApp, Repoint, Bound
  <2>8. QED
    BY <1>2, <2>1, <2>2, <2>3, <2>4, <2>5, <2>6, <2>7 DEF BeginOp
<1>3. ASSUME OpStep PROVE OpType'
  BY <1>3, Rows, LookupType DEF OpStep, Reject, Return, InstallApp, Repoint,
      Bound, AwaitNorths, WriterWaits, LockNorths, CloseOld, RegisterGroups,
      EndGroup, Deregister, Forget, Drained, ReplaceGroup, LaunchNew, Launch,
      Leave, CloseApps, Left
<1>4. ASSUME NEW i \in Insts, LinkChanges(i) PROVE OpType'
  BY <1>4 DEF LinkChanges
<1>5. CASE UNCHANGED vars
  BY <1>5
<1>6. QED
  BY <1>1, <1>2, <1>3, <1>4, <1>5 DEF Next

(* A group leaves the map for good only when its bridge has exited.        *)
LEMMA BridgesOwnedStep == IInv /\ [Next]_vars => BridgesOwned'
<1> SUFFICES ASSUME IInv, [Next]_vars PROVE BridgesOwned'
  OBVIOUS
<1> USE DEF IInv, TypeOK, AppsType, TopoType, FeedType, OpType, OpShape,
        BridgesOwned, Idle, apps, topo, feed, op, vars
<1>1. ASSUME NEW g \in Groups, Publish(g) \/ Bridge(g) PROVE BridgesOwned'
  BY <1>1 DEF Bridge, Publish, BridgeTake, BridgeLock, BridgeUnlock,
      BridgeExit, BridgeCall
<1>2. ASSUME BeginOp PROVE BridgesOwned'
  <2>1. CASE Start
    BY <2>1 DEF Start
  <2>2. CASE Stop
    BY <2>2 DEF Stop, Cancel
  <2>3. ASSUME NEW g \in Groups, StartGroup(g) PROVE BridgesOwned'
    BY <2>3 DEF StartGroup, Launch
  <2>4. ASSUME NEW g \in Groups, ReloadGroup(g) PROVE BridgesOwned'
    BY <2>4 DEF ReloadGroup, Cancel
  <2>5. ASSUME NEW gs \in SUBSET Groups, StopGroups(gs) PROVE BridgesOwned'
    BY <2>5 DEF StopGroups, Cancel
  <2>6. ASSUME NEW a \in Apps, NEW i \in Insts, CreateApp(a, i)
        PROVE  BridgesOwned'
    BY <2>6 DEF CreateApp, Unused
  <2>7. ASSUME NEW a \in Apps, NEW detach \in BOOLEAN, RemoveApp(a, detach)
        PROVE  BridgesOwned'
    BY <2>7 DEF RemoveApp, Repoint, Bound
  <2>8. QED
    BY <1>2, <2>1, <2>2, <2>3, <2>4, <2>5, <2>6, <2>7 DEF BeginOp
<1>3. ASSUME OpStep PROVE BridgesOwned'
  BY <1>3 DEF OpStep, Reject, Return, InstallApp, Repoint, Bound, AwaitNorths,
      WriterWaits, LockNorths, CloseOld, RegisterGroups, EndGroup, Deregister,
      Forget, Drained, ReplaceGroup, LaunchNew, Launch, Leave, CloseApps, Left
<1>4. ASSUME NEW i \in Insts, LinkChanges(i) PROVE BridgesOwned'
  BY <1>4 DEF LinkChanges
<1>5. CASE UNCHANGED vars
  BY <1>5
<1>6. QED
  BY <1>1, <1>2, <1>3, <1>4, <1>5 DEF Next

(* Cancelling takes the subscription, launching gives it back with a       *)
(* bridge.                                                                 *)
LEMMA SubscriptionsOwnedStep == IInv /\ [Next]_vars => SubscriptionsOwned'
<1> SUFFICES ASSUME IInv, [Next]_vars PROVE SubscriptionsOwned'
  OBVIOUS
<1> USE DEF IInv, TypeOK, AppsType, TopoType, FeedType, OpType, OpShape,
        BridgesOwned, SubscriptionsOwned, Idle, apps, topo, feed, op, vars
<1>1. ASSUME NEW g \in Groups, Publish(g) \/ Bridge(g)
      PROVE  SubscriptionsOwned'
  BY <1>1 DEF Bridge, Publish, BridgeTake, BridgeLock, BridgeUnlock,
      BridgeExit, BridgeCall
<1>2. ASSUME BeginOp PROVE SubscriptionsOwned'
  <2>1. CASE Start
    BY <2>1 DEF Start
  <2>2. CASE Stop
    BY <2>2 DEF Stop, Cancel
  <2>3. ASSUME NEW g \in Groups, StartGroup(g) PROVE SubscriptionsOwned'
    BY <2>3 DEF StartGroup, Launch
  <2>4. ASSUME NEW g \in Groups, ReloadGroup(g) PROVE SubscriptionsOwned'
    BY <2>4 DEF ReloadGroup, Cancel
  <2>5. ASSUME NEW gs \in SUBSET Groups, StopGroups(gs)
        PROVE  SubscriptionsOwned'
    BY <2>5 DEF StopGroups, Cancel
  <2>6. ASSUME NEW a \in Apps, NEW i \in Insts, CreateApp(a, i)
        PROVE  SubscriptionsOwned'
    BY <2>6 DEF CreateApp, Unused
  <2>7. ASSUME NEW a \in Apps, NEW detach \in BOOLEAN, RemoveApp(a, detach)
        PROVE  SubscriptionsOwned'
    BY <2>7 DEF RemoveApp, Repoint, Bound
  <2>8. QED
    BY <1>2, <2>1, <2>2, <2>3, <2>4, <2>5, <2>6, <2>7 DEF BeginOp
<1>3. ASSUME OpStep PROVE SubscriptionsOwned'
  BY <1>3 DEF OpStep, Reject, Return, InstallApp, Repoint, Bound, AwaitNorths,
      WriterWaits, LockNorths, CloseOld, RegisterGroups, EndGroup, Deregister,
      Forget, Drained, ReplaceGroup, LaunchNew, Launch, Leave, CloseApps, Left
<1>4. ASSUME NEW i \in Insts, LinkChanges(i) PROVE SubscriptionsOwned'
  BY <1>4 DEF LinkChanges
<1>5. CASE UNCHANGED vars
  BY <1>5
<1>6. QED
  BY <1>1, <1>2, <1>3, <1>4, <1>5 DEF Next

(* InstallApp brings an instance that no application has.                  *)
LEMMA OneAppEachStep == IInv /\ [Next]_vars => OneAppEach'
<1> SUFFICES ASSUME IInv, [Next]_vars PROVE OneAppEach'
  OBVIOUS
<1> USE DEF IInv, TypeOK, AppsType, TopoType, FeedType, OpType, OpShape,
        OneAppEach, Idle, apps, topo, feed, op, vars
<1>1. ASSUME NEW g \in Groups, Publish(g) \/ Bridge(g) PROVE OneAppEach'
  BY <1>1 DEF Bridge, Publish, BridgeTake, BridgeLock, BridgeUnlock,
      BridgeExit, BridgeCall
<1>2. ASSUME BeginOp PROVE OneAppEach'
  <2>1. CASE Start
    BY <2>1 DEF Start
  <2>2. CASE Stop
    BY <2>2 DEF Stop, Cancel
  <2>3. ASSUME NEW g \in Groups, StartGroup(g) PROVE OneAppEach'
    BY <2>3 DEF StartGroup, Launch
  <2>4. ASSUME NEW g \in Groups, ReloadGroup(g) PROVE OneAppEach'
    BY <2>4 DEF ReloadGroup, Cancel
  <2>5. ASSUME NEW gs \in SUBSET Groups, StopGroups(gs) PROVE OneAppEach'
    BY <2>5 DEF StopGroups, Cancel
  <2>6. ASSUME NEW a \in Apps, NEW i \in Insts, CreateApp(a, i)
        PROVE  OneAppEach'
    BY <2>6 DEF CreateApp, Unused
  <2>7. ASSUME NEW a \in Apps, NEW detach \in BOOLEAN, RemoveApp(a, detach)
        PROVE  OneAppEach'
    BY <2>7 DEF RemoveApp, Repoint, Bound
  <2>8. QED
    BY <1>2, <2>1, <2>2, <2>3, <2>4, <2>5, <2>6, <2>7 DEF BeginOp
<1>3. ASSUME OpStep PROVE OneAppEach'
  BY <1>3 DEF OpStep, Reject, Return, InstallApp, Repoint, Bound, AwaitNorths,
      WriterWaits, LockNorths, CloseOld, RegisterGroups, EndGroup, Deregister,
      Forget, Drained, ReplaceGroup, LaunchNew, Launch, Leave, CloseApps, Left
<1>4. ASSUME NEW i \in Insts, LinkChanges(i) PROVE OneAppEach'
  BY <1>4 DEF LinkChanges
<1>5. CASE UNCHANGED vars
  BY <1>5
<1>6. QED
  BY <1>1, <1>2, <1>3, <1>4, <1>5 DEF Next

(* InstallApp and RemoveApp look up again for the groups bound to the      *)
(* application, and the others cannot see the difference.                  *)
LEMMA NorthsInstalledStep == IInv /\ [Next]_vars => NorthsInstalled'
<1> SUFFICES ASSUME IInv, [Next]_vars PROVE NorthsInstalled'
  OBVIOUS
<1> USE DEF IInv, TypeOK, AppsType, TopoType, FeedType, OpType, OpShape,
        NorthsInstalled, Idle, apps, topo, feed, op, vars
<1>1. ASSUME NEW g \in Groups, Publish(g) \/ Bridge(g) PROVE NorthsInstalled'
  BY <1>1 DEF Bridge, Publish, BridgeTake, BridgeLock, BridgeUnlock,
      BridgeExit, BridgeCall
<1>2. ASSUME BeginOp PROVE NorthsInstalled'
  <2>1. CASE Start
    BY <2>1 DEF Start
  <2>2. CASE Stop
    BY <2>2 DEF Stop, Cancel, Lookup
  <2>3. ASSUME NEW g \in Groups, StartGroup(g) PROVE NorthsInstalled'
    BY <2>3 DEF StartGroup, Launch
  <2>4. ASSUME NEW g \in Groups, ReloadGroup(g) PROVE NorthsInstalled'
    BY <2>4 DEF ReloadGroup, Cancel
  <2>5. ASSUME NEW gs \in SUBSET Groups, StopGroups(gs)
        PROVE  NorthsInstalled'
    BY <2>5 DEF StopGroups, Cancel
  <2>6. ASSUME NEW a \in Apps, NEW i \in Insts, CreateApp(a, i)
        PROVE  NorthsInstalled'
    BY <2>6 DEF CreateApp, Unused
  <2>7. ASSUME NEW a \in Apps, NEW detach \in BOOLEAN, RemoveApp(a, detach)
        PROVE  NorthsInstalled'
    <3>1. ASSUME NEW h \in running
          PROVE  norths'[h] = Lookup(groupApps'[h], pool')
      <4>1. CASE h \in Bound(a)
        BY <2>7, <4>1 DEF RemoveApp, Repoint
      <4>2. CASE h \notin Bound(a)
        <5>1. norths'[h] = norths[h] /\ groupApps'[h] = groupApps[h]
          BY <2>7, <4>2 DEF RemoveApp
        <5>2. a \in Apps /\ a \notin groupApps[h]
          BY <2>7, <4>2 DEF RemoveApp, Bound
        <5>3. \A b \in groupApps[h] : pool'[b] = pool[b]
          BY <2>7, <5>2 DEF RemoveApp, Repoint
        <5>4. Lookup(groupApps[h], pool') = Lookup(groupApps[h], pool)
          BY <5>3, LookupSame
        <5>5. QED
          BY <5>1, <5>4
      <4>3. QED
        BY <4>1, <4>2
    <3>2. running' = running
      BY <2>7 DEF RemoveApp
    <3>3. QED
      BY <3>1, <3>2
  <2>8. QED
    BY <1>2, <2>1, <2>2, <2>3, <2>4, <2>5, <2>6, <2>7 DEF BeginOp
<1>3. ASSUME OpStep PROVE NorthsInstalled'
  <2>1. CASE Reject
    BY <2>1 DEF Reject, Return
  <2>2. CASE InstallApp
    <3>1. ASSUME NEW h \in running
          PROVE  norths'[h] = Lookup(groupApps'[h], pool')
      <4>1. CASE h \in Bound(opApp)
        BY <2>2, <4>1 DEF InstallApp, Repoint
      <4>2. CASE h \notin Bound(opApp)
        <5>1. norths'[h] = norths[h] /\ groupApps'[h] = groupApps[h]
          BY <2>2, <4>2 DEF InstallApp
        <5>2. opApp \in Apps /\ opApp \notin groupApps[h]
          BY <2>2, <4>2 DEF InstallApp, Bound
        <5>3. \A b \in groupApps[h] : pool'[b] = pool[b]
          BY <2>2, <5>2 DEF InstallApp, Repoint
        <5>4. Lookup(groupApps[h], pool') = Lookup(groupApps[h], pool)
          BY <5>3, LookupSame
        <5>5. QED
          BY <5>1, <5>4
      <4>3. QED
        BY <4>1, <4>2
    <3>2. running' = running
      BY <2>2 DEF InstallApp
    <3>3. QED
      BY <3>1, <3>2
  <2>3. CASE AwaitNorths \/ LockNorths
    BY <2>3 DEF AwaitNorths, WriterWaits, LockNorths
  <2>4. CASE CloseOld
    BY <2>4 DEF CloseOld
  <2>5. CASE RegisterGroups
    BY <2>5 DEF RegisterGroups, Return
  <2>6. ASSUME NEW g \in Groups, EndGroup(g) PROVE NorthsInstalled'
    BY <2>6 DEF EndGroup, Deregister, Forget, Return, Drained
  <2>7. ASSUME NEW g \in Groups, ReplaceGroup(g) PROVE NorthsInstalled'
    BY <2>7 DEF ReplaceGroup, Deregister, Drained
  <2>8. ASSUME NEW g \in Groups, LaunchNew(g) PROVE NorthsInstalled'
    BY <2>8 DEF LaunchNew, Launch, Return
  <2>9. ASSUME NEW g \in Groups, Leave(g) PROVE NorthsInstalled'
    BY <2>9 DEF Leave, Deregister, Forget, Drained
  <2>10. ASSUME NEW i \in Insts, CloseApps(i) PROVE NorthsInstalled'
    BY <2>10 DEF CloseApps
  <2>11. CASE Left
    BY <2>11 DEF Left, Return
  <2>12. QED
    BY <1>3, <2>1, <2>2, <2>3, <2>4, <2>5, <2>6, <2>7, <2>8, <2>9, <2>10,
        <2>11 DEF OpStep
<1>4. ASSUME NEW i \in Insts, LinkChanges(i) PROVE NorthsInstalled'
  BY <1>4 DEF LinkChanges
<1>5. CASE UNCHANGED vars
  BY <1>5
<1>6. QED
  BY <1>1, <1>2, <1>3, <1>4, <1>5 DEF Next

(* An instance is closed only when no live group refers to it.             *)
LEMMA NorthsOpenStep == IInv /\ [Next]_vars => NorthsOpen'
<1> SUFFICES ASSUME IInv, [Next]_vars PROVE NorthsOpen'
  OBVIOUS
<1> USE Distinct DEF IInv, TypeOK, AppsType, TopoType, FeedType, OpType,
        OpShape, NorthsOpen, BridgesOwned, NorthsInstalled, OpenAccounted,
        Transient, Idle, apps, topo, feed, op, vars
<1>1. ASSUME NEW g \in Groups, Publish(g) \/ Bridge(g) PROVE NorthsOpen'
  BY <1>1 DEF Bridge, Publish, BridgeTake, BridgeLock, BridgeUnlock,
      BridgeExit, BridgeCall
<1>2. ASSUME BeginOp PROVE NorthsOpen'
  BY <1>2, LookupMonotone, Rows DEF BeginOp, Start, Stop, Cancel, StartGroup,
      Launch, ReloadGroup, StopGroups, CreateApp, Unused, RemoveApp, Repoint,
      Bound, Lookup
<1>3. ASSUME OpStep PROVE NorthsOpen'
  BY <1>3, LookupMonotone, Rows DEF OpStep, Reject, Return, InstallApp,
      Repoint, Bound, AwaitNorths, WriterWaits, LockNorths, CloseOld,
      RegisterGroups, EndGroup, Deregister, Forget, Drained, ReplaceGroup,
      LaunchNew, Launch, Leave, CloseApps, Left, Lookup
<1>4. ASSUME NEW i \in Insts, LinkChanges(i) PROVE NorthsOpen'
  BY <1>4 DEF LinkChanges
<1>5. CASE UNCHANGED vars
  BY <1>5
<1>6. QED
  BY <1>1, <1>2, <1>3, <1>4, <1>5 DEF Next

(* northCallMu keeps a bridge from calling while an instance is closed     *)
(* under an operation; Stop closes when all bridges have exited.           *)
LEMMA CallsOpenStep == IInv /\ [Next]_vars => NorthOpenDuringCall'
<1> SUFFICES ASSUME IInv, [Next]_vars PROVE NorthOpenDuringCall'
  OBVIOUS
<1> USE DEF IInv, TypeOK, AppsType, TopoType, FeedType, OpType, OpShape,
        NorthsOpen, BridgesOwned, NorthOpenDuringCall, Swapping, Idle, apps,
        topo, feed, op, vars
<1>1. ASSUME NEW g \in Groups, Publish(g) \/ Bridge(g)
      PROVE  NorthOpenDuringCall'
  BY <1>1 DEF Bridge, Publish, BridgeTake, BridgeLock, BridgeUnlock,
      BridgeExit, BridgeCall
<1>2. ASSUME BeginOp PROVE NorthOpenDuringCall'
  <2>1. CASE Start
    BY <2>1 DEF Start
  <2>2. CASE Stop
    BY <2>2 DEF Stop, Cancel
  <2>3. ASSUME NEW g \in Groups, StartGroup(g) PROVE NorthOpenDuringCall'
    BY <2>3 DEF StartGroup, Launch
  <2>4. ASSUME NEW g \in Groups, ReloadGroup(g) PROVE NorthOpenDuringCall'
    BY <2>4 DEF ReloadGroup, Cancel
  <2>5. ASSUME NEW gs \in SUBSET Groups, StopGroups(gs)
        PROVE  NorthOpenDuringCall'
    BY <2>5 DEF StopGroups, Cancel
  <2>6. ASSUME NEW a \in Apps, NEW i \in Insts, CreateApp(a, i)
        PROVE  NorthOpenDuringCall'
    BY <2>6 DEF CreateApp, Unused
  <2>7. ASSUME NEW a \in Apps, NEW detach \in BOOLEAN, RemoveApp(a, detach)
        PROVE  NorthOpenDuringCall'
    BY <2>7 DEF RemoveApp, Repoint, Bound
  <2>8. QED
    BY <1>2, <2>1, <2>2, <2>3, <2>4, <2>5, <2>6, <2>7 DEF BeginOp
<1>3. ASSUME OpStep PROVE NorthOpenDuringCall'
  BY <1>3 DEF OpStep, Reject, Return, InstallApp, Repoint, Bound, AwaitNorths,
      WriterWaits, LockNorths, CloseOld, RegisterGroups, EndGroup, Deregister,
      Forget, Drained, ReplaceGroup, LaunchNew, Launch, Leave, CloseApps, Left
<1>4. ASSUME NEW i \in Insts, LinkChanges(i) PROVE NorthOpenDuringCall'
  BY <1>4 DEF LinkChanges
<1>5. CASE UNCHANGED vars
  BY <1>5
<1>6. QED
  BY <1>1, <1>2, <1>3, <1>4, <1>5 DEF Next

(* An instance is created into an operation, moves to the pool, from there *)
(* to the operation that replaces it, and is closed.                       *)
LEMMA OpenAccountedStep == IInv /\ [Next]_vars => OpenAccounted'
<1> SUFFICES ASSUME IInv, [Next]_vars PROVE OpenAccounted'
  OBVIOUS
<1> USE Distinct DEF IInv, TypeOK, AppsType, TopoType, FeedType, OpType,
        OpShape, OpenAccounted, Transient, OneAppEach, Idle, apps, topo, feed,
        op, vars
<1>1. ASSUME NEW g \in Groups, Publish(g) \/ Bridge(g) PROVE OpenAccounted'
  BY <1>1 DEF Bridge, Publish, BridgeTake, BridgeLock, BridgeUnlock,
      BridgeExit, BridgeCall
<1>2. ASSUME BeginOp PROVE OpenAccounted'
  BY <1>2 DEF BeginOp, Start, Stop, Cancel, StartGroup, Launch, ReloadGroup,
      StopGroups, CreateApp, Unused, RemoveApp, Repoint, Bound, Lookup
<1>3. ASSUME OpStep PROVE OpenAccounted'
  BY <1>3 DEF OpStep, Reject, Return, InstallApp, Repoint, Bound, AwaitNorths,
      WriterWaits, LockNorths, CloseOld, RegisterGroups, EndGroup, Deregister,
      Forget, Drained, ReplaceGroup, LaunchNew, Launch, Leave, CloseApps,
      Left, Lookup
<1>4. ASSUME NEW i \in Insts, LinkChanges(i) PROVE OpenAccounted'
  BY <1>4 DEF LinkChanges
<1>5. CASE UNCHANGED vars
  BY <1>5
<1>6. QED
  BY <1>1, <1>2, <1>3, <1>4, <1>5 DEF Next

(* What each phase of an operation has established stays so until the      *)
(* operation uses it: only operations change the maps.                     *)
LEMMA OpShapeStep == IInv /\ [Next]_vars => OpShape'
<1> SUFFICES ASSUME IInv, [Next]_vars PROVE OpShape'
  OBVIOUS
<1> USE Distinct DEF IInv, TypeOK, AppsType, TopoType, FeedType, OpType,
        OpShape, OpenAccounted, Transient, OneAppEach, Swapping, BridgesOwned,
        NorthsInstalled, SubscriptionsOwned, Bound, Idle, apps, topo, feed,
        op, vars
<1>1. ASSUME NEW g \in Groups, Publish(g) \/ Bridge(g) PROVE OpShape'
  BY <1>1 DEF Bridge, Publish, BridgeTake, BridgeLock, BridgeUnlock,
      BridgeExit, BridgeCall, Lookup
<1>2. ASSUME BeginOp PROVE OpShape'
  BY <1>2 DEF BeginOp, Start, Stop, Cancel, StartGroup, Launch, ReloadGroup,
      StopGroups, CreateApp, Unused, RemoveApp, Repoint, Lookup
<1>3. ASSUME OpStep PROVE OpShape'
  BY <1>3 DEF OpStep, Reject, Return, InstallApp, Repoint, AwaitNorths,
      WriterWaits, LockNorths, CloseOld, RegisterGroups, EndGroup, Deregister,
      Forget, Drained, ReplaceGroup, LaunchNew, Launch, Leave, CloseApps,
      Left, Lookup
<1>4. ASSUME NEW i \in Insts, LinkChanges(i) PROVE OpShape'
  BY <1>4 DEF LinkChanges
<1>5. CASE UNCHANGED vars
  BY <1>5
<1>6. QED
  BY <1>1, <1>2, <1>3, <1>4, <1>5 DEF Next

(* The groups that leave were installed like all others.                   *)
LEMMA LeaversInstalledStep == IInv /\ [Next]_vars => LeaversInstalled'
<1> SUFFICES ASSUME IInv, [Next]_vars PROVE LeaversInstalled'
  OBVIOUS
<1> USE Distinct DEF IInv, TypeOK, AppsType, TopoType, FeedType, OpType,
        OpShape, LeaversInstalled, OneAppEach, NorthsInstalled, Idle, apps,
        topo, feed, op, vars
<1>1. ASSUME NEW g \in Groups, Publish(g) \/ Bridge(g) PROVE LeaversInstalled'
  BY <1>1 DEF Bridge, Publish, BridgeTake, BridgeLock, BridgeUnlock,
      BridgeExit, BridgeCall
<1>2. ASSUME BeginOp PROVE LeaversInstalled'
  BY <1>2 DEF BeginOp, Start, Stop, Cancel, StartGroup, Launch, ReloadGroup,
      StopGroups, CreateApp, Unused, RemoveApp, Repoint, Bound, Lookup
<1>3. ASSUME OpStep PROVE LeaversInstalled'
  BY <1>3 DEF OpStep, Reject, Return, InstallApp, Repoint, Bound, AwaitNorths,
      WriterWaits, LockNorths, CloseOld, RegisterGroups, EndGroup, Deregister,
      Forget, Drained, ReplaceGroup, LaunchNew, Launch, Leave, CloseApps, Left
<1>4. ASSUME NEW i \in Insts, LinkChanges(i) PROVE LeaversInstalled'
  BY <1>4 DEF LinkChanges
<1>5. CASE UNCHANGED vars
  BY <1>5
<1>6. QED
  BY <1>1, <1>2, <1>3, <1>4, <1>5 DEF Next

(* Every change of a group or an application is told to the instances it   *)
(* concerns.                                                               *)
LEMMA RegsStep == IInv /\ [Next]_vars => RegsAccounted'
<1> SUFFICES ASSUME IInv, [Next]_vars PROVE RegsAccounted'
  OBVIOUS
<1> USE Distinct DEF IInv, TypeOK, AppsType, TopoType, FeedType, OpType,
        OpShape, Idle, apps, topo, feed, op, vars
<1>1. ASSUME NEW g \in Groups, Publish(g) \/ Bridge(g) PROVE RegsAccounted'
  BY <1>1 DEF Bridge, LeaversInstalled, OneAppEach, NorthsInstalled,
      RegsAccounted, Told, Publish, BridgeTake, BridgeLock, BridgeUnlock,
      BridgeExit, BridgeCall
<1>2. ASSUME BeginOp PROVE RegsAccounted'
  <2> USE DEF LeaversInstalled, OneAppEach, NorthsInstalled, RegsAccounted,
          Told
  <2>1. CASE Start
    BY <2>1 DEF Start
  <2>2. CASE Stop
    BY <2>2 DEF Stop, Cancel
  <2>3. ASSUME NEW g \in Groups, StartGroup(g) PROVE RegsAccounted'
    BY <2>3, Rows DEF StartGroup, Launch, Lookup
  <2>4. ASSUME NEW g \in Groups, ReloadGroup(g) PROVE RegsAccounted'
    BY <2>4 DEF ReloadGroup, Cancel
  <2>5. ASSUME NEW gs \in SUBSET Groups, StopGroups(gs)
        PROVE  RegsAccounted'
    BY <2>5 DEF StopGroups, Cancel
  <2>6. ASSUME NEW a \in Apps, NEW i \in Insts, CreateApp(a, i)
        PROVE  RegsAccounted'
    BY <2>6 DEF CreateApp, Unused, OpenAccounted, Transient, Lookup
  <2>7. ASSUME NEW a \in Apps, NEW detach \in BOOLEAN, RemoveApp(a, detach)
        PROVE  RegsAccounted'
    BY <2>7 DEF RemoveApp, Repoint, Bound, Lookup
  <2> HIDE DEF LeaversInstalled, OneAppEach, NorthsInstalled, RegsAccounted,
           Told
  <2>8. QED
    BY <1>2, <2>1, <2>2, <2>3, <2>4, <2>5, <2>6, <2>7 DEF BeginOp
<1>3. ASSUME OpStep PROVE RegsAccounted'
  <2>1. CASE Reject
    BY <2>1 DEF Reject, Return, LeaversInstalled, OneAppEach, NorthsInstalled,
        RegsAccounted, Told, OpenAccounted, Transient, Lookup
  <2>2. CASE InstallApp
    BY <2>2 DEF InstallApp, Repoint, Bound, LeaversInstalled, OneAppEach,
        NorthsInstalled, RegsAccounted, Told, Lookup, SameIdentity
  <2>3. CASE AwaitNorths \/ LockNorths
    BY <2>3 DEF AwaitNorths, WriterWaits, LockNorths, LeaversInstalled,
        OneAppEach, NorthsInstalled, RegsAccounted, Told
  <2>4. CASE CloseOld
    BY <2>4 DEF CloseOld, LeaversInstalled, OneAppEach, NorthsInstalled,
        RegsAccounted, Told
  <2>5. CASE RegisterGroups
    <3>1. ASSUME NEW a \in Apps, pool[a] # None, NEW h \in Groups
          PROVE  Told(a, h)'
      <4>1. CASE a = opApp
        <5>1. opInst # None /\ pool[a] = opInst /\ regs[opInst] = {}
          BY <2>5, <3>1, <4>1 DEF RegisterGroups, RegsAccounted
        <5>2. regs'[opInst] = {<<x, device[x]>> : x \in Bound(a)}
          BY <2>5, <4>1, <5>1 DEF RegisterGroups
        <5>3. QED
          BY <2>5, <3>1, <5>1, <5>2 DEF RegisterGroups, Return, Told, Bound
      <4>2. CASE a # opApp
        <5>1. regs'[pool[a]] = regs[pool[a]]
          BY <2>5, <3>1, <4>2 DEF RegisterGroups, OneAppEach
        <5>2. Told(a, h)
          BY <2>5, <3>1, <4>2 DEF RegisterGroups, RegsAccounted
        <5>3. QED
          BY <2>5, <3>1, <5>1, <5>2 DEF RegisterGroups, Return, Told
      <4>3. QED
        BY <4>1, <4>2
    <3>2. QED
      BY <2>5, <3>1 DEF RegisterGroups, Return, RegsAccounted
  <2>6. ASSUME NEW g \in Groups, EndGroup(g) PROVE RegsAccounted'
    BY <2>6 DEF EndGroup, Deregister, Forget, Return, Drained,
        LeaversInstalled, OneAppEach, NorthsInstalled, RegsAccounted, Told,
        Lookup, SameIdentity
  <2>7. ASSUME NEW g \in Groups, ReplaceGroup(g) PROVE RegsAccounted'
    BY <2>7, Rows DEF ReplaceGroup, Deregister, Drained, LeaversInstalled,
        OneAppEach, NorthsInstalled, RegsAccounted, Told, Lookup, SameIdentity
  <2>8. ASSUME NEW g \in Groups, LaunchNew(g) PROVE RegsAccounted'
    BY <2>8, Rows DEF LaunchNew, Launch, Return, LeaversInstalled, OneAppEach,
        NorthsInstalled, RegsAccounted, Told, Lookup, SameIdentity
  <2>9. ASSUME NEW g \in Groups, Leave(g) PROVE RegsAccounted'
    BY <2>9 DEF Leave, Deregister, Forget, Drained, LeaversInstalled,
        OneAppEach, NorthsInstalled, RegsAccounted, Told, Lookup, SameIdentity
  <2>10. ASSUME NEW i \in Insts, CloseApps(i) PROVE RegsAccounted'
    BY <2>10 DEF CloseApps, LeaversInstalled, OneAppEach, NorthsInstalled,
        RegsAccounted, Told
  <2>11. CASE Left
    BY <2>11 DEF Left, Return, LeaversInstalled, OneAppEach, NorthsInstalled,
        RegsAccounted, Told
  <2>12. QED
    BY <1>3, <2>1, <2>2, <2>3, <2>4, <2>5, <2>6, <2>7, <2>8, <2>9, <2>10,
        <2>11 DEF OpStep
<1>4. ASSUME NEW i \in Insts, LinkChanges(i) PROVE RegsAccounted'
  BY <1>4 DEF LinkChanges, LeaversInstalled, OneAppEach, NorthsInstalled,
      RegsAccounted, Told
<1>5. CASE UNCHANGED vars
  BY <1>5 DEF LeaversInstalled, OneAppEach, NorthsInstalled, RegsAccounted,
      Told
<1>6. QED
  BY <1>1, <1>2, <1>3, <1>4, <1>5 DEF Next

-----------------------------------------------------------------------------
LEMMA InitIInv == Init => IInv
<1> SUFFICES ASSUME Init PROVE IInv
  OBVIOUS
<1>1. AppsType /\ TopoType
  BY DEF Init, AppsType, TopoType
<1>2. FeedType
  BY Buffer DEF Init, FeedType
<1>3. OpType
  BY Rows DEF Init, OpType, Phases
<1>4. TypeOK
  BY <1>1, <1>2, <1>3 DEF Init, TypeOK
<1>5. Lookup({}, pool) = {} /\ Lookup(Apps, pool) = {}
  BY DEF Init, Lookup
<1>6. NorthOpenDuringCall /\ NorthsOpen /\ SubscriptionsOwned /\ BridgesOwned
  BY DEF Init, NorthOpenDuringCall, NorthsOpen, SubscriptionsOwned,
      BridgesOwned
<1>7. NorthsInstalled /\ OneAppEach /\ OpenAccounted
  BY <1>5 DEF Init, NorthsInstalled, OneAppEach, OpenAccounted, Transient
<1>8. OpShape /\ LeaversInstalled
  BY DEF Init, OpShape, Swapping, LeaversInstalled
<1>9. RegsAccounted
  BY DEF Init, RegsAccounted
<1>10. QED
  BY <1>4, <1>6, <1>7, <1>8, <1>9 DEF IInv

(* IInv holds in every reachable state.                                    *)
THEOREM Inductive == Spec => []IInv
<1>1. IInv /\ [Next]_vars => IInv'
  <2> SUFFICES ASSUME IInv, [Next]_vars PROVE IInv'
    OBVIOUS
  <2>1. started' \in BOOLEAN
    BY StartedStep
  <2>2. TypeOK'
    BY <2>1, AppsTypeStep, TopoTypeStep, FeedTypeStep, OpTypeStep DEF TypeOK
  <2>3. NorthOpenDuringCall' /\ NorthsOpen' /\ NorthsInstalled'
    BY CallsOpenStep, NorthsOpenStep, NorthsInstalledStep
  <2>4. SubscriptionsOwned' /\ BridgesOwned' /\ OneAppEach'
    BY SubscriptionsOwnedStep, BridgesOwnedStep, OneAppEachStep
  <2>5. OpenAccounted' /\ OpShape' /\ RegsAccounted' /\ LeaversInstalled'
    BY OpenAccountedStep, OpShapeStep, RegsStep, LeaversInstalledStep
  <2>6. QED
    BY <2>2, <2>3, <2>4, <2>5 DEF IInv
<1>2. QED
  BY InitIInv, <1>1, PTL DEF Spec

(* Every variable keeps its type.                                          *)
THEOREM Typed == Spec => []TypeOK
<1>1. IInv => TypeOK
  BY DEF IInv
<1>2. QED
  BY Inductive, <1>1, PTL

(* No instance is closed under the bridge of a group, whether it is        *)
(* replaced, removed or stopped.                                           *)
THEOREM OpenDuringCall == Spec => []NorthOpenDuringCall
<1>1. IInv => NorthOpenDuringCall
  BY DEF IInv
<1>2. QED
  BY Inductive, <1>1, PTL

(* A running group calls the installed instances and no others.            *)
THEOREM CallsInstalled == Spec => []NorthsInstalled
<1>1. IInv => NorthsInstalled
  BY DEF IInv
<1>2. QED
  BY Inductive, <1>1, PTL

(* No candidate and no replaced instance stays open, and cancelling a      *)
(* group always gives its channel back.                                    *)
THEOREM NoneLeaks == Spec => []NothingLeaks
<1>1. IInv => NoOrphans
  BY DEF IInv, OpenAccounted, Transient, OpShape, NoOrphans, Idle
<1>2. IInv => NothingLeaks
  BY <1>1 DEF IInv, NothingLeaks
<1>3. QED
  BY Inductive, <1>2, PTL

(* Between operations an instance knows exactly the running groups bound   *)
(* to its application, under the identities they run with.                 *)
THEOREM GroupsKnown == Spec => []RegistrationsFollow
<1>1. IInv => RegistrationsFollow
  <2> SUFFICES ASSUME IInv, Idle, NEW a \in Apps, pool[a] # None
               PROVE  regs[pool[a]] = {<<g, device[g]>> : g \in Bound(a)}
    BY DEF RegistrationsFollow
  <2>1. \A g \in Groups : Told(a, g)
    BY DEF IInv, RegsAccounted, Idle
  <2>2. regs[pool[a]] \subseteq Groups \X Devices
    BY DEF IInv, TypeOK, AppsType
  <2>3. \A g \in Groups : device[g] \in Devices
    BY DEF IInv, TypeOK, TopoType
  <2>4. ASSUME NEW g \in Groups, NEW d \in Devices
        PROVE  <<g, d>> \in regs[pool[a]] <=> g \in Bound(a) /\ d = device[g]
    BY <2>1 DEF Told, Idle, Bound
  <2>5. Bound(a) \subseteq Groups
    BY DEF IInv, TypeOK, TopoType, Bound
  <2>6. QED
    BY <2>2, <2>3, <2>4, <2>5
<1>2. QED
  BY Inductive, <1>1, PTL
=============================================================================
