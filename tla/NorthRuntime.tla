---------------------------- MODULE NorthRuntime ----------------------------
(***************************************************************************)
(* The northbound half of the Runner (internal/core/runner.go): the pool   *)
(* of application instances, the groups that refer to them, the event bus  *)
(* subscription and bridge goroutine of each group, and the hot            *)
(* replacement of an instance under northCallMu.                           *)
(*                                                                         *)
(* Lifecycle operations run one at a time under lifecycleMu and are        *)
(* written as a sequence of steps between which the bridges run.  What an  *)
(* operation reads from the store is an input: a row is whatever the last  *)
(* request saved.  A group is launched in one step, since only lifecycle   *)
(* operations see a half-launched group, and its collection goroutine is   *)
(* the source of events (SouthRuntime is about its lifetime).  The         *)
(* instance behind a queue is NorthDelivery; here a call of OnMessage      *)
(* returns at once and Close returns in the end.                           *)
(***************************************************************************)
EXTENDS Naturals, FiniteSets

CONSTANTS
    Groups, Apps,
    Insts,     \* instances of applications (bound on those alive at once)
    Devices,   \* the identities a group reports under
    EventCap,  \* the buffer of a subscription
    None

ASSUME Buffer == EventCap \in Nat \ {0}

VARIABLES
    started,     \* bgCancel is set
    pool,        \* northApps: the instance of each application
    open,        \* instances created and not closed
    up,          \* instances whose State says connected
    regs,        \* what each instance was told by (De)RegisterGroup
    running,     \* the keys of groups
    groupApps,   \* groupRuntime.group.NorthAppID
    device,      \* groupRuntime.group.Device
    norths,      \* groupRuntime.norths
    cancelled,   \* groups whose context is done
    subscribed,  \* groups with a channel on the event bus
    events,      \* that channel
    bridge,      \* where the bridge goroutine is
    toCall,      \* the norths it has still to call
    opPc,        \* where the lifecycle operation is
    opApp, opInst, opOld,  \* startNorthApp, deleteNorthApp: app, handler, old
    opGroups,    \* the groups the operation has still to treat
    opRow,       \* Reload: the row it read
    opInsts      \* Stop: the instances it has still to close

apps    == <<pool, open, up, regs>>
topo    == <<running, groupApps, device, norths>>
feed    == <<cancelled, subscribed, events, bridge, toCall>>
op      == <<opPc, opApp, opInst, opOld, opGroups, opRow, opInsts>>
vars    == <<started, apps, topo, feed, op>>

Idle == opPc = "idle"

(* The operation is over.                                                  *)
Return ==
    /\ opPc' = "idle"
    /\ opApp' = None /\ opInst' = None /\ opOld' = None
    /\ opGroups' = {} /\ opRow' = None /\ opInsts' = {}

(* What the row of a group says: None stands for a row that is not there   *)
(* or not enabled, which every operation treats alike here.                *)
EnabledRow == [apps : SUBSET Apps, dev : Devices]
GroupRow == {None} \cup EnabledRow

ASSUME Distinct ==
    None \notin Insts /\ None \notin Apps /\ None \notin EnabledRow

(* lookupNorthsLocked, in a pool.                                          *)
Lookup(ids, p) == {p[a] : a \in ids} \ {None}

Bound(a) == {g \in running : a \in groupApps[g]}

-----------------------------------------------------------------------------
(* The data plane.                                                         *)

(* collectOnce publishes; a full channel drops the event.                  *)
Publish(g) ==
    /\ g \in subscribed
    /\ events[g] < EventCap
    /\ events' = [events EXCEPT ![g] = @ + 1]
    /\ UNCHANGED <<started, apps, topo, cancelled, subscribed, bridge, toCall,
                   op>>

BridgeTake(g) ==
    /\ bridge[g] = "wait"
    /\ events[g] > 0
    /\ events' = [events EXCEPT ![g] = @ - 1]
    /\ bridge' = [bridge EXCEPT ![g] = "lock"]
    /\ UNCHANGED <<started, apps, topo, cancelled, subscribed, toCall, op>>

(* northCallMu is held by an operation, or one waits for it: an RWMutex    *)
(* lets no reader in any more once Lock was called.                        *)
Swapping == opPc \in {"close", "register"}
WriterWaits == opPc = "pending"

BridgeLock(g) ==
    /\ bridge[g] = "lock"
    /\ ~Swapping /\ ~WriterWaits
    /\ bridge' = [bridge EXCEPT ![g] = "send"]
    /\ toCall' = [toCall EXCEPT ![g] = norths[g]]
    /\ UNCHANGED <<started, apps, topo, cancelled, subscribed, events, op>>

BridgeCall(g, i) ==
    /\ bridge[g] = "send"
    /\ i \in toCall[g]
    /\ toCall' = [toCall EXCEPT ![g] = @ \ {i}]
    /\ UNCHANGED <<started, apps, topo, cancelled, subscribed, events, bridge,
                   op>>

(* Mutant: a bridge with nobody to call leaves without RUnlock.            *)
BridgeUnlockIfCalled(g) ==
    /\ bridge[g] = "send"
    /\ toCall[g] = {}
    /\ norths[g] # {}
    /\ bridge' = [bridge EXCEPT ![g] = "wait"]
    /\ UNCHANGED <<started, apps, topo, cancelled, subscribed, events, toCall,
                   op>>

BridgeUnlock(g) ==
    /\ bridge[g] = "send"
    /\ toCall[g] = {}
    /\ bridge' = [bridge EXCEPT ![g] = "wait"]
    /\ UNCHANGED <<started, apps, topo, cancelled, subscribed, events, toCall,
                   op>>

(* Mutant: the bridge waits for its channel to be closed, which            *)
(* unsubscribe does not do.                                                *)
BridgeExitOnClose(g) ==
    /\ bridge[g] = "wait"
    /\ g \in cancelled /\ g \in subscribed
    /\ bridge' = [bridge EXCEPT ![g] = "none"]
    /\ UNCHANGED <<started, apps, topo, cancelled, subscribed, events, toCall,
                   op>>

BridgeExit(g) ==
    /\ bridge[g] = "wait"
    /\ g \in cancelled
    /\ bridge' = [bridge EXCEPT ![g] = "none"]
    /\ UNCHANGED <<started, apps, topo, cancelled, subscribed, events, toCall,
                   op>>

(* The broker comes and goes.                                              *)
LinkChanges(i) ==
    /\ i \in open
    /\ up' = IF i \in up THEN up \ {i} ELSE up \cup {i}
    /\ UNCHANGED <<started, pool, open, regs, topo, feed, op>>

-----------------------------------------------------------------------------
(* Helpers of the operations.                                              *)

(* DeregisterGroup and RegisterGroup on a set of instances.                *)
Deregister(g, is) ==
    regs' = [i \in Insts |-> IF i \in is THEN regs[i] \ {<<g, device[g]>>}
                                         ELSE regs[i]]

(* The groupRuntime of g is out of reach.                                  *)
Forget(g) ==
    /\ groupApps' = [groupApps EXCEPT ![g] = {}]
    /\ norths' = [norths EXCEPT ![g] = {}]
    /\ cancelled' = cancelled \ {g}
    /\ events' = [events EXCEPT ![g] = 0]
    /\ UNCHANGED <<subscribed, bridge, toCall>>

(* cancel and unsubscribe.                                                 *)
Cancel(gs) ==
    /\ cancelled' = cancelled \cup gs
    /\ subscribed' = subscribed \ gs
    /\ UNCHANGED <<events, bridge, toCall>>

(* startPreparedGroup: references, registrations, the bridge if there is   *)
(* an instance to feed, and the entry in groups.                           *)
Launch(g, row) ==
    LET hs == Lookup(row.apps, pool)
    IN  /\ running' = running \cup {g}
        /\ groupApps' = [groupApps EXCEPT ![g] = row.apps]
        /\ device' = [device EXCEPT ![g] = row.dev]
        /\ norths' = [norths EXCEPT ![g] = hs]
        /\ regs' = [i \in Insts |-> IF i \in hs
                                    THEN regs[i] \cup {<<g, row.dev>>}
                                    ELSE regs[i]]
        /\ cancelled' = cancelled \ {g}
        /\ subscribed' = IF hs = {} THEN subscribed ELSE subscribed \cup {g}
        /\ bridge' = [bridge EXCEPT ![g] = IF hs = {} THEN "none" ELSE "wait"]
        /\ events' = [events EXCEPT ![g] = 0]
        /\ UNCHANGED <<pool, open, up, toCall>>

-----------------------------------------------------------------------------
(* Start.  Its loops over applications and groups are the operations       *)
(* CreateApp and StartGroup.                                               *)
Start ==
    /\ Idle
    /\ ~started
    /\ started' = TRUE
    /\ UNCHANGED <<apps, topo, feed, op>>

(* startGroup, for a group that is not running.                            *)
StartGroup(g) ==
    /\ Idle
    /\ started
    /\ g \notin running
    /\ \E row \in EnabledRow : Launch(g, row)
    /\ UNCHANGED <<started, op>>

-----------------------------------------------------------------------------
(* startNorthApp and deleteNorthApp.                                       *)

(* Nothing refers to the instance, so that a new one may go by its name.   *)
Unused(i) ==
    /\ i \notin open
    /\ \A g \in Groups : i \notin toCall[g]
    /\ \A g \in running : i \notin norths[g]

CreateApp(a, i) ==
    /\ Idle
    /\ started
    /\ Unused(i)
    /\ open' = open \cup {i}
    /\ up' \in {up \cup {i}, up \ {i}}
    /\ regs' = [regs EXCEPT ![i] = {}]
    /\ opPc' = "created"
    /\ opApp' = a
    /\ opInst' = i
    /\ UNCHANGED <<started, pool, topo, feed, opOld, opGroups, opRow, opInsts>>

Healthy(i) == i # None /\ i \in up

(* Mutant: the candidate is dropped without being closed.                  *)
RejectLeaks ==
    /\ opPc = "created"
    /\ Healthy(pool[opApp]) /\ ~Healthy(opInst)
    /\ Return
    /\ UNCHANGED <<started, apps, topo, feed>>

(* The candidate is not connected and the old instance is.                 *)
Reject ==
    /\ opPc = "created"
    /\ Healthy(pool[opApp]) /\ ~Healthy(opInst)
    /\ open' = open \ {opInst} /\ up' = up \ {opInst}
    /\ Return
    /\ UNCHANGED <<started, pool, regs, topo, feed>>

(* The pool is p from now on, and the groups bound to a are to be told.    *)
Repoint(a, p) ==
    /\ pool' = p
    /\ opOld' = pool[a]
    /\ opGroups' = Bound(a)

(* Mutant: the instances are looked up before the new one is in the pool.  *)
InstallAppLate ==
    LET p == [pool EXCEPT ![opApp] = opInst]
    IN  /\ opPc = "created"
        /\ ~(Healthy(pool[opApp]) /\ ~Healthy(opInst))
        /\ Repoint(opApp, p)
        /\ norths' = [g \in Groups |-> IF g \in Bound(opApp)
                                       THEN Lookup(groupApps[g], pool)
                                       ELSE norths[g]]
        /\ opPc' = "lock"
        /\ UNCHANGED <<started, open, up, regs, running, groupApps, device,
                       feed, opApp, opInst, opRow, opInsts>>

InstallApp ==
    LET p == [pool EXCEPT ![opApp] = opInst]
    IN  /\ opPc = "created"
        /\ ~(Healthy(pool[opApp]) /\ ~Healthy(opInst))
        /\ Repoint(opApp, p)
        /\ norths' = [g \in Groups |-> IF g \in Bound(opApp)
                                       THEN Lookup(groupApps[g], p)
                                       ELSE norths[g]]
        /\ opPc' = "lock"
        /\ UNCHANGED <<started, open, up, regs, running, groupApps, device,
                       feed, opApp, opInst, opRow, opInsts>>

(* detach: the row is gone, and with it the reference of the groups.       *)
RemoveApp(a, detach) ==
    LET p == [pool EXCEPT ![a] = None]
        ids == [g \in Groups |-> IF detach /\ g \in Bound(a)
                                 THEN groupApps[g] \ {a} ELSE groupApps[g]]
    IN  /\ Idle
        /\ started
        /\ Repoint(a, p)
        /\ groupApps' = ids
        /\ norths' = [g \in Groups |-> IF g \in Bound(a)
                                       THEN Lookup(ids[g], p) ELSE norths[g]]
        /\ opPc' = "lock"
        /\ opApp' = a
        /\ UNCHANGED <<started, open, up, regs, running, device, feed, opInst,
                       opRow, opInsts>>

(* northCallMu.Lock is called,                                             *)
AwaitNorths ==
    /\ opPc = "lock"
    /\ opPc' = "pending"
    /\ UNCHANGED <<started, apps, topo, feed, opApp, opInst, opOld, opGroups,
                   opRow, opInsts>>

(* Mutant: the operation does not wait for the bridges.                    *)
LockNorthsAtOnce ==
    /\ WriterWaits
    /\ opPc' = "close"
    /\ UNCHANGED <<started, apps, topo, feed, opApp, opInst, opOld, opGroups,
                   opRow, opInsts>>

(* and returns when no bridge is between its RLock and RUnlock.            *)
LockNorths ==
    /\ WriterWaits
    /\ \A g \in Groups : bridge[g] # "send"
    /\ opPc' = "close"
    /\ UNCHANGED <<started, apps, topo, feed, opApp, opInst, opOld, opGroups,
                   opRow, opInsts>>

(* The old instance forgets the groups and is closed.                      *)
CloseOld ==
    /\ opPc = "close"
    /\ open' = open \ {opOld} /\ up' = up \ {opOld}
    /\ regs' = [i \in Insts |->
                  IF i = opOld
                  THEN regs[i] \ {<<g, device[g]>> : g \in opGroups}
                  ELSE regs[i]]
    /\ opPc' = "register"
    /\ UNCHANGED <<started, pool, topo, feed, opApp, opInst, opOld, opGroups,
                   opRow, opInsts>>

(* The new instance, if there is one, learns the groups; unlock.           *)
RegisterGroups ==
    /\ opPc = "register"
    /\ regs' = [i \in Insts |->
                  IF i = opInst
                  THEN regs[i] \cup {<<g, device[g]>> : g \in opGroups}
                  ELSE regs[i]]
    /\ Return
    /\ UNCHANGED <<started, pool, open, up, topo, feed>>

-----------------------------------------------------------------------------
(* Reload of a group.  An enabled row is only read by a started runner:    *)
(* prepareGroup fails when no connection is installed.                     *)
ReloadGroup(g) ==
    /\ Idle
    /\ \E row \in GroupRow :
          /\ row # None => started
          /\ opRow' = row
    /\ Cancel({g} \cap running)
    /\ opGroups' = {g}
    /\ opPc' = "drain"
    /\ UNCHANGED <<started, apps, topo, opApp, opInst, opOld, opInsts>>

(* wg.Wait.                                                                *)
Drained(g) == bridge[g] = "none"

(* The group is gone or disabled.                                          *)
EndGroup(g) ==
    /\ opPc = "drain"
    /\ opRow = None
    /\ g \in opGroups
    /\ Drained(g)
    /\ Deregister(g, IF g \in running THEN norths[g] ELSE {})
    /\ running' = running \ {g}
    /\ Forget(g)
    /\ Return
    /\ UNCHANGED <<started, pool, open, up, device>>

(* Mutant: only a change of the applications counts.                       *)
SameApps(g, row) == groupApps[g] = row.apps

(* Nothing the instances know of the group has changed.                    *)
SameIdentity(g, row) == groupApps[g] = row.apps /\ device[g] = row.dev

ReplaceGroup(g) ==
    /\ opPc = "drain"
    /\ opRow # None
    /\ g \in opGroups
    /\ Drained(g)
    /\ Deregister(g, IF g \in running /\ ~SameIdentity(g, opRow)
                     THEN norths[g] ELSE {})
    /\ running' = running \ {g}
    /\ opPc' = "launch"
    /\ UNCHANGED <<started, pool, open, up, groupApps, device, norths, feed,
                   opApp, opInst, opOld, opGroups, opRow, opInsts>>

LaunchNew(g) ==
    /\ opPc = "launch"
    /\ g \in opGroups
    /\ Launch(g, opRow)
    /\ Return
    /\ UNCHANGED started

-----------------------------------------------------------------------------
(* stopConnectionRuntime: the groups of one connection leave groups.       *)
StopGroups(gs) ==
    /\ Idle
    /\ gs \subseteq running /\ gs # {}
    /\ running' = running \ gs
    /\ Cancel(gs)
    /\ opGroups' = gs
    /\ opPc' = "leave"
    /\ UNCHANGED <<started, apps, groupApps, device, norths, opApp, opInst,
                   opOld, opRow, opInsts>>

(* Stop: everything leaves the maps at once.                               *)
Stop ==
    /\ Idle
    /\ started
    /\ started' = FALSE
    /\ running' = {}
    /\ Cancel(running)
    /\ pool' = [a \in Apps |-> None]
    /\ opGroups' = running
    /\ opInsts' = Lookup(Apps, pool)
    /\ opPc' = "leave"
    /\ UNCHANGED <<open, up, regs, groupApps, device, norths, opApp, opInst,
                   opOld, opRow>>

Leave(g) ==
    /\ opPc = "leave"
    /\ g \in opGroups
    /\ Drained(g)
    /\ Deregister(g, norths[g])
    /\ opGroups' = opGroups \ {g}
    /\ Forget(g)
    /\ UNCHANGED <<started, pool, open, up, running, device, opPc, opApp, opInst,
                   opOld, opRow, opInsts>>

(* Stop closes the applications when all groups have left.                 *)
CloseApps(i) ==
    /\ opPc = "leave"
    /\ opGroups = {}
    /\ i \in opInsts
    /\ open' = open \ {i} /\ up' = up \ {i}
    /\ opInsts' = opInsts \ {i}
    /\ UNCHANGED <<started, pool, regs, topo, feed, opPc, opApp, opInst,
                   opOld, opGroups, opRow>>

Left ==
    /\ opPc = "leave"
    /\ opGroups = {} /\ opInsts = {}
    /\ Return
    /\ UNCHANGED <<started, apps, topo, feed>>

-----------------------------------------------------------------------------
Init ==
    /\ started = FALSE
    /\ pool = [a \in Apps |-> None]
    /\ open = {} /\ up = {}
    /\ regs = [i \in Insts |-> {}]
    /\ running = {}
    /\ groupApps = [g \in Groups |-> {}]
    /\ device \in [Groups -> Devices]
    /\ norths = [g \in Groups |-> {}]
    /\ cancelled = {} /\ subscribed = {}
    /\ events = [g \in Groups |-> 0]
    /\ bridge = [g \in Groups |-> "none"]
    /\ toCall = [g \in Groups |-> {}]
    /\ opPc = "idle"
    /\ opApp = None /\ opInst = None /\ opOld = None
    /\ opGroups = {} /\ opRow = None /\ opInsts = {}

Bridge(g) ==
    \/ BridgeTake(g) \/ BridgeLock(g) \/ BridgeUnlock(g) \/ BridgeExit(g)
    \/ \E i \in Insts : BridgeCall(g, i)

BeginOp ==
    \/ Start \/ Stop
    \/ \E g \in Groups : StartGroup(g) \/ ReloadGroup(g)
    \/ \E gs \in SUBSET Groups : StopGroups(gs)
    \/ \E a \in Apps, i \in Insts : CreateApp(a, i)
    \/ \E a \in Apps, detach \in BOOLEAN : RemoveApp(a, detach)

OpStep ==
    \/ Reject \/ InstallApp
    \/ AwaitNorths \/ LockNorths \/ CloseOld \/ RegisterGroups
    \/ \E g \in Groups : EndGroup(g) \/ ReplaceGroup(g) \/ LaunchNew(g)
                         \/ Leave(g)
    \/ \E i \in Insts : CloseApps(i)
    \/ Left

Next ==
    \/ \E g \in Groups : Publish(g) \/ Bridge(g)
    \/ \E i \in Insts : LinkChanges(i)
    \/ BeginOp
    \/ OpStep

Spec == Init /\ [][Next]_vars

(* Goroutines are scheduled, and Unlock lets in the readers that waited,   *)
(* so that no sequence of writers keeps one from northCallMu.              *)
Fairness ==
    /\ WF_vars(OpStep)
    /\ \A g \in Groups : WF_vars(Bridge(g)) /\ SF_vars(BridgeLock(g))

FairSpec == Spec /\ Fairness

-----------------------------------------------------------------------------
(* Properties.                                                             *)

Phases == {"idle", "created", "lock", "pending", "close", "register", "drain",
           "launch", "leave"}

AppsType ==
    /\ pool \in [Apps -> Insts \cup {None}]
    /\ open \subseteq Insts /\ up \subseteq Insts
    /\ regs \in [Insts -> SUBSET (Groups \X Devices)]
TopoType ==
    /\ running \subseteq Groups
    /\ groupApps \in [Groups -> SUBSET Apps]
    /\ device \in [Groups -> Devices]
    /\ norths \in [Groups -> SUBSET Insts]
FeedType ==
    /\ cancelled \subseteq Groups /\ subscribed \subseteq Groups
    /\ events \in [Groups -> 0..EventCap]
    /\ bridge \in [Groups -> {"none", "wait", "lock", "send"}]
    /\ toCall \in [Groups -> SUBSET Insts]
OpType ==
    /\ opPc \in Phases
    /\ opApp \in Apps \cup {None}
    /\ opInst \in Insts \cup {None} /\ opOld \in Insts \cup {None}
    /\ opGroups \subseteq Groups
    /\ opRow \in GroupRow
    /\ opInsts \subseteq Insts

(* Every variable has its type.                                            *)
TypeOK == started \in BOOLEAN /\ AppsType /\ TopoType /\ FeedType /\ OpType

(* No instance is closed under a bridge that is about to call it: what     *)
(* northCallMu is for (runner.go:74), and what Stop and the removal of a   *)
(* group have to achieve without it.                                       *)
NorthOpenDuringCall ==
    \A g \in Groups : bridge[g] = "send" => toCall[g] \subseteq open

(* Whenever no operation is under way, an instance knows exactly the       *)
(* running groups bound to its application, each under the identity it     *)
(* runs with: however groups and applications were reloaded, downstream    *)
(* messages find their group and no device that is gone stays subscribed.  *)
RegistrationsFollow ==
    Idle => \A a \in Apps : pool[a] # None =>
        regs[pool[a]] = {<<g, device[g]>> : g \in Bound(a)}

(* A running group calls the installed instances of its applications, and  *)
(* no others: a replaced instance is out of reach at once.                 *)
NorthsInstalled ==
    \A g \in running : norths[g] = Lookup(groupApps[g], pool)

(* Between operations the instances that are open are those in the pool:   *)
(* a rejected candidate and a replaced instance are closed.                *)
NoOrphans == Idle => open = Lookup(Apps, pool)

(* A subscription belongs to a group that runs and has a bridge to empty   *)
(* it: cancelling a group always gives its channel back.                   *)
SubscriptionsOwned ==
    \A g \in subscribed :
        g \in running /\ g \notin cancelled /\ bridge[g] # "none"

(* Nothing of a group or an application is left behind: no instance and no *)
(* channel, whatever was replaced, rejected, removed or reloaded.          *)
NothingLeaks == NoOrphans /\ SubscriptionsOwned

(* Every lifecycle operation returns.                                      *)
OperationsReturn == ~Idle ~> Idle

(* A full channel is emptied, or the group is cancelled: no sequence of    *)
(* replacements keeps a bridge from its events.                            *)
EventsServed ==
    \A g \in Groups :
        events[g] = EventCap ~> events[g] < EventCap \/ g \notin subscribed

-----------------------------------------------------------------------------
(* The inductive invariant (NorthRuntime_proofs).                          *)

(* A bridge belongs to a group that runs or is being waited for.           *)
BridgesOwned ==
    \A g \in Groups : bridge[g] # "none" =>
        g \in running \/ (opPc = "leave" /\ g \in opGroups)

(* What a bridge may call next is open.                                    *)
NorthsOpen ==
    \A g \in Groups : bridge[g] # "none" => norths[g] \subseteq open

(* An instance serves one application.                                     *)
OneAppEach ==
    \A a, b \in Apps : pool[a] = pool[b] /\ pool[a] # None => a = b

(* Who is open: the pool, the candidate, the instance being replaced and   *)
(* those Stop has still to close.                                          *)
Transient ==
    CASE opPc = "created" -> {opInst}
      [] opPc \in {"lock", "pending", "close"} -> {opOld} \ {None}
      [] OTHER -> {}
OpenAccounted == open = Lookup(Apps, pool) \cup Transient \cup opInsts

(* What holds in each phase of an operation.                               *)
OpShape ==
    /\ opPc = "idle" => opApp = None /\ opInst = None /\ opOld = None
    /\ opPc = "created" =>
          /\ opApp \in Apps /\ opInst # None
          /\ \A a \in Apps : pool[a] # opInst
          /\ \A g \in Groups : opInst \notin toCall[g]
    /\ opPc \in {"lock", "pending", "close", "register"} =>
          /\ opApp \in Apps
          /\ pool[opApp] = opInst
          /\ opGroups \subseteq running
          /\ opInst # None => opGroups = Bound(opApp)
          /\ opOld # None => \A a \in Apps : pool[a] # opOld
    /\ Swapping => \A g \in Groups : bridge[g] # "send"
    /\ opPc \in {"drain", "launch"} => \E g \in Groups : opGroups = {g}
    /\ opPc = "launch" => opRow # None /\ opGroups \cap running = {}
    /\ opPc = "leave" => opGroups \cap running = {}
    /\ opInsts # {} =>
          /\ opPc = "leave"
          /\ running = {}
          /\ \A a \in Apps : pool[a] = None

(* What the instance of application a was told of group g, when nothing of *)
(* either is under way.                                                    *)
Told(a, g) ==
    \A d \in Devices :
        <<g, d>> \in regs[pool[a]] <=>
            /\ d = device[g] /\ a \in groupApps[g]
            /\ g \in running \/ (opPc = "leave" /\ g \in opGroups)

(* An instance that was just installed was told nothing yet; one that has  *)
(* not forgotten the group being replaced knows it as it will be.          *)
RegsAccounted ==
    /\ opPc = "created" => regs[opInst] = {}
    /\ \A a \in Apps : pool[a] # None =>
          IF opPc \in {"lock", "pending", "close", "register"} /\ a = opApp
          THEN regs[pool[a]] = {}
          ELSE \A g \in Groups :
                 IF opPc = "launch" /\ g \in opGroups
                 THEN \A d \in Devices : <<g, d>> \in regs[pool[a]] =>
                        d = opRow.dev /\ a \in opRow.apps
                 ELSE Told(a, g)

(* A group that leaves still knows whom it was registered with.            *)
LeaversInstalled ==
    opPc = "leave" => \A g \in opGroups, a \in Apps : pool[a] # None =>
        (pool[a] \in norths[g] <=> a \in groupApps[g])

IInv ==
    /\ TypeOK
    /\ NorthOpenDuringCall
    /\ NorthsOpen
    /\ NorthsInstalled
    /\ SubscriptionsOwned
    /\ BridgesOwned
    /\ OneAppEach
    /\ OpenAccounted
    /\ OpShape
    /\ RegsAccounted
    /\ LeaversInstalled
=============================================================================
