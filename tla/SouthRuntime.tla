---------------------------- MODULE SouthRuntime ----------------------------
(***************************************************************************)
(* The southbound half of Runner (internal/core/runner.go): the pool of    *)
(* physical connections, the collection goroutine of every group, the      *)
(* goroutines of the API that borrow a connection for one read, write,     *)
(* browse or invocation, and the lifecycle operations (Start, Stop,        *)
(* Reload, ReloadConnection, stopConnectionRuntime) that replace and       *)
(* remove connections and groups under all of them.                        *)
(*                                                                         *)
(* One goroutine at a time runs a lifecycle operation, because each of     *)
(* them holds lifecycleMu and Start returns before anything else begins;   *)
(* its program counter and locals are the variables op*.  A step is one    *)
(* critical section, one channel operation or one driver call.             *)
(*                                                                         *)
(* A connectionRuntime is an identity in Rts.  startConnection takes one   *)
(* that nothing refers to, which is what a fresh allocation is, so Rts     *)
(* bounds the runtimes that are referred to at the same time and not the   *)
(* number of reloads.                                                      *)
(***************************************************************************)
EXTENDS Naturals, FiniteSets

CONSTANTS
    Conns,           \* connection ids
    Groups,          \* collection group ids
    Callers,         \* goroutines of the API and of northbound commands
    Rts,             \* identities of connectionRuntime objects (bound)
    MaxConcurrency,  \* capacity of collectSem
    GroupRows,       \* the group rows the store may hold
    ConnStates,      \* the values of Enabled a connection row may hold
    Lifecycle,       \* the goroutine that runs a lifecycle operation
    None

(* A row of the group table, as far as the runtime reads it: whether the   *)
(* group is enabled, its connection, and whether it has tags.  A deleted   *)
(* row is handled by Reload as a disabled one.                             *)
GroupRow == [enabled : BOOLEAN, conn : Conns, tagged : BOOLEAN]

Users  == Groups \cup Callers
Actors == Users \cup {Lifecycle}

ASSUME Identities ==
    /\ Groups \cap Callers = {}
    /\ Lifecycle \notin Users
    /\ None \notin Actors \cup Conns \cup Rts \cup GroupRow
ASSUME Bounds ==
    /\ MaxConcurrency \in Nat \ {0}
    /\ IsFiniteSet(Groups)
    /\ GroupRows \subseteq GroupRow
    /\ ConnStates \subseteq BOOLEAN

VARIABLES
    connOn,        \* store: Enabled of each connection row
    groupRow,      \* store: the row of each group
    pendingConns,  \* connection rows changed and not reloaded since
    pendingGroups, \* group rows changed and not reloaded since
    started,       \* bgCancel # nil
    conns,         \* r.connections
    groups,        \* the keys of r.groups
    grConn,        \* groupRuntime.group.ConnectionID
    grRt,          \* groupRuntime.connRt
    grTagged,      \* groupRuntime.group.Tags is not empty
    cancelled,     \* groupRuntime.cancel was called (or there is none)
    pc,            \* where each collection goroutine and each caller is
    on,            \* the connectionRuntime its current operation uses
    io,            \* who holds ioSem of each connectionRuntime
    slots,         \* the groups that hold a slot of collectSem
    up,            \* the driver's Status().Connected
    closed,        \* Disconnect was called and the context cancelled
    opKind,        \* the lifecycle operation in progress
    opPc,          \* its program counter, "idle" while lifecycleMu is free
    opConn,        \* its locals: the connection it is about,
    opGroup,       \*   the group,
    opRow,         \*   the row Reload has read,
    opRt,          \*   the runtime it creates, closes or prepares for,
    opDrain,       \*   the groups it waits for,
    opClose,       \*   the runtimes it has to close,
    opConns,       \*   the connections and
    opGroups       \*   the groups it has still to start

store == <<connOn, groupRow>>
owed  == <<pendingConns, pendingGroups>>
grs   == <<grConn, grRt, grTagged, cancelled>>
topo  == <<started, conns, groups, grs>>
users == <<pc, on, io, slots>>
links == <<up, closed>>
what  == <<opKind, opConn, opGroup, opRow>>
todo  == <<opDrain, opClose, opConns, opGroups>>
op    == <<what, opPc, opRt, todo>>
vars  == <<store, owed, topo, users, links, op>>

(* The operation returns: lifecycleMu is free and its locals are gone.     *)
Return ==
    /\ opKind' = "none" /\ opPc' = "idle"
    /\ opConn' = None /\ opGroup' = None /\ opRow' = None /\ opRt' = None
    /\ opDrain' = {} /\ opClose' = {} /\ opConns' = {} /\ opGroups' = {}

Idle == opPc = "idle"

(* The runtimes some goroutine or map still refers to.                     *)
Referenced(rt) ==
    \/ \E c \in Conns : conns[c] = rt
    \/ \E g \in Groups : grRt[g] = rt
    \/ \E u \in Users : on[u] = rt
    \/ opRt = rt
    \/ rt \in opClose

-----------------------------------------------------------------------------
(* The operator edits the store; the handler reloads the row afterwards.   *)
(* The web server is started after Start has returned.                     *)

EditConn(c) ==
    /\ opKind # "start"
    /\ connOn' \in {[connOn EXCEPT ![c] = b] : b \in ConnStates}
    /\ connOn' # connOn
    /\ pendingConns' = pendingConns \cup {c}
    /\ UNCHANGED <<groupRow, pendingGroups, topo, users, links, op>>

EditGroup(g) ==
    /\ opKind # "start"
    /\ \E row \in GroupRows \ {groupRow[g]} :
          groupRow' = [groupRow EXCEPT ![g] = row]
    /\ pendingGroups' = pendingGroups \cup {g}
    /\ UNCHANGED <<connOn, pendingConns, topo, users, links, op>>

-----------------------------------------------------------------------------
(* runGroup and collectOnce.                                               *)

(* The timer fires and collectOnce takes its snapshot of the connection.   *)
Tick(g) ==
    /\ pc[g] = "idle"
    /\ pc' = [pc EXCEPT ![g] = "acquire"]
    /\ on' = [on EXCEPT ![g] = grRt[g]]
    /\ UNCHANGED <<store, owed, topo, io, slots, links, op>>

(* The group's context is done: the goroutine returns.                     *)
WorkerExit(g) ==
    /\ pc[g] = "idle"
    /\ cancelled[g]
    /\ pc' = [pc EXCEPT ![g] = "none"]
    /\ UNCHANGED <<store, owed, topo, on, io, slots, links, op>>

(* connRt.acquire: the connection first.  A group without tags only checks *)
(* the link, a group with tags goes on to ask for a global slot.           *)
CollectAcquire(g) ==
    /\ pc[g] = "acquire"
    /\ io[on[g]] = None
    /\ io' = [io EXCEPT ![on[g]] = g]
    /\ pc' = [pc EXCEPT ![g] = IF grTagged[g] THEN "slotWait" ELSE "probe"]
    /\ UNCHANGED <<store, owed, topo, on, slots, links, op>>

Leave(u) ==
    /\ pc' = [pc EXCEPT ![u] = "idle"]
    /\ on' = [on EXCEPT ![u] = None]

Release(u) == io' = [io EXCEPT ![on[u]] = None]

AcquireCancelled(g) ==
    /\ pc[g] = "acquire"
    /\ cancelled[g]
    /\ Leave(g)
    /\ UNCHANGED <<store, owed, topo, io, slots, links, op>>

(* Mutant: one slot too many.                                              *)
TakeSlotOver(g) ==
    /\ pc[g] = "slotWait"
    /\ Cardinality(slots) <= MaxConcurrency
    /\ slots' = slots \cup {g}
    /\ pc' = [pc EXCEPT ![g] = "reading"]
    /\ UNCHANGED <<store, owed, topo, on, io, links, op>>

TakeSlot(g) ==
    /\ pc[g] = "slotWait"
    /\ Cardinality(slots) < MaxConcurrency
    /\ slots' = slots \cup {g}
    /\ pc' = [pc EXCEPT ![g] = "reading"]
    /\ UNCHANGED <<store, owed, topo, on, io, links, op>>

(* Mutant: the connection is kept on this early return.                    *)
SlotCancelledLeaks(g) ==
    /\ pc[g] = "slotWait"
    /\ cancelled[g]
    /\ Leave(g)
    /\ UNCHANGED <<store, owed, topo, io, slots, links, op>>

SlotCancelled(g) ==
    /\ pc[g] = "slotWait"
    /\ cancelled[g]
    /\ Release(g)
    /\ Leave(g)
    /\ UNCHANGED <<store, owed, topo, slots, links, op>>

(* Any driver call may find the link broken or bring it back: the Modbus   *)
(* driver dials when it has no client, also after Disconnect.              *)
DriverReturns(rt) == \E b \in BOOLEAN : up' = [up EXCEPT ![rt] = b]

(* Mutant: the slot is not given back.                                     *)
ReadDoneKeepsSlot(g) ==
    /\ pc[g] = "reading"
    /\ DriverReturns(on[g])
    /\ Release(g)
    /\ Leave(g)
    /\ UNCHANGED <<store, owed, topo, slots, closed, op>>

(* ReadTags returns; the deferred calls give back the slot and the         *)
(* connection.                                                             *)
ReadDone(g) ==
    /\ pc[g] = "reading"
    /\ DriverReturns(on[g])
    /\ slots' = slots \ {g}
    /\ Release(g)
    /\ Leave(g)
    /\ UNCHANGED <<store, owed, topo, closed, op>>

(* A group without tags: Connect if the driver says it is not connected.   *)
ProbeDone(g) ==
    /\ pc[g] = "probe"
    /\ \/ up[on[g]] /\ UNCHANGED up
       \/ ~up[on[g]] /\ DriverReturns(on[g])
    /\ Release(g)
    /\ Leave(g)
    /\ UNCHANGED <<store, owed, topo, slots, closed, op>>

-----------------------------------------------------------------------------
(* ReadTag, WriteTag, BrowseOPCUA and invoke-function: look up the group,  *)
(* take its connection, acquire it under the request's deadline, call the  *)
(* driver, release.                                                        *)

CallerLookup(p) ==
    /\ pc[p] = "idle"
    /\ \E g \in groups : on' = [on EXCEPT ![p] = grRt[g]]
    /\ pc' = [pc EXCEPT ![p] = "acquire"]
    /\ UNCHANGED <<store, owed, topo, io, slots, links, op>>

CallerAcquire(p) ==
    /\ pc[p] = "acquire"
    /\ io[on[p]] = None
    /\ io' = [io EXCEPT ![on[p]] = p]
    /\ pc' = [pc EXCEPT ![p] = "call"]
    /\ UNCHANGED <<store, owed, topo, on, slots, links, op>>

CallerTimeout(p) ==
    /\ pc[p] = "acquire"
    /\ Leave(p)
    /\ UNCHANGED <<store, owed, topo, io, slots, links, op>>

CallDone(p) ==
    /\ pc[p] = "call"
    /\ DriverReturns(on[p])
    /\ Release(p)
    /\ Leave(p)
    /\ UNCHANGED <<store, owed, topo, slots, closed, op>>

(* The device drops the link.                                              *)
LinkLost(rt) ==
    /\ up[rt]
    /\ up' = [up EXCEPT ![rt] = FALSE]
    /\ UNCHANGED <<store, owed, topo, users, closed, op>>

-----------------------------------------------------------------------------
(* startConnection.                                                        *)

(* CreateLifecycle returns a new driver.                                   *)
Create(rt) ==
    /\ ~Referenced(rt)
    /\ up' = [up EXCEPT ![rt] = FALSE]
    /\ closed' = [closed EXCEPT ![rt] = FALSE]

(* driver.Connect succeeds.                                                *)
ConnectOk ==
    /\ opPc = "connect"
    /\ up' = [up EXCEPT ![opRt] = TRUE]
    /\ opPc' = "publish"
    /\ UNCHANGED <<store, owed, topo, users, closed, what, opRt, todo>>

(* driver.Connect fails: a connected old runtime is kept, otherwise the    *)
(* new driver is installed all the same and reconnects later.              *)
ConnectFailed ==
    /\ opPc = "connect"
    /\ LET old == conns[opConn] IN
       opPc' = IF old # None /\ up[old] THEN "discard" ELSE "publish"
    /\ UNCHANGED <<store, owed, topo, users, links, what, opRt, todo>>

(* startConnection has returned: Start goes on with the next connection,   *)
(* ReloadConnection with the groups.                                       *)
NextPhase == opPc' = IF opKind = "start" THEN "pickConn" ELSE "list"

(* Only ReloadConnection finds an old runtime, and it returns the error.   *)
Discard ==
    /\ opPc = "discard"
    /\ closed' = [closed EXCEPT ![opRt] = TRUE]
    /\ up' = [up EXCEPT ![opRt] = FALSE]
    /\ Return
    /\ UNCHANGED <<store, owed, topo, users>>

(* Mutant: the running groups keep the old runtime.                        *)
PublishAlone ==
    /\ opPc = "publish"
    /\ conns' = [conns EXCEPT ![opConn] = opRt]
    /\ opRt' = None
    /\ opClose' = {conns[opConn]} \ {None}
    /\ IF conns[opConn] = None THEN NextPhase ELSE opPc' = "close"
    /\ UNCHANGED <<store, owed, started, groups, grs, users, links, what,
                   opDrain, opConns, opGroups>>

(* One critical section of r.mu installs the runtime and hands it to the   *)
(* groups that run on the connection.                                      *)
Publish ==
    /\ opPc = "publish"
    /\ conns' = [conns EXCEPT ![opConn] = opRt]
    /\ grRt' = [g \in Groups |-> IF g \in groups /\ grConn[g] = opConn
                                 THEN opRt ELSE grRt[g]]
    /\ opRt' = None
    /\ opClose' = {conns[opConn]} \ {None}
    /\ IF conns[opConn] = None THEN NextPhase ELSE opPc' = "close"
    /\ UNCHANGED <<store, owed, started, groups, grConn, grTagged, cancelled,
                   users, links, what, opDrain, opConns, opGroups>>

(* Mutant: Disconnect without waiting for the connection.                  *)
CloseAtOnce(rt) ==
    /\ opPc = "close"
    /\ rt \in opClose
    /\ io' = [io EXCEPT ![rt] = Lifecycle]
    /\ opPc' = "closing"
    /\ opRt' = rt
    /\ UNCHANGED <<store, owed, topo, pc, on, slots, links, what, todo>>

(* closeConnection: wait for the connection, Disconnect, cancel, release.  *)
CloseAcquire(rt) ==
    /\ opPc = "close"
    /\ rt \in opClose
    /\ io[rt] = None
    /\ io' = [io EXCEPT ![rt] = Lifecycle]
    /\ opPc' = "closing"
    /\ opRt' = rt
    /\ UNCHANGED <<store, owed, topo, pc, on, slots, links, what, todo>>

CloseDone ==
    /\ opPc = "closing"
    /\ up' = [up EXCEPT ![opRt] = FALSE]
    /\ closed' = [closed EXCEPT ![opRt] = TRUE]
    /\ io' = [io EXCEPT ![opRt] = None]
    /\ opPc' = "close"
    /\ opRt' = None
    /\ opClose' = opClose \ {opRt}
    /\ UNCHANGED <<store, owed, topo, pc, on, slots, what, opDrain, opConns,
                   opGroups>>

(* Every runtime the operation had to close is closed.                     *)
CloseFinished ==
    /\ opPc = "close"
    /\ opClose = {}
    /\ \/ /\ opKind = "conn"
          /\ NextPhase
          /\ UNCHANGED <<pendingConns, what, opRt, todo>>
       \/ /\ opKind # "conn"
          /\ Return
          /\ pendingConns' = IF opKind = "disable" /\ ~connOn[opConn]
                             THEN pendingConns \ {opConn} ELSE pendingConns
    /\ UNCHANGED <<store, pendingGroups, topo, users, links>>

-----------------------------------------------------------------------------
(* Starting groups: the loops of Start and of ReloadConnection.            *)

(* startPreparedGroup: a new groupRuntime enters the map and its goroutine *)
(* starts.                                                                 *)
Launch(g, c, rt, tagged) ==
    /\ grConn' = [grConn EXCEPT ![g] = c]
    /\ grRt' = [grRt EXCEPT ![g] = rt]
    /\ grTagged' = [grTagged EXCEPT ![g] = tagged]
    /\ cancelled' = [cancelled EXCEPT ![g] = FALSE]
    /\ groups' = groups \cup {g}
    /\ pc' = [pc EXCEPT ![g] = "idle"]

(* ListEnabledGroups, of one connection for ReloadConnection.              *)
ListGroups ==
    /\ \/ opPc = "list"
       \/ opPc = "pickConn" /\ opConns = {}
    /\ opPc' = "pickGroup"
    /\ opGroups' = {g \in Groups : /\ groupRow[g].enabled
                                   /\ \/ opKind = "start"
                                      \/ groupRow[g].conn = opConn}
    /\ UNCHANGED <<store, owed, topo, users, links, what, opRt, opDrain,
                   opClose, opConns>>

(* A database error while listing the groups after a connection reload.    *)
ListGroupsFails ==
    /\ opPc = "list"
    /\ Return
    /\ UNCHANGED <<store, owed, topo, users, links>>

GroupConn(g) == IF opKind = "start" THEN groupRow[g].conn ELSE opConn

StartGroup(g) ==
    /\ opPc = "pickGroup"
    /\ g \in opGroups \ groups
    /\ conns[GroupConn(g)] # None
    /\ Launch(g, GroupConn(g), conns[GroupConn(g)], groupRow[g].tagged)
    /\ opGroups' = opGroups \ {g}
    /\ UNCHANGED <<store, owed, started, conns, on, io, slots, links, what,
                   opPc, opRt, opDrain, opClose, opConns>>

(* ReloadConnection leaves a group that already runs alone.                *)
SkipGroup(g) ==
    /\ opPc = "pickGroup"
    /\ g \in opGroups \cap groups
    /\ opGroups' = opGroups \ {g}
    /\ UNCHANGED <<store, owed, topo, users, links, what, opPc, opRt, opDrain,
                   opClose, opConns>>

(* prepareGroup fails: the connection does not run or the tags cannot be   *)
(* read.  Start goes on with the next group, ReloadConnection returns.     *)
StartGroupFails(g) ==
    /\ opPc = "pickGroup"
    /\ g \in opGroups \ groups
    /\ \/ /\ opKind = "start"
          /\ opGroups' = opGroups \ {g}
          /\ pendingGroups' = pendingGroups \cup {g}
          /\ UNCHANGED <<what, opPc, opRt, opDrain, opClose, opConns>>
       \/ /\ opKind = "conn"
          /\ Return
          /\ UNCHANGED pendingGroups
    /\ UNCHANGED <<store, pendingConns, topo, users, links>>

(* Start or ReloadConnection has gone through its groups.                  *)
GroupsStarted ==
    /\ opPc = "pickGroup"
    /\ opGroups = {}
    /\ Return
    /\ pendingConns' = IF opKind = "conn" /\ connOn[opConn]
                       THEN pendingConns \ {opConn} ELSE pendingConns
    /\ UNCHANGED <<store, pendingGroups, topo, users, links>>

-----------------------------------------------------------------------------
(* Start: initConnections goes through the enabled connections.            *)

BootConn(c, rt) ==
    /\ opPc = "pickConn"
    /\ c \in opConns
    /\ Create(rt)
    /\ opPc' = "connect"
    /\ opConn' = c
    /\ opRt' = rt
    /\ opConns' = opConns \ {c}
    /\ UNCHANGED <<store, owed, topo, users, opKind, opGroup, opRow, opDrain,
                   opClose, opGroups>>

(* The driver cannot be created: logged, and Start goes on.                *)
BootConnFails(c) ==
    /\ opPc = "pickConn"
    /\ c \in opConns
    /\ opConns' = opConns \ {c}
    /\ pendingConns' = pendingConns \cup {c}
    /\ UNCHANGED <<store, pendingGroups, topo, users, links, what, opPc, opRt,
                   opDrain, opClose, opGroups>>

-----------------------------------------------------------------------------
(* ReloadConnection and stopConnectionRuntime.  An error before the first  *)
(* step below (store, configuration, driver creation) changes nothing.     *)

ReloadConnection(c, rt) ==
    /\ Idle
    /\ started
    /\ connOn[c]
    /\ Create(rt)
    /\ opKind' = "conn"
    /\ opPc' = "connect"
    /\ opConn' = c
    /\ opRt' = rt
    /\ UNCHANGED <<store, owed, topo, users, opGroup, opRow, todo>>

(* Mutant: the groups leave the map and nothing waits for them.            *)
RemoveConnNoWait(c, kind) ==
    LET removed == {g \in groups : grConn[g] = c} IN
    /\ conns' = [conns EXCEPT ![c] = None]
    /\ groups' = groups \ removed
    /\ cancelled' = [g \in Groups |-> cancelled[g] \/ g \in removed]
    /\ opKind' = kind
    /\ opPc' = "drain"
    /\ opConn' = c
    /\ opDrain' = {}
    /\ opClose' = {conns[c]} \ {None}
    /\ UNCHANGED <<store, pendingGroups, started, grConn, grRt, grTagged,
                   users, links, opGroup, opRow, opRt, opConns, opGroups>>

(* Mutant: the groups of the connection go on.                             *)
RemoveConnKeepsGroups(c, kind) ==
    /\ conns' = [conns EXCEPT ![c] = None]
    /\ opKind' = kind
    /\ opPc' = "drain"
    /\ opConn' = c
    /\ opDrain' = {}
    /\ opClose' = {conns[c]} \ {None}
    /\ UNCHANGED <<store, pendingGroups, started, groups, grs, users, links,
                   opGroup, opRow, opRt, opConns, opGroups>>

(* The connection and its groups leave the maps, the groups are cancelled. *)
RemoveConn(c, kind) ==
    LET removed == {g \in groups : grConn[g] = c} IN
    /\ conns' = [conns EXCEPT ![c] = None]
    /\ groups' = groups \ removed
    /\ cancelled' = [g \in Groups |-> cancelled[g] \/ g \in removed]
    /\ opKind' = kind
    /\ opPc' = "drain"
    /\ opConn' = c
    /\ opDrain' = removed
    /\ opClose' = {conns[c]} \ {None}
    /\ UNCHANGED <<store, pendingGroups, started, grConn, grRt, grTagged,
                   users, links, opGroup, opRow, opRt, opConns, opGroups>>

(* ReloadConnection of a row that is disabled or gone.                     *)
DisableConnection(c) ==
    /\ Idle
    /\ started
    /\ ~connOn[c]
    /\ RemoveConn(c, "disable")
    /\ UNCHANGED pendingConns

(* ReconcileExtensionTypes: the plugin of an enabled connection is gone.   *)
UnloadConnection(c) ==
    /\ Idle
    /\ RemoveConn(c, "unload")
    /\ pendingConns' = pendingConns \cup {c}

(* The runtimes of gone groups are garbage.                                *)
Forget(gone) ==
    /\ grConn' = [g \in Groups |-> IF g \in gone THEN None ELSE grConn[g]]
    /\ grRt' = [g \in Groups |-> IF g \in gone THEN None ELSE grRt[g]]
    /\ grTagged' = [g \in Groups |-> g \notin gone /\ grTagged[g]]
    /\ cancelled' = [g \in Groups |-> g \in gone \/ cancelled[g]]

(* gr.wg.Wait of the groups the operation has cancelled.                   *)
Drained ==
    /\ opPc = "drain"
    /\ \A g \in opDrain : pc[g] = "none"
    /\ \/ opKind = "group" /\ opPc' = "remove" /\ UNCHANGED grs
       \/ opKind # "group" /\ opPc' = "close" /\ Forget(opDrain)
    /\ opDrain' = {}
    /\ UNCHANGED <<store, owed, started, conns, groups, users, links, what,
                   opRt, opClose, opConns, opGroups>>

-----------------------------------------------------------------------------
(* Reload of one group.                                                    *)

(* GetGroup and, for an enabled row, prepareGroup; a failure of either     *)
(* leaves the running group alone, and is a step that changes nothing.     *)
Reload(g) ==
    /\ Idle
    /\ groupRow[g].enabled => conns[groupRow[g].conn] # None
    /\ opKind' = "group"
    /\ opPc' = "cancel"
    /\ opGroup' = g
    /\ opRow' = groupRow[g]
    /\ opRt' = IF groupRow[g].enabled THEN conns[groupRow[g].conn] ELSE None
    /\ UNCHANGED <<store, owed, topo, users, links, opConn, todo>>

(* Mutant: the old goroutine is cancelled and not waited for.              *)
CancelOldNoWait ==
    /\ opPc = "cancel"
    /\ opDrain' = {}
    /\ cancelled' = [g \in Groups |-> cancelled[g] \/ g = opGroup]
    /\ opPc' = "drain"
    /\ UNCHANGED <<store, owed, started, conns, groups, grConn, grRt, grTagged,
                   users, links, what, opRt, opClose, opConns, opGroups>>

CancelOld ==
    /\ opPc = "cancel"
    /\ opDrain' = {opGroup} \cap groups
    /\ cancelled' = [g \in Groups |-> cancelled[g] \/ g = opGroup]
    /\ opPc' = "drain"
    /\ UNCHANGED <<store, owed, started, conns, groups, grConn, grRt, grTagged,
                   users, links, what, opRt, opClose, opConns, opGroups>>

(* The row the operation has read is still the stored one.                 *)
ReloadedRow(g) == IF groupRow[g] = opRow THEN pendingGroups \ {g}
                  ELSE pendingGroups

RemoveOld ==
    /\ opPc = "remove"
    /\ groups' = groups \ {opGroup}
    /\ Forget({opGroup})
    /\ \/ /\ opRow.enabled
          /\ opPc' = "launch"
          /\ UNCHANGED <<pendingGroups, what, opRt, todo>>
       \/ /\ ~opRow.enabled
          /\ Return
          /\ pendingGroups' = ReloadedRow(opGroup)
    /\ UNCHANGED <<store, pendingConns, started, conns, users, links>>

LaunchNew ==
    /\ opPc = "launch"
    /\ Launch(opGroup, opRow.conn, opRt, opRow.tagged)
    /\ pendingGroups' = ReloadedRow(opGroup)
    /\ Return
    /\ UNCHANGED <<store, pendingConns, started, conns, on, io, slots, links>>

-----------------------------------------------------------------------------
(* Stop: cancel everything, empty the maps, wait for the goroutines, close *)
(* the connections.                                                        *)

Stop ==
    /\ Idle
    /\ started' = FALSE
    /\ conns' = [c \in Conns |-> None]
    /\ groups' = {}
    /\ cancelled' = [g \in Groups |-> TRUE]
    /\ opKind' = "stop"
    /\ opPc' = "drain"
    /\ opDrain' = groups
    /\ opClose' = {conns[c] : c \in Conns} \ {None}
    /\ UNCHANGED <<store, owed, grConn, grRt, grTagged, users, links, opConn,
                   opGroup, opRow, opRt, opConns, opGroups>>

-----------------------------------------------------------------------------
Init ==
    /\ connOn \in [Conns -> ConnStates]
    /\ groupRow \in [Groups -> GroupRows]
    /\ pendingConns = {}
    /\ pendingGroups = {}
    /\ started = TRUE
    /\ conns = [c \in Conns |-> None]
    /\ groups = {}
    /\ grConn = [g \in Groups |-> None]
    /\ grRt = [g \in Groups |-> None]
    /\ grTagged = [g \in Groups |-> FALSE]
    /\ cancelled = [g \in Groups |-> TRUE]
    /\ pc = [u \in Users |-> IF u \in Groups THEN "none" ELSE "idle"]
    /\ on = [u \in Users |-> None]
    /\ io = [rt \in Rts |-> None]
    /\ slots = {}
    /\ up = [rt \in Rts |-> FALSE]
    /\ closed = [rt \in Rts |-> FALSE]
    /\ opKind = "start"
    /\ opPc = "pickConn"
    /\ opConn = None
    /\ opGroup = None
    /\ opRow = None
    /\ opRt = None
    /\ opDrain = {}
    /\ opClose = {}
    /\ opConns = {c \in Conns : connOn[c]}
    /\ opGroups = {}

Environment ==
    \/ \E c \in Conns : EditConn(c)
    \/ \E g \in Groups : EditGroup(g)
    \/ \E rt \in Rts : LinkLost(rt)

Collect(g) ==
    \/ Tick(g) \/ WorkerExit(g)
    \/ CollectAcquire(g) \/ AcquireCancelled(g)
    \/ TakeSlot(g) \/ SlotCancelled(g)
    \/ ReadDone(g) \/ ProbeDone(g)

Call(p) ==
    \/ CallerLookup(p) \/ CallerAcquire(p) \/ CallerTimeout(p) \/ CallDone(p)

(* A lifecycle operation begins.                                           *)
BeginOp ==
    \/ \E c \in Conns, rt \in Rts : ReloadConnection(c, rt)
    \/ \E c \in Conns : DisableConnection(c) \/ UnloadConnection(c)
    \/ \E g \in Groups : Reload(g)
    \/ Stop

(* It goes on.                                                             *)
OpStep ==
    \/ \E c \in Conns, rt \in Rts : BootConn(c, rt)
    \/ \E c \in Conns : BootConnFails(c)
    \/ ConnectOk \/ ConnectFailed \/ Discard \/ Publish
    \/ \E rt \in Rts : CloseAcquire(rt)
    \/ CloseDone \/ CloseFinished
    \/ ListGroups \/ ListGroupsFails \/ GroupsStarted
    \/ \E g \in Groups : StartGroup(g) \/ SkipGroup(g) \/ StartGroupFails(g)
    \/ Drained \/ CancelOld \/ RemoveOld \/ LaunchNew

Next ==
    \/ Environment
    \/ \E g \in Groups : Collect(g)
    \/ \E p \in Callers : Call(p)
    \/ BeginOp
    \/ OpStep

Spec == Init /\ [][Next]_vars

(* Goroutines are scheduled, driver calls return (they carry deadlines or  *)
(* a dial timeout), and the goroutines blocked on a channel are served in  *)
(* order of arrival: each process is strongly fair at whatever step it has *)
(* reached.  A select whose context is done and whose timer has fired      *)
(* takes either case, so a cancelled loop ends sooner or later.  Nothing   *)
(* makes an operator, a caller or a failing link act.                      *)
Fairness ==
    /\ SF_vars(OpStep)
    /\ \A g \in Groups :
          /\ SF_vars(Tick(g) \/ CollectAcquire(g) \/ TakeSlot(g)
                       \/ ReadDone(g) \/ ProbeDone(g))
          /\ SF_vars(WorkerExit(g))
    /\ \A p \in Callers : WF_vars(CallDone(p))

FairSpec == Spec /\ Fairness

-----------------------------------------------------------------------------
(* Properties.                                                             *)

StoreType ==
    /\ connOn \in [Conns -> BOOLEAN]
    /\ groupRow \in [Groups -> GroupRow]
    /\ pendingConns \subseteq Conns
    /\ pendingGroups \subseteq Groups

TopoType ==
    /\ started \in BOOLEAN
    /\ conns \in [Conns -> Rts \cup {None}]
    /\ groups \subseteq Groups
    /\ grConn \in [Groups -> Conns \cup {None}]
    /\ grRt \in [Groups -> Rts \cup {None}]
    /\ grTagged \in [Groups -> BOOLEAN]
    /\ cancelled \in [Groups -> BOOLEAN]

UsersType ==
    /\ pc \in [Users -> {"none", "idle", "acquire", "slotWait", "reading",
                         "probe", "call"}]
    /\ on \in [Users -> Rts \cup {None}]
    /\ io \in [Rts -> Actors \cup {None}]
    /\ slots \subseteq Groups
    /\ up \in [Rts -> BOOLEAN]
    /\ closed \in [Rts -> BOOLEAN]

OpType ==
    /\ opKind \in {"none", "start", "stop", "group", "conn", "disable",
                   "unload"}
    /\ opPc \in {"idle", "pickConn", "connect", "discard", "publish", "close",
                 "closing", "list", "pickGroup", "cancel", "drain", "remove",
                 "launch"}
    /\ opConn \in Conns \cup {None}
    /\ opGroup \in Groups \cup {None}
    /\ opRow \in GroupRow \cup {None}
    /\ opRt \in Rts \cup {None}
    /\ opDrain \subseteq Groups
    /\ opClose \subseteq Rts
    /\ opConns \subseteq Conns
    /\ opGroups \subseteq Groups

(* Every variable has its type.                                            *)
TypeOK == StoreType /\ TopoType /\ UsersType /\ OpType

(* Who is inside a call of the driver of rt.                               *)
InDriver(a, rt) ==
    \/ /\ a \in Users
       /\ on[a] = rt
       /\ pc[a] \in {"reading", "probe", "call"}
    \/ /\ a = Lifecycle
       /\ opRt = rt
       /\ opPc \in {"connect", "discard", "closing"}

(* A driver is never called by two goroutines at once, although Connect    *)
(* and the Disconnect of a rejected candidate take no semaphore.           *)
ExclusiveDriver ==
    \A rt \in Rts : \A a, b \in Actors :
        InDriver(a, rt) /\ InDriver(b, rt) => a = b

(* The global concurrency limit holds, and a connection never occupies     *)
(* more than one of its slots however many groups share it: a slow device  *)
(* does not take the capacity of the others (comment at runner.go:1021).   *)
SlotsFairlyShared ==
    /\ Cardinality(slots) <= MaxConcurrency
    /\ \A g, h \in slots : on[g] = on[h] => g = h

(* At every moment a running group refers to the installed runtime of its  *)
(* connection: replacing, removing and restarting never leave a group on   *)
(* an old one.                                                             *)
GroupsUseInstalledConn ==
    \A g \in groups : /\ grConn[g] \in Conns
                      /\ grRt[g] # None
                      /\ grRt[g] = conns[grConn[g]]

(* Stop, disable and unload close a connection only after every goroutine  *)
(* of its groups has returned (comment at runner.go:306).                  *)
DrainedBeforeClose ==
    opKind \in {"stop", "disable", "unload"} /\ opPc \in {"close", "closing"}
      => \A rt \in opClose : \A g \in Groups :
            pc[g] # "none" => on[g] # rt /\ grRt[g] # rt

(* Between operations there is one collection goroutine for each entry of  *)
(* r.groups and no other: none is lost, none survives its removal.         *)
OneWorkerPerGroup ==
    Idle => \A g \in Groups : /\ pc[g] # "none" <=> g \in groups
                              /\ g \in groups => ~cancelled[g]

(* A group's goroutine starts only when its last one has returned: two     *)
(* generations never collect at the same time (groupRuntime.wg, comment at *)
(* runner.go:627).                                                         *)
Starts(g) == StartGroup(g) \/ (LaunchNew /\ opGroup = g)
NeverTwoWorkers == [][\A g \in Groups : Starts(g) => pc[g] = "none"]_vars

(* Once the rows of a connection and of a group have been reloaded after   *)
(* their last edit, the runtime is what the store says: the connection is  *)
(* installed iff enabled, and the group runs, on that connection and with  *)
(* its tags, iff both are.                                                 *)
RuntimeMatchesStore ==
    Idle /\ started =>
      /\ \A c \in Conns \ pendingConns : conns[c] # None <=> connOn[c]
      /\ \A g \in Groups \ pendingGroups :
            LET row == groupRow[g] IN
            row.conn \notin pendingConns =>
              /\ g \in groups <=> row.enabled /\ connOn[row.conn]
              /\ g \in groups => /\ grConn[g] = row.conn
                                 /\ grTagged[g] = row.tagged

(* Every lifecycle operation returns and frees lifecycleMu, whatever the   *)
(* collection goroutines and the callers hold when it starts.              *)
OperationsReturn == ~Idle ~> Idle

(* A group that waits for its connection gets through collectOnce or is    *)
(* cancelled: neither the other groups of the connection nor the global    *)
(* limit starve it.                                                        *)
CollectionsServed ==
    \A g \in Groups :
        pc[g] = "acquire" ~> pc[g] \in {"reading", "probe"} \/ cancelled[g]

-----------------------------------------------------------------------------
(* The inductive invariant of the proofs: what holds at each position of   *)
(* the operation in progress, and what the other goroutines rely on.       *)

(* Every live collection goroutine is known to the map or to the operation *)
(* that waits for it; only a Reload cancels a group still in the map.      *)
WorkersTracked ==
    \A g \in Groups :
        /\ pc[g] # "none" => /\ g \in groups \cup opDrain
                             /\ grRt[g] # None
        /\ pc[g] = "none" /\ g \in groups => cancelled[g]
        /\ g \in groups /\ cancelled[g] =>
              /\ opKind = "group"
              /\ opGroup = g
              /\ opPc \in {"drain", "remove"}

(* A goroutine past its acquire holds the semaphore of the runtime it took *)
(* its snapshot of.                                                        *)
UsersHold ==
    \A u \in Users :
        /\ pc[u] \in {"none", "idle"} <=> on[u] = None
        /\ pc[u] \in {"slotWait", "reading", "probe", "call"} => io[on[u]] = u

(* Slots are held exactly by the groups that read, and are limited.        *)
SlotsOfReaders == slots = {g \in Groups : pc[g] = "reading"}
SlotsBounded == Cardinality(slots) <= MaxConcurrency

(* A runtime belongs to one connection, and so does what a group and its   *)
(* goroutine refer to as long as the runtime is installed.                 *)
OneOwner ==
    \A c \in Conns :
        conns[c] # None =>
          /\ \A d \in Conns : conns[d] = conns[c] => d = c
          /\ \A g \in Groups : conns[c] \in {on[g], grRt[g]} => grConn[g] = c

(* A candidate runtime is known to the operation alone.                    *)
CandidatePrivate ==
    opPc \in {"connect", "discard", "publish"} =>
      /\ opKind \in {"start", "conn"}
      /\ opConn # None
      /\ opRt # None
      /\ opClose = {}
      /\ \A c \in Conns : conns[c] # opRt
      /\ \A g \in Groups : grRt[g] # opRt
      /\ \A u \in Users : on[u] # opRt

(* What Stop, disable and unload are about to close is out of reach of     *)
(* every goroutine they do not wait for.                                   *)
ClosingUnused ==
    opKind \in {"stop", "disable", "unload"} =>
      /\ opPc \in {"drain", "close", "closing"}
      /\ opDrain \cap groups = {}
      /\ \A rt \in opClose :
            /\ \A c \in Conns : conns[c] # rt
            /\ \A g \in Groups \ opDrain :
                  pc[g] # "none" => on[g] # rt /\ grRt[g] # rt

(* The locals of a Reload at each of its positions.                        *)
ReloadLocals ==
    opKind = "group" =>
      /\ opPc \in {"cancel", "drain", "remove", "launch"}
      /\ opGroup # None
      /\ opRow # None
      /\ opRow.enabled => /\ opRt # None
                          /\ opRt = conns[opRow.conn]
      /\ opPc = "drain" => opDrain = {opGroup} \cap groups
      /\ opPc = "remove" => pc[opGroup] = "none"
      /\ opPc = "launch" => opGroup \notin groups /\ opRow.enabled

OpShape ==
    /\ opPc = "idle" <=> opKind = "none"
    /\ Idle => /\ opConn = None /\ opGroup = None /\ opRow = None
               /\ opRt = None /\ opDrain = {} /\ opClose = {} /\ opConns = {} /\ opGroups = {}
    /\ opPc \in {"cancel", "remove", "launch"} => opKind = "group"
    /\ opPc \in {"list", "pickConn", "pickGroup"} =>
          opKind \in {"start", "conn"} /\ opClose = {}
    /\ opPc = "drain" => opKind \in {"group", "stop", "disable", "unload"}
    /\ opKind \in {"conn", "disable", "unload"} => opConn # None
    /\ opDrain # {} => opPc = "drain"
    /\ opPc = "closing" => /\ opRt \in opClose
                           /\ io[opRt] = Lifecycle

IInv ==
    /\ TypeOK
    /\ WorkersTracked
    /\ UsersHold
    /\ SlotsOfReaders
    /\ SlotsBounded
    /\ OneOwner
    /\ GroupsUseInstalledConn
    /\ CandidatePrivate
    /\ ClosingUnused
    /\ ReloadLocals
    /\ OpShape

-----------------------------------------------------------------------------
(* What RuntimeMatchesStore needs while an operation is in progress.       *)

(* Start has still to boot c.                                              *)
ToBoot(c) ==
    /\ opKind = "start"
    /\ c \in opConns \/ (opPc \in {"connect", "publish"} /\ opConn = c)

(* A connection whose row was reloaded after its last edit is installed if *)
(* and only if it is enabled, or about to be.                              *)
ConnsMatch ==
    started => \A c \in Conns \ pendingConns :
        /\ conns[c] # None => connOn[c]
        /\ connOn[c] => conns[c] # None \/ ToBoot(c)

(* A running group whose row was reloaded after its last edit runs as its  *)
(* row says, whatever has become of its connection's row.                  *)
GroupsCurrent ==
    \A g \in groups \ pendingGroups :
        /\ groupRow[g].enabled
        /\ grConn[g] = groupRow[g].conn
        /\ grTagged[g] = groupRow[g].tagged

(* Start has still to start g, or a Reload to launch it again.             *)
ToStart(g) ==
    \/ opKind = "start" /\ (opPc = "pickGroup" => g \in opGroups)
    \/ opPc = "launch" /\ opGroup = g

(* A group that should run does, or is about to.                           *)
GroupsComplete ==
    started => \A g \in Groups \ pendingGroups :
        LET row == groupRow[g] IN
        row.enabled /\ row.conn \notin pendingConns /\ connOn[row.conn] =>
            g \in groups \/ ToStart(g)

(* Start installs every connection before it starts any group.             *)
StartLocals ==
    opKind = "start" =>
      /\ opPc \in {"pickConn", "connect", "publish", "pickGroup"}
      /\ opPc # "pickGroup" => groups = {}
      /\ opPc = "pickGroup" => opConns = {} /\ opGroups \cap groups = {}
      /\ opPc \in {"connect", "publish"} =>
            connOn[opConn] /\ conns[opConn] = None /\ opConn \notin opConns
      /\ \A c \in opConns : connOn[c] /\ conns[c] = None
      /\ \A g \in opGroups : groupRow[g].enabled

(* A row that was edited under a ReloadConnection stays pending.           *)
ConnLocals ==
    opKind = "conn" =>
      /\ opPc # "pickConn"
      /\ opPc \in {"close", "closing", "list", "pickGroup"} =>
            conns[opConn] # None
      /\ opConn \notin pendingConns => connOn[opConn]
      /\ opPc = "pickGroup" =>
            /\ \A g \in opGroups \ pendingGroups :
                  groupRow[g].enabled /\ groupRow[g].conn = opConn
            /\ \A g \in Groups \ pendingGroups :
                  groupRow[g].enabled /\ groupRow[g].conn = opConn =>
                    g \in groups \cup opGroups

RowLocals ==
    /\ opKind = "disable" => conns[opConn] = None
    /\ opKind = "group" /\ opGroup \notin pendingGroups =>
          opRow = groupRow[opGroup]

SInv ==
    /\ ConnsMatch /\ GroupsCurrent /\ GroupsComplete
    /\ StartLocals /\ ConnLocals /\ RowLocals
=============================================================================
