# A TLA+ model of the JetLinks Edge gateway

JetLinks Edge collects values from field devices (Modbus, OPC UA, external
drivers) and forwards them to northbound applications (JetLinks MQTT, generic
MQTT, external plugins), from which it also receives commands. It is configured
through a web API, and every change is applied to the running process without a
restart. What is hard about it is exactly that: connections, collection groups
and applications are replaced and removed while dozens of goroutines use them.

This directory models that runtime in TLA+, checks the models with TLC on small
instances and proves the main invariants with TLAPS for instances of any size.
Line numbers below refer to `src/internal/core/runner.go` unless another file is
named.

## 1. The system

```
 web API ──► Store (rows) ──► Runner lifecycle operations (lifecycleMu)
                                 │             │
  devices ◄─ driver ◄─ connection pool         │
                 ▲   ioSem, collectSem         │
                 │                             ▼
             collection goroutine ─► event bus ─► bridge ─► delivery queue ─► application ─► broker
              (one per group)        (channel)  (northCallMu)  (queuedNorth)
                 ▲                                                              │
                 └───────────────── commands: read, write, invoke ◄─────────────┘
```

| Component | State | Operations | What makes it correct |
|---|---|---|---|
| Runner, south (`core/runner.go`) | `connections`, `groups`, `groupRuntime.connRt`, `ioSem` per connection, `collectSem`, `bgCancel` | `Start`, `Stop`, `Reload`, `ReloadConnection`, `stopConnectionRuntime`, `runGroup`/`collectOnce`, `ReadTag`, `WriteTag` | one caller per driver; one goroutine per group; groups use installed connections; nothing is closed under its users; what runs is what the store says |
| Runner, north (`core/runner.go`) | `northApps`, `groupRuntime.norths`, registrations inside the applications, `northCallMu` | `startNorthApp`, `deleteNorthApp`, `Reload`, `Stop`, the bridges | no instance is closed under a bridge; a group calls what is installed; applications know exactly the groups that feed them; nothing leaks |
| Event bus (`core/eventbus.go`) | topic → set of bounded channels | `Publish`, `Subscribe`, unsubscribe | publishing never blocks; subscriptions are given back |
| Delivery queue (`core/north_delivery.go`) | bounded channel, counters, worker | `OnMessage`, `run`, `deliver`, `Close` | in order, at most one outcome for each message, counters that add up, `Close` returns |
| Value cache and commands (`core/runner.go:1105-1343`, `1638-1666`) | `lastVals`; the commands under way | collection, `executeNorthCommand`, `ReadTag`, `WriteTag`, deletion | what is reported as changed adds up to what is cached; each command is answered |
| JetLinks application (`northbound/jetlinksmqtt`) | `groups` by device, reference counts, the MQTT client | `RegisterGroup`, `DeregisterGroup`, `onConnect`, reconnect and refresh loops, command workers | subscribed to the devices that have groups, across reconnections |
| Generic MQTT application (`northbound/mqtt`) | the client, a limit of 4 commands | connect, reconnect, `onMessageReceived`, `Close` | no command is executed after `Close` |
| External plugin (`externalplugin/client.go`, `adapter.go`) | process, pending calls, `closed` | `call`, `readLoop`, `finish`, restart, `Close` | one process per adapter and none left over; each call ends once |
| Plugin manager (`externalplugin/manager.go`) | known manifests, the registries | `Reload`, `Watch` | registry, running instances and manifests agree after a rescan |
| Store (`store/store.go`) and handlers (`web/handler`) | rows of connections, groups, tags, applications, bindings | save, reload, roll back; migrations | a failed update leaves the previous row; deleted applications are not referenced |
| Modbus (`driver/modbus`, `pkg/modbuslib`) | TCP client, transaction id | read spans, encode, decode | each tag is read once and from its address; what is written reads back |
| OPC UA driver, web server, authentication, configuration, logging, web console | — | — | not modelled (section 8) |

Who calls whom. The handlers save a row and then call the Runner; each lifecycle
operation holds `lifecycleMu` from beginning to end. `main.go` loads the plugins,
starts the Runner, then the plugin watcher and the web server, so that no request
runs before `Start` has returned. A collection goroutine takes the semaphore of
its connection and then a slot of the global semaphore, reads, publishes to the
bus and never waits for a consumer. A bridge takes events of one group from its
channel and, under the read side of `northCallMu`, offers each to the queues of
the group's applications. The delivery goroutine of each queue calls the
application and retries. Commands come back from the applications through
`executeNorthCommand` and use the same semaphores as collections.

The hard behaviours are listed, each at its line, in `PROJECT.json` under
`hazards`, with the properties that speak of them. Four have none, because the code
does not get them right and no property that holds can say so (section 6); for some
others a note says which part of the hazard the property excuses.

## 2. Modules

| Module | Contents |
|---|---|
| `SouthRuntime` | connections, groups, collections, on-demand callers, lifecycle operations |
| `SouthRuntime_proofs` | its invariants, proved |
| `NorthRuntime` | applications, bridges, registrations, lifecycle operations |
| `NorthRuntime_proofs` | its invariants, proved |
| `NorthDelivery` | the queue in front of one application |
| `Outbox` | what that queue promises: the abstract specification |
| `NorthDelivery_proofs` | its invariants and the refinement of `Outbox`, proved |
| `JetLinksRegistration` | registrations, subscriptions and clients of a JetLinks application |
| `JetLinksRegistration_proofs` | its invariants, proved |
| `NorthCommands` | the intake of commands in the JetLinks and the generic application, their execution, and the cache they share with the collections |
| `NorthCommands_proofs` | its invariants, proved |
| `ExternalPlugin` | one adapter of an external plugin and its processes |
| `ExternalPlugin_proofs` | its invariants, proved |
| `ModbusTcp` | the Modbus driver and client: merging, decoding, writing, keeping in step |
| `ModbusTcp_proofs` | what merging gives, and its invariants, proved |
| `Configuration` | rows, requests of the API, reloads, plugin types, restarts |
| `Configuration_proofs` | its invariants and its action property, proved |
| `MC...`, one for each module that is run | model values and row sets for TLC |

`PROJECT.json` maps every definition that models code to its lines.

The models meet at three interfaces. The collection goroutine that
`SouthRuntime` follows through its semaphores is, for `NorthRuntime`, the
action `Publish`; the application instance that `NorthRuntime` calls and closes is
the queue of `NorthDelivery`, whose `OnMessage` never blocks and whose `Close`
returns (`CloseReturns`), as `NorthRuntime` assumes. The calls of `RegisterGroup`
and `DeregisterGroup` that `NorthRuntime` counts in `regs` are the inputs of
`JetLinksRegistration`: one at a time, a registration repeated under the same
identity without a deregistration in between, as `Reload` does. `NorthCommands`
takes from `SouthRuntime` that one user at a time has the connection (`sem`), and
from the lifecycle that a group is taken down only when its worker has ended;
`ExternalPlugin` takes the same for its users (`turn`), and from `NorthDelivery`
that the queue has ended before the adapter is closed. `Configuration` is the
level above: the operations of `SouthRuntime` and `NorthRuntime` are single steps
there, which `lifecycleMu` justifies, and what is between them are the steps of the
requests, which no lock covers.

### SouthRuntime

A *step* is one critical section, one channel operation or one driver call. The
goroutine that holds `lifecycleMu` has the variables `opKind`, `opPc` and its
locals; there is at most one. Actions follow the code:

| Code | Actions |
|---|---|
| `Start` (234), `initConnections` (323) | `Init`, `BootConn`, `BootConnFails`, `ListGroups`, `StartGroup`, `StartGroupFails` |
| `startConnection` (340) | `Create`, `ConnectOk`, `ConnectFailed`, `Discard`, `Publish` |
| `closeConnection` (399) | `CloseAcquire`, `CloseDone`, `CloseFinished` |
| `ReloadConnection` (708) | `ReloadConnection`, `DisableConnection`, then the above; `ListGroupsFails` |
| `stopConnectionRuntime` (751) | `RemoveConn`, `Drained`, `Forget`; `UnloadConnection` from `ReconcileExtensionTypes` |
| `Reload` (600) | `Reload`, `CancelOld`, `Drained`, `RemoveOld`, `LaunchNew` |
| `Stop` (273) | `Stop`, `Drained`, the closing of all connections |
| `runGroup`, `collectOnce` (962) | `Tick`, `WorkerExit`, `CollectAcquire`, `TakeSlot`, `ReadDone`, `ProbeDone`, and the cancelled cases |
| `ReadTag`, `WriteTag`, invoke, browse | `CallerLookup`, `CallerAcquire`, `CallerTimeout`, `CallDone` |
| handlers saving a row | `EditConn`, `EditGroup` |

A `connectionRuntime` is an identity in `Rts`; a new one is any identity nothing
refers to, so `Rts` bounds runtimes that are alive together and not the number of
reloads. A driver call may leave the link up or down. `pendingConns` and
`pendingGroups` are history: the rows that were edited and not reloaded since.

### NorthRuntime

The same organisation with `opPc` and the locals `opApp`, `opInst`, `opOld`,
`opGroups`, `opRow`, `opInsts`. Rows are inputs: an operation reads *some* row,
so every order of edits is included. `startNorthApp` is `CreateApp`, then `Reject`
or `InstallApp`, `AwaitNorths` and `LockNorths` (the write side of `northCallMu`,
which a `sync.RWMutex` refuses to new readers from the moment it is waited for),
`CloseOld`, `RegisterGroups`; `deleteNorthApp` is `RemoveApp` and the same tail. `Reload` is
`ReloadGroup`, `EndGroup` or `ReplaceGroup`, `LaunchNew`. A bridge is
`BridgeTake`, `BridgeLock`, `BridgeCall` for each instance, `BridgeUnlock`,
`BridgeExit`. `regs[i]` is the set of group and identity pairs instance `i` was
told by `RegisterGroup` and not by `DeregisterGroup`. `Forget` resets what is kept of
a group that is in no map any more, so that states which differ only in what nobody
can reach are one.

### NorthDelivery

One action for each `select` case of `OnMessage` and `run`, each call of the
application, each backoff and the steps of `Close`. `Accept` and `Count` are
separate, as the channel send and the counter are in the code.
`settled` is history: the outcome of every message in the order of outcomes.

### JetLinksRegistration

Line numbers of `northbound/jetlinksmqtt/jetlinks_mqtt_app.go`:

| Code | Actions |
|---|---|
| `NewApp` (84) | `Init` and the first `Accept`, `DialFails` or `Install` |
| `RegisterGroup` (351), `subscribeDevice` (406), `subscribeDeviceWithClient` (413) | `RegisterGroup`, `ReadClient`, `SubscribeBegin`, `SubscribeEnd` |
| `DeregisterGroup` (378), `unsubscribeDevice` (441) | `DeregisterGroup`, `UnsubscribeBegin`, `UnsubscribeEnd` |
| `connectWithTimeout` (489) | `Dial`, `Accept`, `DialFails`, `Install` |
| `onConnect` (531), in a goroutine of each client | `HookSnapshot`, `HookSubscribeBegin`, `HookSubscribeEnd`, `HookReturn` |
| `startReconnectLoop` (132), `reconnectLoop` (166) | `StartLoop`, `LoopTick`, `LoopCancelled`, `LoopLeaves` |
| `authRefreshLoop` (600) | `Dial("refresh", c)`, `RefreshCancelled` |
| the callback of a lost connection (482) | `ConnectionLost`, `OnConnectionLost` |
| `Close` (837) | `Close`, `CloseEnds` |

A lock that is held during a request, `subMu`, is the pair of steps *begin* and
*end* with `SubMuFree` before the first; a lock held for a few assignments is one
step. A client is an identity that may be used again when nothing refers to it.
The broker is `live`, the client that has the session, and `subs`; a new
connection under the same client id ends the old session, as MQTT requires, and
sessions are clean. A request may be refused, or take effect although its caller
timed out.

### NorthCommands

| Code | Actions |
|---|---|
| `onMessage` and `dispatch` of the JetLinks application (`jetlinks_mqtt_app.go:620-723`) | `Arrive`, `Enqueue`, `Take`, `WorkerExits` |
| `onMessageReceived` of the generic application (`mqtt_app.go:267`) | `ArriveSlot`, `Admit` |
| `Close` of both | `Close`, `CloseReturns` |
| `executeNorthCommand` (1105) | `LookUp`, `NextTag`, `Reply` |
| `ReadTag` (1264), `WriteTag` (1308), a function | `Acquire`, `AcquireFails`, `DriverReturns`, `CacheValue` |
| `collectOnce` (987) | `CollectBegins`, `CollectEnds`, `CollectCancelled` |
| `Reload`, `stopConnectionRuntime`, the start of a group | `StopGroup`, `StartGroup` |

The two applications differ in what `commandWG` counts: the workers of the queue,
or the commands that were admitted under `commandMu`; both are in one module since
they share the executor. `view` stands for a consumer that applies every change it
is sent, and `hidden` for the tags an on-demand read has put into the cache since;
both are history. The look-up of a tag by its name is taken to succeed.

### ExternalPlugin

| Code | Actions |
|---|---|
| `startProcess`, `call`, `readLoop`, `finish` (`client.go`) | `Start`, `Call`, `Answer`, `Returns`, `Exit` |
| host calls (`client.go:184`) | `HostCall`, `HostReturns` |
| `Connect`, `ReadTags` and the like, `Disconnect` (`adapter.go`) | `Open`, `Begin`, `RunningClient`, `Request`, `Requested`, `Probed`, `Close`, `Stopped` |
| `newNorthAdapter`, `OnMessage`, `Close` | the same actions with `kind = "north"` |
| the contexts a process is bound to | `ContextEnds`, `Cancel`, and `Exit` of what they leave behind |

`scope[p]` is whose context process `p` is bound to: the adapter's, or that of
the read which started it. A call may end by its timeout at any moment, except
the first call of a process that is not bound to a read (`Untimed`).

### ModbusTcp

Addresses, spans and decoding are operators (`Merge`, `DecodeOne`, `EncodeBytes`);
the driver's operations are `ReadTags`, `ReadSpan`, `WriteTag`, `Disconnect`; the
client is `Send`, `Receive`, `ReceiveShifted`, `TimesOut`; the device answers
(`Answer`), answers wrongly (`AnswersWrong`) and changes its memory
(`DeviceChanges`). A byte names the register, the version of the memory and the
half it comes from, so a value that was cut out at the wrong place, or that
belongs to an earlier request, is a different value. `Reading` is the reference:
what the device holds at the tag's own address. That a frame with another
transaction id leaves its body in the stream (`codec.go:226`) is `shifted`.

### Configuration

| Code | Actions |
|---|---|
| `Create`, `Update`, `Delete` of the four handlers | `Begin`, `Save`, `Apply`, `Undo`, `Reapply`; `ReloadAgain` |
| the transactions of the store | `Inserted`, `Upsert`, `Deleted` |
| `ReloadConnection`, `ReloadNorthApp`, `Reload` | `ReloadSucceeds`, `ReloadFails` |
| the rescan of the plugins and `ReconcileExtensionTypes` (786) | `Scan`, `List`, `ListDone`, `ReconcileStops`, `ReconcileReloads`, `Abandon` |
| a crash and `main` | `Restart` |

`pending` is history: what was written, or whose type has changed, and has not been
applied since. `trouble` records that a reload failed or was overtaken by the
deletion and creation of what it is about. The defaults gorm fills in, a
deletion that cascades, the bindings of the legacy column and a reload that stops half way are modelled by what they do to the rows and the runtime.

## 3. Runs

| Run | Instance | What it shows |
|---|---|---|
| `south_sharing` | 1 connection, 2 groups, 1 caller, 3 runtimes, 1 slot | drivers are used by one goroutine at a time; slots; groups follow a replaced connection; one goroutine per group and generation; `IInv` |
| `south_config` | 2 connections, 1 group that moves, with and without tags, 3 runtimes | whatever is edited and reloaded in whatever order and with whatever failure, what runs is what the store says; nothing is closed before its goroutines have returned |
| `south_live` | 2 groups, 1 slot, fairness | operations return; waiting collections are served |
| `north_delivery` | 3 messages, 2 senders, queue of 2, 2 attempts, fairness | the queue implements `Outbox`; counters; messages settle; `Close` returns |
| `north` | 2 groups, 1 application, 2 instances, 2 identities, fairness | replacement, rejection, removal and stop under running bridges and reloads under other identities; operations return, channels are emptied |
| `jetlinks` | 1 group with its device, 2 clients, requests fail, fairness | in the end the subscription follows the group; a lost connection is made again; `Close` returns and disconnects |
| `jetlinks_shared` | 2 groups with one device, 2 clients | **violation**: the device stays counted when both groups have left (section 6) |
| `commands` | 2 of 3 commands, a queue of one with one worker, one slot, 1 tag, fairness | a closed application drives no device; changes add up to the cache; commands are settled and `Close` returns |
| `plugins` | 3 processes, 2 users, a driver or a north plugin, fairness | one process per adapter, none left over; pending calls are those that wait; everything returns |
| `modbus` | 3 tags, spans of at most 3 registers, 5 addresses, 1 change of the memory, 2 faults, fairness | a good value is the tag's own; merging loses nothing; the client gets in step again |
| `config` | 2 requests, 1 connection, group, tag and application, 1 change of the plugins, 1 crash | what is not pending runs as the rows say; nothing is forgotten unless a reload failed; a rollback restores the row |
| `modbus_write` | 1 register with the order AB, no faults | **violation**: it is written in reverse (section 6) |

Deadlock is checked in the runs of `SouthRuntime`, `NorthRuntime` and `ModbusTcp`. The other
models may end: when all messages were reported and the queue is closed, when the
application or the adapter is closed, when the requests are served.

**Bounds.** Two groups are enough for everything the code does with pairs of
groups: sharing a connection, sharing an application, competing for the last slot;
a third adds no new interaction since no code counts groups. One connection more
than a group uses is what moving needs. Three runtimes allow one installed, one
being closed or still referenced by a late collection, and one being created.
Two instances of an application are the old one and its replacement. That a group
keeps its other applications when one is removed is not in the run, which has one
application; the theorems have any number (`CallsInstalled`, `GroupsKnown`). A channel of one slot is full or
empty, which is all a publisher tells apart; a queue of two also has a message
behind another. Two attempts are one retry. The identities `Rts` and `Insts` are
recycled when nothing refers to them, so runs of reloads are unbounded.
Two clients are the installed one and its replacement; a lost client is out of
use only when its callbacks have run, which makes a third wait and hides no step
of the first two. `jetlinks` has one group and one device: that covers what a device
of its own sees, for which the subscriptions follow the group in the end. Nothing in
`web/handler/group.go` or `store/store.go` keeps two groups from one device, and then
the count is wrong and what follows from it as well: that is `jetlinks_shared`. The
other safety properties of the module are proved for any sharing.
Two commands meet everything there is to meet at a queue of one, a slot or a
connection: one that is in the way and one that waits. Three processes are the
installed one, its replacement and one that is still dying.
Three tags make a span of two and a neighbour that is too far or too long; the
layouts (`MergedLayouts`) put them within and at the limit of a span, across a gap and at the
last address. `Supposed` in `MCModbusTcp` has TLC evaluate the hypotheses of the
theorems on this instance; it was also checked with `IInv` and `CleanInv` as
invariants. Two faults are one that puts the stream out of step and one while it
recovers. In `config` two requests interleave on every pair of rows; it was also run with two
scanners, three plugin changes and one request, and with three requests and no
changes, without an error.
`RtSymmetry` permutes runtimes, which no definition distinguishes; it is used in
safety runs only.

## 4. Fairness

- `SouthRuntime.Fairness`: goroutines are scheduled; driver calls return because
  they carry a deadline or a dial timeout; goroutines blocked on a channel are
  served in the order they arrive, which is strong fairness of each process at the
  semaphore it waits for. Callers are only assumed to finish a call they have
  begun. Operators, devices and timers that may always fire again owe nothing.
- `NorthDelivery.Fairness`: the worker runs and timers fire; a `select` between a
  done context and a message does not choose the message forever (`SF` of `Exit`);
  `Close`, once called, goes on. Nobody has to call it, and no message has to be sent.
- `NorthRuntime.Fairness`: goroutines run, and `northCallMu` is a
  `sync.RWMutex`, where a waiting writer holds back new readers and a waiting
  reader is let in after the writer. The first is in the model (`AwaitNorths`,
  `WriterWaits`), the second is strong fairness of `BridgeLock`; with two groups
  `OperationsReturn` fails without the first, since their bridges can hold the read
  side in turn for ever. Creating, replacing and stopping are never forced.
- `JetLinksRegistration.Fairness`: goroutines run, tickers fire and a `select` does
  not prefer its ticker to a cancelled context for ever; a broker that
  is asked to connect or to subscribe again and again agrees again and again, and
  some client it accepted is still connected when it is installed. Nothing obliges
  a link to live long enough for `onConnect` to finish, so
  `SubscribesEventually` assumes that it does so again and again
  (`HookCompletes`); the refresh of the credentials, half their validity apart, is
  the retry of last resort.

- `NorthCommands.FairSpec`: goroutines run; drivers return within their timeout, and the
  wait for a connection ends with the timeout of the command (1200) or the
  application's context. No command has to come and no group has to be collected.
- `ExternalPlugin.FairSpec`: goroutines run, timeouts expire, a process whose
  context is cancelled is killed (`exec.CommandContext`), and a plugin answers
  the call that has no timeout or dies; the last is an assumption about plugins.
- `ModbusTcp.FairSpec`: a step is always possible and some step is taken again and
  again. `LinkRecovers` needs no more: faults are bounded, and a driver that is
  polled or idle long enough dials again.

## 5. Proofs

Each proof module follows the same argument: an inductive invariant `IInv`,
defined in the component's module as a conjunction of named parts; one lemma for
each part and step (`SouthRuntime_proofs` groups them by action family,
`NorthRuntime_proofs` by conjunct); `Inductive == Spec => []IInv`; and one
short theorem for each property. The only assumptions are the `ASSUME`s of the
modules: identities are different from `None` and from each other, limits are
positive, groups or senders are finite where their number is counted. Where a theorem
needs more than that, what it needs is a named hypothesis in its statement.

- **SouthRuntime.** `ExclusiveDriver` is not inductive: `Connect` on a candidate and
  the `Disconnect` of a rejected one take no semaphore. It follows from `UsersHold`
  (whoever is inside a driver holds that runtime's `ioSem`) and `CandidatePrivate` (no
  map and no goroutine refers to a candidate). `DrainedBeforeClose` needs
  `ClosingUnused` and `OneOwner`: only goroutines the operation waits for refer to
  what it closes. `OneWorkerPerGroup` and `NeverTwoWorkers` rest on `WorkersTracked`.
  `SlotsFairlyShared` is the only part with arithmetic; it counts readers with the
  theorems on finite sets. `RuntimeMatchesStore` speaks of idle moments after `Start`;
  `SInv` is what holds inside the operations. `ConnsMatch`, `GroupsCurrent` and
  `GroupsComplete` say of each row that was not edited since its reload that it runs,
  or which operation is about to start it; `StartLocals`, `ConnLocals` and `RowLocals`
  say that what the operation has read of the rows is still so, unless the row became
  pending meanwhile. A group may outlive the edit of its connection, so
  `GroupsCurrent` alone does not say that what runs is wanted: that needs
  `GroupsUseInstalledConn` from `IInv`.
- **NorthRuntime.** `NorthOpenDuringCall` needs to know why the instances in a
  bridge's list stay open: `NorthsOpen` (what a live bridge refers to is open),
  `OpShape` (while an operation holds `northCallMu` no bridge is inside) and
  `BridgesOwned` (a bridge belongs to a group in the map or one being waited for,
  so Stop closes applications when no bridge is left). `RegistrationsFollow`
  speaks of idle moments only; `RegsAccounted` says what holds inside each
  operation, including a replaced group that was not deregistered because its
  identity did not change, and `LeaversInstalled` that groups which have left the
  map still know whom to deregister from.
- **NorthDelivery.** `Inductive` gives types, the shape of the worker and the sum
  of the counters. `Implements` proves `IsOutbox`: under the mapping
  `waiting <- hand \o queue` every step is a step of `Outbox` or a stutter; a
  retry is a stutter because the message never leaves the front.
- **JetLinksRegistration.** `SubscribedInUse` follows from `HooksInUse`: while a
  hook holds `subMu` for a device, the device is in use or the registrar is about
  to wait for `subMu` to unsubscribe it. `ClosedDisconnects` needs `DialShape`
  (nobody connects once both loops have ended) and `ConnectedKnown` (the connected
  clients are the installed one and the one about to replace it). `KnownCounted` is
  what holds of the reference counts for any sharing of devices: the devices
  `onConnect` goes over are exactly the counted ones, so a new client takes over what
  the count says, right or wrong.
- **NorthCommands.** `ClosedIsQuiet` needs a reason on each path: of a queue,
  `WorkersBound` (never more commands being executed than workers alive, and none
  left when `Close` has returned, so a command still queued finds no worker); of
  the slots, that `Admit` reads `closing` in the step that counts the command, and
  `SlotsApart`. `BusyShrinks` and `BusyGrows` say which steps let a command begin,
  and the theorems on finite sets do the counting. `ChangesComplete` is inductive
  with the types (`AtTag` gives the type of the tag that is cached); it needs `Bad`
  and `None` apart from the values, since a change to either is not sent.
- **ExternalPlugin.** `PendingExact` needs `TargetKnown` (who waits, and for which
  process) and that a new process takes an identity no one holds. `ProcessesOwned`
  needs `OneInside` (one user at a time, so one process is being started) and
  `Bounded`: a process is bound to a read that goes on, or to the adapter until
  its owner cancels it; `StageShape` keeps users of a north plugin out once it is
  closed, while a late read of a driver may still start a process, bound to itself.
- **Configuration.** `FollowsRows` is not inductive, since it says nothing of the
  applications a running group is bound to while one of them is pending. `Follows`
  bounds them: all those of the group's row, and others only as long as these are
  pending. With `RequestsOK` (what a request knows of the row it has read, and which
  requests are rolled back) and `ScansOK` it is preserved by every write of a row,
  every reload and every step of a reconciliation. The attempt to prove it showed a
  case that takes a second group, which the run does not have: a tag that a creation
  has moved to another group since a request has read it is deleted, or rolled back,
  by that request, and its new group is not reloaded. `Save` and `Undo` now count that
  group as pending (`Elsewhere`). `NothingForgotten` needs to know who will apply what
  is pending: `Covered`, a request that reloads it, or a reconciliation that has it on
  its list or will list it; `Untroubled` says so as long as no reload has failed.
  `FailedLeavesRow` rests on `AloneInv`, what a request that no other has overlapped
  finds at each of its steps. The assumptions `FirstTable`, `Apart` and `Disjoint` say
  that the first rows are a table over the ids and that the kinds of ids are
  different.
- **ModbusTcp.** `PlansFit` is about the algorithm alone: whatever the layout and the
  order in which Go ranges over the areas, the spans hold exactly the readable tags,
  each of them whole, and (`RequestsAllowed`) none asks for too much. It goes along
  the loop of `mergeSpans`. The provers cannot instantiate an induction theorem with a
  predicate, so the induction is made by hand: `Least` gives, from the
  well-foundedness of the naturals, the smallest turn of the loop that would break
  what holds after the turn before, and `FoldUnfolds` and `FlattenUnfolds` say what
  one turn of a fold does. `SortByOffset` is stated as the one order that is sorted
  and stable, which is what the insertion sort (`modbus_tcp.go:644`) computes;
  `SortSorts` proves that there is one. `GoodIsRight` then needs to know which frame
  answers the request: `InOrder`, that answers come in the order of the requests, and
  that none is so old that its transaction id is in use again, and `FramesRight`. Its
  hypotheses are `NoBitNumbers`, which is necessary (section 6), and `TidsSuffice`:
  fewer requests than there are transaction ids are sent on a connection between two
  uses that succeed. An operation sends at most `N` requests (`PlansFit`), and
  `Expired` bounds the operations that fit into the idle time, after which `checkIdle`
  dials again. The code has 65536 ids and an idle time of 60 seconds by default, so
  that a group of 100 spans would have to be read 656 times in a minute without one
  success; an idle time of 0, which turns `checkIdle` off, is outside the theorem.
  `CleanReadsAreGood` also supposes `RequestsAllowed` (in the code spans of at most
  120 registers, tags of at most 100, where the protocol allows 125 registers and 2000
  bits), `InDevice`, that the tags lie within the device, and `NotData`, that `Bad`
  and `None` are not sequences of bytes. `CleanInv` says that in a clean read the
  stream holds the one answer and nothing else, and that every tag that can be decoded
  is good, being read or still to be read.

Only model-checked: liveness (`OperationsReturn`, `CollectionsServed`,
`EventsServed`, `EveryMessageSettles`, `CloseReturns` of both modules,
`SubscribesEventually`, `UnsubscribesEventually`, `Reconnects`, `CommandsSettle`,
`PluginsSettle`, `LinkRecovers`), which the provers do not reach. Every invariant
and every property of single steps that a passing run checks has a theorem.

## 6. Findings

Two disagreements have runs of their own:

- `WrittenReadsBack` (`modbus_write`). `EncodeBytes` puts a big-endian number through the
  *reverse* of the configured byte order (`codec.go:486`, `513`, `540`), so that the
  documented order AB, "high byte first" (`docs/modbus-config.md:40`), is read
  as documented and written in reverse. So it is with the orders of four and eight bytes.
- `UsersCounted` (`jetlinks_shared`). `docs/jetlinks-integration.md:189` promises that a
  device is unsubscribed when the *last* group that refers to it stops, by a reference
  count. `RegisterGroup` tells a repeated registration from a new one by the group that
  registered last for the device (`jetlinks_mqtt_app.go:358`). In the run two groups
  register, the first is reloaded and counted again, both leave, and the count stays at
  one: the device remains subscribed. The count also drifts the other way: the group
  that registered last stops and starts again, its registration is taken for a repeated
  one, and the end of the other group unsubscribes a device that is in use.

The others came up while the models were written; each is a property that holds
of no run, with what refutes it:

- *A runtime that was replaced stays disconnected*, `closed[rt] => ~up[rt]` in
  `SouthRuntime` (`docs/operations-center-design.md:481`). `collectOnce` copies the connection before
  it waits for the semaphore. If the connection is replaced in between, the
  goroutine gets the semaphore of the *old* runtime after `closeConnection` has
  released it and reads through a driver that was disconnected. The drivers dial
  when they have no client (`driver/modbus/modbus_tcp.go:286`), so the old
  instance opens a link of its own that nothing closes.
- *A running group with an instance has a bridge*, `norths[g] # {} => g \in subscribed` in
  `NorthRuntime` (`core/types.go:181`). A group that starts while its
  application is disabled or failed to start gets no bridge (914). When the
  application is started, `startNorthApp` gives the group the instance (472-477)
  and registers it, but no bridge is made, so values are collected and never
  forwarded until the group itself is reloaded.
- *OnConnect subscribes for everybody* (comment at `jetlinks_mqtt_app.go:425`). A registration that finds no
  connected client leaves the device to `onConnect`. But
  `onConnect` may have copied the groups before the registration, while the new
  client is installed only after it: the device is subscribed by the next client.
- *What a collection compares with is what a collection reported* (comment at 1069).
  An on-demand read puts its value into the same cache (1300), so the
  next collection finds it unchanged and a consumer of changes keeps the old one. These
  are the tags in `hidden`, which `ChangesComplete` excepts.
- Configuration. A failed reconciliation is not tried again (`manager.go:104`), and
  one that works on an old list stops what has changed its type since (803). A
  connection that is deleted and created again before its deletion is applied
  leaves the old groups running. The rollback of an update writes over what
  another request saved meanwhile (`connection.go:165`), and of a creation with the id of another
  tag deletes that tag (`tag.go:73`). Bindings of the legacy column come back at every start
  (`store.go:115`). These are the cases `pending`, `trouble`, `alone` and the exception
  of `FailedLeavesRow` stand for.
- Modbus. A coil tag with a bit number other than 0 reads its neighbour or the
  padding as a good value (`modbus_tcp.go:370`); one absent register spoils the span it
  was merged into; a wrong transaction id leaves the client out of step until the
  idle time is over, and for ever if it is 0 (`codec.go:226`); all tags of a group are
  read from the unit of the first (`modbus_tcp.go:273`).
- External plugins. A process started by a read dies with the timeout of that read
  (`adapter.go:146`); the first call of a north plugin has no timeout, and a write to
  a plugin that does not read has none in any call (`client.go:120`).

## 7. Plan

1. Proofs: the safety half of the liveness that is only model-checked, that is, that
   whoever holds what an operation waits for (`ioSem`, `collectSem`, `northCallMu`, `subMu`)
   can take a step and waits for nothing itself.
2. The refinement of `Configuration`'s single-step reloads by `SouthRuntime` and
   `NorthRuntime`.
3. The link of the generic MQTT application as a second instance of the connect and
   reconnect part of `JetLinksRegistration`; sessions that survive (`cleanSession = false`).
4. Topic patterns of the event bus, when something subscribes with them.

## 8. Not modelled

The protocol libraries below the drivers and the applications (sockets, MQTT,
OPC UA) appear as nondeterministic outcomes. MQTT sessions that survive a
disconnection (`cleanSession = false`) are left out, as is the announcement of
devices as online, which no other state depends on. Payloads, tags and JSON are opaque.
The OPC UA driver is a mutex around a library that keeps the link and the
subscriptions; to the runtime it is the external driver of `SouthRuntime`.
In `ModbusTcp` the interpretation of ordered bytes as numbers, the scaling of
decimals and several units in one group are left out; in `Configuration` invalid
manifests, the older data migration and users, and the tags that gorm saves with
a group when a request body has some; a request is read and checked in one step, and
a reload of a connection that fails at one of its groups is one that has started none.
Routing, authentication, configuration parsing, logging, the web console and the
packaging scripts have no concurrent state of their own.
