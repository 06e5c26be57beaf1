------------------------ MODULE JetLinksRegistration ------------------------
(***************************************************************************)
(* One instance of the JetLinks MQTT application                           *)
(* (northbound/jetlinksmqtt/jetlinks_mqtt_app.go): which devices it counts *)
(* as in use, for which of them the broker has its subscriptions, and the  *)
(* clients it connects one after the other, by the reconnect loop and by   *)
(* the refresh of the credentials.                                         *)
(*                                                                         *)
(* RegisterGroup, DeregisterGroup and Close are called by the lifecycle    *)
(* operations of the Runner, one at a time: the registrar.  Each client    *)
(* that is accepted runs onConnect in a goroutine of its own.  The three   *)
(* topics of a device are one subscription here, which the broker has when *)
(* it has them all.  Sessions are clean (the default): the broker forgets  *)
(* them with the connection.                                               *)
(***************************************************************************)
EXTENDS Naturals

CONSTANTS
    Groups, Devices,
    Identity,   \* the pairs <<g, d>> such that g may report for d
    Clients,    \* identities of MQTT clients (bound on those alive at once)
    OpsFail,    \* whether a request to the broker may fail
    None

ASSUME Pairs == Identity \subseteq Groups \X Devices
ASSUME Switch == OpsFail \in BOOLEAN
ASSUME NoneApart == None \notin Groups \cup Devices \cup Clients

VARIABLES
    members,    \* the Runner: the device each group is registered for
    groups,     \* a.groups
    deviceSubs, \* a.deviceSubs
    client,     \* a.client
    regPc, regDev, regClient,  \* the registrar and its locals
    connected,  \* the clients whose IsConnected() is true
    lost,       \* the clients with an OnConnectionLost still to run
    live,       \* the broker: the client that has the session
    subs,       \* the broker: the devices this session subscribes to
    hook, hookTodo, hookDev,   \* onConnect of each client and its locals
    dialer, dialPc, dialClient, \* connectWithTimeout: who, where, which
    loop,       \* the reconnect loop: a.reconnecting is loop # "none"
    refreshing, \* authRefreshLoop runs
    stage       \* NewApp, the time between, Close

book      == <<members, groups, deviceSubs>>
registrar == <<regPc, regDev, regClient>>
net       == <<connected, lost, live, subs>>
hooks     == <<hook, hookTodo, hookDev>>
dial      == <<dialer, dialPc, dialClient>>
loops     == <<loop, refreshing, stage>>
vars      == <<book, client, registrar, net, hooks, dial, loops>>

(* Mutant: Close does not cancel the context.                              *)
NeverCancelled == FALSE

Cancelled == stage \in {"closing", "closed"}

(* Mutant: the side effects are not serialised.                            *)
SubMuIgnored == TRUE

SubMuFree ==
    /\ regPc \notin {"subscribing", "unsubscribing"}
    /\ \A c \in Clients : hook[c] # "subscribing"

(* A request to the broker takes effect only on the client that has the    *)
(* session; it may be refused, or time out with or without effect.         *)
Outcomes(effect, c) ==
    IF c # live THEN {subs}
    ELSE IF OpsFail THEN {subs, effect} ELSE {effect}

(* The session of client c ends with it.                                   *)
EndSession(c) ==
    /\ live' = IF live = c THEN None ELSE live
    /\ subs' = IF live = c THEN {} ELSE subs

-----------------------------------------------------------------------------
(* The registrar.                                                          *)

RegReturn == regPc' = "idle" /\ regDev' = None /\ regClient' = None

(* A group is registered when it starts, and again when it is started anew *)
(* under the same identity (Reload in runner.go deregisters only others).  *)
(* The device remembers its last group, and only that one is recognised.   *)
RegisterGroup(g, d) ==
    /\ regPc = "idle" /\ stage = "open"
    /\ members[g] \in {None, d}
    /\ members' = [members EXCEPT ![g] = d]
    /\ groups' = [groups EXCEPT ![d] = g]
    /\ IF groups[d] = g
       THEN UNCHANGED <<deviceSubs, registrar>>
       ELSE /\ deviceSubs' = [deviceSubs EXCEPT ![d] = @ + 1]
            /\ IF deviceSubs[d] = 0
               THEN regPc' = "read" /\ regDev' = d /\ UNCHANGED regClient
               ELSE UNCHANGED registrar
    /\ UNCHANGED <<client, net, hooks, dial, loops>>

(* subscribeDevice reads the client before it waits for subMu.             *)
ReadClient ==
    /\ regPc = "read"
    /\ regClient' = client
    /\ regPc' = "subscribe"
    /\ UNCHANGED <<book, client, regDev, net, hooks, dial, loops>>

(* subscribeDeviceWithClient, up to the request.                           *)
SubscribeBegin ==
    /\ regPc = "subscribe"
    /\ SubMuFree
    /\ IF deviceSubs[regDev] > 0 /\ regClient \in connected
       THEN regPc' = "subscribing" /\ UNCHANGED <<regDev, regClient>>
       ELSE RegReturn
    /\ UNCHANGED <<book, client, net, hooks, dial, loops>>

SubscribeEnd ==
    /\ regPc = "subscribing"
    /\ subs' \in Outcomes(subs \cup {regDev}, regClient)
    /\ RegReturn
    /\ UNCHANGED <<book, client, connected, lost, live, hooks, dial, loops>>

(* Mutant: the reference is not given back.                                *)
DeregisterUncounted(g) ==
    /\ regPc = "idle" /\ stage = "open"
    /\ members[g] # None
    /\ members' = [members EXCEPT ![g] = None]
    /\ UNCHANGED <<groups, deviceSubs, registrar, client, net, hooks, dial,
                   loops>>

(* Mutant: the last reference leaves the device among the groups.          *)
DeregisterKeepsGroup(g) ==
    LET d == members[g] IN
    /\ regPc = "idle" /\ stage = "open"
    /\ d # None
    /\ deviceSubs[d] = 1
    /\ members' = [members EXCEPT ![g] = None]
    /\ deviceSubs' = [deviceSubs EXCEPT ![d] = 0]
    /\ regPc' = "unsubscribe"
    /\ regDev' = d
    /\ UNCHANGED <<groups, regClient, client, net, hooks, dial, loops>>

DeregisterGroup(g) ==
    LET d == members[g] IN
    /\ regPc = "idle" /\ stage = "open"
    /\ d # None
    /\ members' = [members EXCEPT ![g] = None]
    /\ IF deviceSubs[d] = 0
       THEN UNCHANGED <<groups, deviceSubs, registrar>>
       ELSE /\ deviceSubs' = [deviceSubs EXCEPT ![d] = @ - 1]
            /\ IF deviceSubs[d] = 1
               THEN /\ groups' = [groups EXCEPT ![d] = None]
                    /\ regPc' = "unsubscribe"
                    /\ regDev' = d
                    /\ UNCHANGED regClient
               ELSE UNCHANGED <<groups, registrar>>
    /\ UNCHANGED <<client, net, hooks, dial, loops>>

(* unsubscribeDevice reads the client when it has subMu.                   *)
UnsubscribeBegin ==
    /\ regPc = "unsubscribe"
    /\ SubMuFree
    /\ IF deviceSubs[regDev] = 0 /\ client \in connected
       THEN /\ regPc' = "unsubscribing"
            /\ regClient' = client
            /\ UNCHANGED regDev
       ELSE RegReturn
    /\ UNCHANGED <<book, client, net, hooks, dial, loops>>

UnsubscribeEnd ==
    /\ regPc = "unsubscribing"
    /\ subs' \in Outcomes(subs \ {regDev}, regClient)
    /\ RegReturn
    /\ UNCHANGED <<book, client, connected, lost, live, hooks, dial, loops>>

-----------------------------------------------------------------------------
(* onConnect of client c.                                                  *)

(* Mutant: the hook leaves the subscriptions to RegisterGroup.             *)
HookSnapshotNothing(c) ==
    /\ hook[c] = "start"
    /\ hook' = [hook EXCEPT ![c] = "each"]
    /\ UNCHANGED <<book, client, registrar, net, hookTodo, hookDev, dial,
                   loops>>

(* It copies the registered groups under a.mu,                             *)
HookSnapshot(c) ==
    /\ hook[c] = "start"
    /\ hook' = [hook EXCEPT ![c] = "each"]
    /\ hookTodo' = [hookTodo EXCEPT ![c] = {d \in Devices : groups[d] # None}]
    /\ UNCHANGED <<book, client, registrar, net, hookDev, dial, loops>>

(* and subscribes for each that is still in use.                           *)
HookSubscribeBegin(c, d) ==
    /\ hook[c] = "each"
    /\ d \in hookTodo[c]
    /\ SubMuFree
    /\ hookTodo' = [hookTodo EXCEPT ![c] = @ \ {d}]
    /\ IF deviceSubs[d] > 0 /\ c \in connected
       THEN /\ hook' = [hook EXCEPT ![c] = "subscribing"]
            /\ hookDev' = [hookDev EXCEPT ![c] = d]
       ELSE UNCHANGED <<hook, hookDev>>
    /\ UNCHANGED <<book, client, registrar, net, dial, loops>>

HookSubscribeEnd(c) ==
    /\ hook[c] = "subscribing"
    /\ subs' \in Outcomes(subs \cup {hookDev[c]}, c)
    /\ hook' = [hook EXCEPT ![c] = "each"]
    /\ hookDev' = [hookDev EXCEPT ![c] = None]
    /\ UNCHANGED <<book, client, registrar, connected, lost, live, hookTodo,
                   dial, loops>>

(* It announces the devices, which changes nothing here, and returns.      *)
HookReturn(c) ==
    /\ hook[c] = "each"
    /\ hookTodo[c] = {}
    /\ hook' = [hook EXCEPT ![c] = "none"]
    /\ UNCHANGED <<book, client, registrar, net, hookTodo, hookDev, dial,
                   loops>>

-----------------------------------------------------------------------------
(* connectWithTimeout, under connectMu.                                    *)

(* startReconnectLoop.                                                     *)
StartLoop == loop' = IF ~Cancelled /\ loop = "none" THEN "run" ELSE loop

(* Nothing refers to c.                                                    *)
Unused(c) ==
    /\ c \notin connected \cup lost \cup {client, dialClient, regClient, live}
    /\ hook[c] = "none"

Dial(who, c) ==
    /\ dialer = "none"
    /\ \/ who = "loop" /\ loop = "due"
       \/ who = "refresh" /\ refreshing
    /\ Unused(c)
    /\ dialer' = who
    /\ dialPc' = "dialing"
    /\ dialClient' = c
    /\ UNCHANGED <<book, client, registrar, net, hooks, loops>>

(* The broker accepts: it ends the session of the client with the same id, *)
(* and onConnect starts before Connect's token is done.                    *)
Accept ==
    /\ dialPc = "dialing"
    /\ live' = dialClient
    /\ subs' = {}
    /\ connected' = connected \cup {dialClient}
    /\ hook' = [hook EXCEPT ![dialClient] = "start"]
    /\ dialPc' = "install"
    /\ UNCHANGED <<book, client, registrar, lost, hookTodo, hookDev, dialer,
                   dialClient, loops>>

DialReturn == dialer' = "none" /\ dialPc' = "idle" /\ dialClient' = None

(* NewApp returns when its one attempt has.                                *)
Booted ==
    /\ stage' = IF dialer = "boot" THEN "open" ELSE stage
    /\ refreshing' = (dialer = "boot" \/ refreshing)

(* Mutant: connectMu is kept on this return.                               *)
DialFailsLocked ==
    /\ dialPc = "dialing"
    /\ dialPc' = "idle"
    /\ dialClient' = None
    /\ IF dialer = "loop" THEN loop' = "run" ELSE StartLoop
    /\ Booted
    /\ UNCHANGED <<book, client, registrar, net, hooks, dialer>>

(* Refused, or timed out, which may race the broker's answer; the client   *)
(* is disconnected in any case.                                            *)
DialFails ==
    /\ dialPc # "idle"
    /\ connected' = connected \ {dialClient}
    /\ EndSession(dialClient)
    /\ DialReturn
    /\ IF dialer = "loop" THEN loop' = "run" ELSE StartLoop
    /\ Booted
    /\ UNCHANGED <<book, client, registrar, lost, hooks>>

(* The client replaces the old one, which is disconnected.                 *)
Install ==
    /\ dialPc = "install"
    /\ client' = dialClient
    /\ connected' = connected \ {client}
    /\ DialReturn
    /\ loop' = IF dialer = "loop" THEN "leaving" ELSE loop
    /\ Booted
    /\ UNCHANGED <<book, registrar, lost, live, subs, hooks>>

-----------------------------------------------------------------------------
(* The loops.                                                              *)

LoopTick ==
    /\ loop = "run"
    /\ loop' = IF client \in connected THEN "leaving" ELSE "due"
    /\ UNCHANGED <<book, client, registrar, net, hooks, dial, refreshing, stage>>

LoopCancelled ==
    /\ loop = "run"
    /\ Cancelled
    /\ loop' = "leaving"
    /\ UNCHANGED <<book, client, registrar, net, hooks, dial, refreshing, stage>>

(* The deferred reset of a.reconnecting comes after the decision to leave. *)
LoopLeaves ==
    /\ loop = "leaving"
    /\ loop' = "none"
    /\ UNCHANGED <<book, client, registrar, net, hooks, dial, refreshing, stage>>

RefreshCancelled ==
    /\ refreshing
    /\ Cancelled
    /\ dialer # "refresh"
    /\ refreshing' = FALSE
    /\ UNCHANGED <<book, client, registrar, net, hooks, dial, loop, stage>>

(* The link of a client breaks, or the broker has given its id to another. *)
ConnectionLost(c) ==
    /\ c \in connected
    /\ connected' = connected \ {c}
    /\ lost' = lost \cup {c}
    /\ EndSession(c)
    /\ UNCHANGED <<book, client, registrar, hooks, dial, loops>>

OnConnectionLost(c) ==
    /\ c \in lost
    /\ lost' = lost \ {c}
    /\ StartLoop
    /\ UNCHANGED <<book, client, registrar, connected, live, subs, hooks, dial,
                   refreshing, stage>>

-----------------------------------------------------------------------------
(* Close.                                                                  *)

Close ==
    /\ regPc = "idle" /\ stage = "open"
    /\ stage' = "closing"
    /\ UNCHANGED <<book, client, registrar, net, hooks, dial, loop, refreshing>>

(* Mutant: the client is closed before the loops have ended.               *)
CloseEndsAtOnce ==
    /\ stage = "closing"
    /\ stage' = "closed"
    /\ client' = None
    /\ connected' = connected \ {client}
    /\ EndSession(client)
    /\ UNCHANGED <<book, registrar, lost, hooks, dial, loop, refreshing>>

CloseEnds ==
    /\ stage = "closing"
    /\ loop = "none" /\ ~refreshing
    /\ stage' = "closed"
    /\ client' = None
    /\ connected' = connected \ {client}
    /\ EndSession(client)
    /\ UNCHANGED <<book, registrar, lost, hooks, dial, loop, refreshing>>

-----------------------------------------------------------------------------
Init ==
    /\ members = [g \in Groups |-> None]
    /\ groups = [d \in Devices |-> None]
    /\ deviceSubs = [d \in Devices |-> 0]
    /\ client = None
    /\ regPc = "idle" /\ regDev = None /\ regClient = None
    /\ connected = {} /\ lost = {}
    /\ live = None /\ subs = {}
    /\ hook = [c \in Clients |-> "none"]
    /\ hookTodo = [c \in Clients |-> {}]
    /\ hookDev = [c \in Clients |-> None]
    /\ dialer = "boot" /\ dialPc = "dialing" /\ dialClient \in Clients
    /\ loop = "none" /\ refreshing = FALSE
    /\ stage = "boot"

Registration ==
    \/ ReadClient
    \/ SubscribeBegin \/ SubscribeEnd
    \/ UnsubscribeBegin \/ UnsubscribeEnd

Hook(c) ==
    \/ HookSnapshot(c) \/ HookReturn(c) \/ HookSubscribeEnd(c)
    \/ \E d \in Devices : HookSubscribeBegin(c, d)

Next ==
    \/ \E p \in Identity : RegisterGroup(p[1], p[2])
    \/ \E g \in Groups : DeregisterGroup(g)
    \/ Registration
    \/ \E c \in Clients : \/ Hook(c)
                          \/ Dial("loop", c) \/ Dial("refresh", c)
                          \/ ConnectionLost(c) \/ OnConnectionLost(c)
    \/ Accept \/ DialFails \/ Install
    \/ LoopTick \/ LoopCancelled \/ LoopLeaves \/ RefreshCancelled
    \/ Close \/ CloseEnds

Spec == Init /\ [][Next]_vars

(* Goroutines are scheduled, tickers fire and requests end.  The broker    *)
(* accepts a client and a subscription again and again, if asked again and *)
(* again, and some client it has accepted lives to be installed.           *)
HookSubscribes(d) ==
    \E c \in Clients : HookSubscribeEnd(c) /\ hookDev[c] = d /\ d \in subs'
Fairness ==
    /\ WF_vars(Registration)
    /\ \A c \in Clients : WF_vars(Hook(c)) /\ WF_vars(OnConnectionLost(c))
    /\ \A d \in Devices : SF_vars(HookSubscribes(d))
    /\ WF_vars(DialFails \/ Install) /\ SF_vars(Accept)
    /\ SF_vars(Install /\ dialClient \in connected)
    /\ SF_vars(\E c \in Clients : Dial("refresh", c))
    /\ WF_vars(\E c \in Clients : Dial("loop", c))
    /\ SF_vars(LoopCancelled \/ RefreshCancelled)
    /\ WF_vars(LoopLeaves \/ CloseEnds)

FairSpec == Spec /\ Fairness

-----------------------------------------------------------------------------
(* Properties.                                                             *)

(* Every variable has its type.                                            *)
TypeOK ==
    /\ members \in [Groups -> Devices \cup {None}]
    /\ groups \in [Devices -> Groups \cup {None}]
    /\ deviceSubs \in [Devices -> Nat]
    /\ client \in Clients \cup {None}
    /\ regPc \in {"idle", "read", "subscribe", "subscribing", "unsubscribe",
                  "unsubscribing"}
    /\ regDev \in Devices \cup {None}
    /\ regClient \in Clients \cup {None}
    /\ connected \subseteq Clients /\ lost \subseteq Clients
    /\ live \in Clients \cup {None}
    /\ subs \subseteq Devices
    /\ hook \in [Clients -> {"none", "start", "each", "subscribing"}]
    /\ hookTodo \in [Clients -> SUBSET Devices]
    /\ hookDev \in [Clients -> Devices \cup {None}]
    /\ dialer \in {"none", "boot", "loop", "refresh"}
    /\ dialPc \in {"idle", "dialing", "install"}
    /\ dialClient \in Clients \cup {None}
    /\ loop \in {"none", "run", "due", "leaving"}
    /\ refreshing \in BOOLEAN
    /\ stage \in {"boot", "open", "closing", "closed"}

Registered(d) == \E g \in Groups : members[g] = d

(* A device is counted as in use exactly while a group uses it: its last   *)
(* group unsubscribes and no other does (docs/jetlinks-integration.md:189, *)
(* docs/operations-center-design.md:388).  Groups that share a device      *)
(* break it: only the last to register is recognised when it registers     *)
(* again (:358), so the count drifts from the groups in both directions.   *)
UsersCounted ==
    \A d \in Devices : Registered(d) <=> deviceSubs[d] > 0

(* A subscription takes effect for a device that is in use, or one whose   *)
(* unsubscription is already waiting for subMu: a hook with an old copy of *)
(* the groups never has the last word (comment at :320).                   *)
SubscribedInUse ==
    [][\A d \in subs' \ subs :
          deviceSubs[d] > 0 \/ (regPc = "unsubscribe" /\ regDev = d)]_vars

(* Once Close has returned no client of the instance is connected, however *)
(* many were being replaced when it was called.                            *)
ClosedDisconnects == stage = "closed" => connected = {}

(* onConnect returns and its client still has the session.                 *)
HookCompletes == \E c \in Clients : HookReturn(c) /\ c = live

(* A device with a group of its own that is registered is subscribed in    *)
(* the end, if only the link survives onConnect again and again: what a    *)
(* failed request, a lost link or a registration during a connect left out *)
(* is made good by a later client.                                         *)
SubscribesEventually ==
    []<><<HookCompletes>>_vars => \A d \in Devices : Registered(d) /\ stage = "open"
                         ~> d \in subs \/ ~Registered(d) \/ stage # "open"

(* And a device whose group has left it stays unsubscribed in the end,     *)
(* also when its unsubscription failed or was left to a broken link, and   *)
(* whatever the hooks of later clients copied.                             *)
UnsubscribesEventually ==
    \A d \in Devices : <>[]~Registered(d) => <>[](d \notin subs)

(* Close returns, however many connects are under way or due: what its     *)
(* waiting for lifecycleWG needs, and deleteNorthApp with it.              *)
CloseReturns == stage = "closing" ~> stage = "closed"

(* A lost connection is made again, also when the loss was reported while  *)
(* the last reconnect loop was about to end and so started no new one.     *)
Reconnects == stage = "open" /\ client \notin connected
                ~> client \in connected \/ stage # "open"

-----------------------------------------------------------------------------
(* The inductive invariant (JetLinksRegistration_proofs).                  *)

(* What the registrar subscribes for is in use.                            *)
RegistrarInUse ==
    /\ regPc # "idle" => regDev \in Devices
    /\ regPc \in {"read", "subscribe", "subscribing"} => deviceSubs[regDev] > 0

(* What a hook is asking for is in use, or its unsubscription waits.       *)
HooksInUse ==
    \A c \in Clients : hook[c] = "subscribing" =>
        /\ hookDev[c] \in Devices
        /\ \/ deviceSubs[hookDev[c]] > 0
           \/ regPc = "unsubscribe" /\ regDev = hookDev[c]

(* Who may be connecting, and that nobody is once Close has returned.      *)
DialShape ==
    /\ dialer = "none" <=> dialPc = "idle"
    /\ dialPc # "idle" => dialClient \in Clients
    /\ dialer = "boot" <=> stage = "boot"
    /\ dialer = "loop" => loop = "due"
    /\ dialer = "refresh" => refreshing
    /\ stage = "closed" => loop = "none" /\ ~refreshing /\ client = None

(* The clients that are connected are the installed one and the one about  *)
(* to replace it.                                                          *)
ConnectedKnown ==
    connected \subseteq {client} \cup (IF dialPc = "install" THEN {dialClient}
                                      ELSE {})

(* The devices onConnect goes over are the ones that are counted, however  *)
(* the count compares with the groups.                                     *)
KnownCounted == \A d \in Devices : groups[d] # None <=> deviceSubs[d] > 0

IInv ==
    /\ TypeOK
    /\ KnownCounted
    /\ RegistrarInUse
    /\ HooksInUse
    /\ DialShape
    /\ ConnectedKnown
=============================================================================
