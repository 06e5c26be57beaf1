-------------------- MODULE JetLinksRegistration_proofs ---------------------
(***************************************************************************)
(* Proofs about the JetLinks application, for any groups, devices, sharing *)
(* of devices and number of clients: its inductive invariant, that Close   *)
(* leaves no client connected, and that no subscription is made behind the *)
(* back of a deregistration.                                               *)
(***************************************************************************)
EXTENDS JetLinksRegistration, TLAPS

USE DEF book, registrar, net, hooks, dial, loops

-----------------------------------------------------------------------------
LEMMA InitIInv == Init => IInv
<1> SUFFICES ASSUME Init PROVE IInv
  OBVIOUS
<1>1. TypeOK
  BY DEF Init, TypeOK
<1>2. RegistrarInUse /\ DialShape /\ ConnectedKnown
  BY DEF Init, RegistrarInUse, DialShape, ConnectedKnown
<1>3. HooksInUse /\ KnownCounted
  BY DEF Init, HooksInUse, KnownCounted
<1>4. QED
  BY <1>1, <1>2, <1>3 DEF IInv

(* The requests of the registrar and of the hooks.                         *)
Requests ==
    \/ Registration
    \/ \E c \in Clients : Hook(c)

(* The clients come and go.                                                *)
Connections ==
    \/ \E c \in Clients : \/ Dial("loop", c) \/ Dial("refresh", c)
                          \/ ConnectionLost(c) \/ OnConnectionLost(c)
    \/ Accept \/ DialFails \/ Install
    \/ LoopTick \/ LoopCancelled \/ LoopLeaves \/ RefreshCancelled
    \/ Close \/ CloseEnds

LEMMA Steps ==
    [Next]_vars =>
        \/ \E p \in Identity : RegisterGroup(p[1], p[2])
        \/ \E g \in Groups : DeregisterGroup(g)
        \/ Requests
        \/ Connections
        \/ UNCHANGED vars
BY DEF Next, Requests, Connections

LEMMA TypeStep == IInv /\ [Next]_vars => TypeOK'
<1> SUFFICES ASSUME IInv, [Next]_vars PROVE TypeOK'
  OBVIOUS
<1> USE NoneApart DEF IInv, TypeOK, RegReturn
<1>1. ASSUME NEW p \in Identity, RegisterGroup(p[1], p[2]) PROVE TypeOK'
  <2>1. p[1] \in Groups /\ p[2] \in Devices
    BY Pairs
  <2>2. QED
    BY <1>1, <2>1 DEF RegisterGroup
<1>2. ASSUME NEW g \in Groups, DeregisterGroup(g) PROVE TypeOK'
  BY <1>2 DEF DeregisterGroup
<1>3. CASE Requests
  <2>1. CASE Registration
    BY <2>1 DEF Registration, ReadClient, SubscribeBegin, SubscribeEnd,
       UnsubscribeBegin, UnsubscribeEnd, Outcomes, RegistrarInUse
  <2>2. ASSUME NEW c \in Clients, Hook(c) PROVE TypeOK'
    BY <2>2 DEF Hook, HookSnapshot, HookReturn, HookSubscribeEnd,
       HookSubscribeBegin, Outcomes, HooksInUse
  <2>3. QED
    BY <1>3, <2>1, <2>2 DEF Requests
<1>4. CASE Connections
  <2>1. ASSUME NEW c \in Clients,
               \/ Dial("loop", c) \/ Dial("refresh", c)
               \/ ConnectionLost(c) \/ OnConnectionLost(c)
        PROVE  TypeOK'
    BY <2>1 DEF Dial, ConnectionLost, EndSession, OnConnectionLost, StartLoop
  <2>2. CASE Accept
    BY <2>2 DEF Accept, DialShape
  <2>3. CASE DialFails
    BY <2>3 DEF DialFails, DialReturn, Booted, StartLoop, EndSession
  <2>4. CASE Install
    BY <2>4 DEF Install, DialReturn, Booted, DialShape
  <2>5. CASE LoopTick \/ LoopCancelled \/ LoopLeaves
    BY <2>5 DEF LoopTick, LoopCancelled, LoopLeaves
  <2>6. CASE RefreshCancelled
    <3>1. refreshing' \in BOOLEAN
      BY <2>6 DEF RefreshCancelled
    <3>2. UNCHANGED <<book, client, registrar, net, hooks, dial, loop, stage>>
      BY <2>6 DEF RefreshCancelled
    <3>3. QED
      BY <3>1, <3>2
  <2>7. CASE Close
    BY <2>7 DEF Close
  <2>8. CASE CloseEnds
    BY <2>8 DEF CloseEnds, EndSession
  <2>9. QED
    BY <1>4, <2>1, <2>2, <2>3, <2>4, <2>5, <2>6, <2>7, <2>8 DEF Connections
<1>5. CASE UNCHANGED vars
  BY <1>5 DEF vars
<1>6. QED
  BY <1>1, <1>2, <1>3, <1>4, <1>5, Steps

(* The last reference takes the device out of the groups, and no other     *)
(* does.                                                                   *)
LEMMA KnownStep == IInv /\ [Next]_vars => KnownCounted'
<1> SUFFICES ASSUME IInv, [Next]_vars PROVE KnownCounted'
  OBVIOUS
<1> USE NoneApart DEF IInv, TypeOK, KnownCounted
<1>1. ASSUME NEW p \in Identity, RegisterGroup(p[1], p[2])
      PROVE  KnownCounted'
  <2>1. p[1] \in Groups /\ p[2] \in Devices
    BY Pairs
  <2>2. QED
    BY <1>1, <2>1 DEF RegisterGroup
<1>2. ASSUME NEW g \in Groups, DeregisterGroup(g) PROVE KnownCounted'
  BY <1>2 DEF DeregisterGroup
<1>3. CASE Requests
  BY <1>3 DEF Requests, Registration, ReadClient, SubscribeBegin, SubscribeEnd,
     UnsubscribeBegin, UnsubscribeEnd, Hook, HookSnapshot, HookReturn,
     HookSubscribeEnd, HookSubscribeBegin
<1>4. CASE Connections
  BY <1>4 DEF Connections, Dial, ConnectionLost, OnConnectionLost, Accept,
     DialFails, Install, LoopTick, LoopCancelled, LoopLeaves,
     RefreshCancelled, Close, CloseEnds
<1>5. CASE UNCHANGED vars
  BY <1>5 DEF vars
<1>6. QED
  BY <1>1, <1>2, <1>3, <1>4, <1>5, Steps

(* Only the registrar changes the counts, and never under its own request. *)
LEMMA RegistrarStep == IInv /\ [Next]_vars => RegistrarInUse'
<1> SUFFICES ASSUME IInv, [Next]_vars PROVE RegistrarInUse'
  OBVIOUS
<1> USE NoneApart DEF IInv, TypeOK, RegistrarInUse, RegReturn
<1>1. ASSUME NEW p \in Identity, RegisterGroup(p[1], p[2])
      PROVE  RegistrarInUse'
  <2>1. p[1] \in Groups /\ p[2] \in Devices
    BY Pairs
  <2>2. QED
    BY <1>1, <2>1 DEF RegisterGroup
<1>2. ASSUME NEW g \in Groups, DeregisterGroup(g) PROVE RegistrarInUse'
  BY <1>2 DEF DeregisterGroup
<1>3. CASE Requests
  BY <1>3 DEF Requests, Registration, ReadClient, SubscribeBegin, SubscribeEnd,
     UnsubscribeBegin, UnsubscribeEnd, Hook, HookSnapshot, HookReturn,
     HookSubscribeEnd, HookSubscribeBegin
<1>4. CASE Connections
  BY <1>4 DEF Connections, Dial, ConnectionLost, OnConnectionLost, Accept,
     DialFails, Install, LoopTick, LoopCancelled, LoopLeaves,
     RefreshCancelled, Close, CloseEnds
<1>5. CASE UNCHANGED vars
  BY <1>5 DEF vars
<1>6. QED
  BY <1>1, <1>2, <1>3, <1>4, <1>5, Steps

(* A count that becomes zero under the request of a hook leaves the        *)
(* registrar waiting for subMu.                                            *)
LEMMA HooksStep == IInv /\ [Next]_vars => HooksInUse'
<1> SUFFICES ASSUME IInv, [Next]_vars PROVE HooksInUse'
  OBVIOUS
<1> USE NoneApart DEF IInv, TypeOK, HooksInUse, RegReturn
<1>1. ASSUME NEW p \in Identity, RegisterGroup(p[1], p[2]) PROVE HooksInUse'
  <2>1. p[1] \in Groups /\ p[2] \in Devices
    BY Pairs
  <2>2. QED
    BY <1>1, <2>1 DEF RegisterGroup
<1>2. ASSUME NEW g \in Groups, DeregisterGroup(g) PROVE HooksInUse'
  BY <1>2 DEF DeregisterGroup
<1>3. CASE Requests
  <2>1. CASE Registration
    BY <2>1 DEF Registration, ReadClient, SubscribeBegin, SubscribeEnd,
       UnsubscribeBegin, UnsubscribeEnd, SubMuFree
  <2>2. ASSUME NEW c \in Clients, Hook(c) PROVE HooksInUse'
    BY <2>2 DEF Hook, HookSnapshot, HookReturn, HookSubscribeEnd,
       HookSubscribeBegin
  <2>3. QED
    BY <1>3, <2>1, <2>2 DEF Requests
<1>4. CASE Connections
  <2>1. CASE Accept
    BY <2>1 DEF Accept
  <2>2. CASE UNCHANGED <<deviceSubs, regPc, regDev, hook, hookDev>>
    BY <2>2
  <2>3. QED
    BY <1>4, <2>1, <2>2 DEF Connections, Dial, ConnectionLost,
       OnConnectionLost, DialFails, Install, LoopTick, LoopCancelled,
       LoopLeaves, RefreshCancelled, Close, CloseEnds
<1>5. CASE UNCHANGED vars
  BY <1>5 DEF vars
<1>6. QED
  BY <1>1, <1>2, <1>3, <1>4, <1>5, Steps

LEMMA ClientsStep ==
    IInv /\ [Next]_vars => DialShape' /\ ConnectedKnown'
<1> SUFFICES ASSUME IInv, [Next]_vars PROVE DialShape' /\ ConnectedKnown'
  OBVIOUS
<1> USE NoneApart DEF IInv, TypeOK, DialShape, ConnectedKnown
<1>1. ASSUME NEW p \in Identity, RegisterGroup(p[1], p[2])
      PROVE  DialShape' /\ ConnectedKnown'
  BY <1>1 DEF RegisterGroup
<1>2. ASSUME NEW g \in Groups, DeregisterGroup(g)
      PROVE  DialShape' /\ ConnectedKnown'
  BY <1>2 DEF DeregisterGroup
<1>3. CASE Requests
  <2>1. UNCHANGED <<connected, client, dialer, dialPc, dialClient, loop,
                    refreshing, stage>>
    BY <1>3 DEF Requests, Registration, ReadClient, SubscribeBegin,
       SubscribeEnd, UnsubscribeBegin, UnsubscribeEnd, Hook, HookSnapshot,
       HookReturn, HookSubscribeEnd, HookSubscribeBegin
  <2>2. QED
    BY <2>1
<1>4. CASE Connections
  <2>1. ASSUME NEW c \in Clients,
               \/ Dial("loop", c) \/ Dial("refresh", c)
               \/ ConnectionLost(c) \/ OnConnectionLost(c)
        PROVE  DialShape' /\ ConnectedKnown'
    BY <2>1 DEF Dial, ConnectionLost, OnConnectionLost, StartLoop, Cancelled
  <2>2. CASE Accept
    BY <2>2 DEF Accept
  <2>3. CASE DialFails \/ Install
    BY <2>3 DEF DialFails, Install, DialReturn, Booted, StartLoop, Cancelled
  <2>4. CASE \/ LoopTick \/ LoopCancelled \/ LoopLeaves \/ RefreshCancelled
             \/ Close \/ CloseEnds
    BY <2>4 DEF LoopTick, LoopCancelled, LoopLeaves, RefreshCancelled, Close,
       CloseEnds
  <2>5. QED
    BY <1>4, <2>1, <2>2, <2>3, <2>4 DEF Connections
<1>5. CASE UNCHANGED vars
  BY <1>5 DEF vars
<1>6. QED
  BY <1>1, <1>2, <1>3, <1>4, <1>5, Steps

-----------------------------------------------------------------------------
(* The inductive invariant holds in every reachable state, whoever shares  *)
(* devices with whom.                                                      *)
THEOREM Inductive == Spec => []IInv
<1>1. IInv /\ [Next]_vars => IInv'
  BY TypeStep, KnownStep, RegistrarStep, HooksStep, ClientsStep DEF IInv
<1>2. QED
  BY InitIInv, <1>1, PTL DEF Spec

(* Type correctness.                                                       *)
THEOREM Typed == Spec => []TypeOK
<1>1. IInv => TypeOK
  BY DEF IInv
<1>2. QED
  BY Inductive, <1>1, PTL

(* When Close has returned, the client it disconnected was the last: no    *)
(* connect that was under way has installed another.                       *)
THEOREM CloseDisconnects == Spec => []ClosedDisconnects
<1>1. IInv => ClosedDisconnects
  <2> SUFFICES ASSUME IInv, stage = "closed" PROVE connected = {}
    BY DEF ClosedDisconnects
  <2>1. connected \subseteq {client} /\ client = None
    BY DEF IInv, DialShape, ConnectedKnown, TypeOK
  <2>2. connected \subseteq Clients
    BY DEF IInv, TypeOK
  <2>3. QED
    BY <2>1, <2>2, NoneApart
<1>2. QED
  BY Inductive, <1>1, PTL

(* A subscription takes effect for a device in use, or one whose           *)
(* unsubscription waits for subMu.                                         *)
THEOREM NoStaleSubscription == Spec => SubscribedInUse
<1> DEFINE Fresh(d) == deviceSubs[d] > 0 \/ (regPc = "unsubscribe" /\ regDev = d)
<1>1. IInv /\ [Next]_vars => [\A d \in subs' \ subs : Fresh(d)]_vars
  <2> SUFFICES ASSUME IInv, [Next]_vars, NEW d \in subs' \ subs PROVE Fresh(d)
    OBVIOUS
  <2> USE DEF IInv, RegistrarInUse, HooksInUse
  <2>1. CASE Requests
    BY <2>1 DEF Requests, Registration, ReadClient, SubscribeBegin,
       SubscribeEnd, UnsubscribeBegin, UnsubscribeEnd, Hook, HookSnapshot,
       HookReturn, HookSubscribeEnd, HookSubscribeBegin, Outcomes
  <2>2. CASE Connections
    BY <2>2 DEF Connections, Dial, ConnectionLost, OnConnectionLost, Accept,
       DialFails, Install, LoopTick, LoopCancelled, LoopLeaves,
       RefreshCancelled, Close, CloseEnds, EndSession
  <2>3. CASE \/ \E p \in Identity : RegisterGroup(p[1], p[2])
             \/ \E g \in Groups : DeregisterGroup(g)
    BY <2>3 DEF RegisterGroup, DeregisterGroup
  <2>4. CASE UNCHANGED vars
    BY <2>4 DEF vars
  <2>5. QED
    BY <2>1, <2>2, <2>3, <2>4, Steps
<1>2. QED
  BY Inductive, <1>1, PTL DEF Spec, SubscribedInUse

=============================================================================
