--------------------------- MODULE ExternalPlugin ---------------------------
(***************************************************************************)
(* One adapter of an external plugin and its processes: processClient      *)
(* (externalplugin/client.go) with its table of pending calls, and the     *)
(* driver and north adapters (adapter.go) that start a process, call it,   *)
(* replace it when it has died, and stop it.                               *)
(*                                                                         *)
(* The owner is the lifecycle operation that creates and closes the        *)
(* adapter.  Users come one at a time: the connection's ioSem admits them  *)
(* to a driver (SouthRuntime), the worker of the delivery queue is the     *)
(* only one of a north plugin, and the queue has ended it before it closes *)
(* the adapter (NorthDelivery).  That admission is `turn` here.            *)
(*                                                                         *)
(* A process may die at any moment, with the replies it has not delivered. *)
(* A plugin is taken to read its standard input, so that a write never     *)
(* blocks.                                                                 *)
(***************************************************************************)
EXTENDS Naturals

CONSTANTS
    Procs,      \* identities of processes (bound on those in use at once)
    Readers,    \* collections and commands; the delivery worker
    Owner, None,
    Ended       \* the scope of a process whose context was cancelled

ASSUME Apart ==
    /\ Owner \notin Readers /\ None \notin Readers \cup {Owner}
    /\ None \notin Procs /\ Ended \notin Readers \cup {Owner}

VARIABLES
    kind,       \* "driver" or "north"
    stage,      \* of the adapter: "new", "open", "closed"
    client,     \* d.client, a.client
    turn,       \* who is using the adapter
    upc, tgt,   \* each user: where it is, and the process it is calling
    answered,   \* the users whose response channel holds a reply
    scope,      \* whose context a process is bound to; None: done is closed
    pend,       \* its pending calls, by user
    hosts       \* the processes with a host call under way

Users == Readers \cup {Owner}
adapter == <<kind, stage, client>>
users == <<turn, upc, tgt, answered>>
procs == <<scope, pend, hosts>>
vars == <<adapter, users, procs>>

Up(p) == scope[p] # None

(* Those in P are closed, or have died.                                    *)
Down(P) == [p \in Procs |-> IF p \in P THEN None ELSE scope[p]]

Go(u, l) == upc' = [upc EXCEPT ![u] = l]

(* In `call`, waiting.                                                     *)
Waiting(u) == upc[u] \in {"starting", "calling", "stopping"}

(* Only the first call of a process that is not bound to a read waits      *)
(* without a timeout.                                                      *)
Untimed(u) == upc[u] = "starting" /\ (u = Owner \/ kind = "north")

(* No one holds p any more, so that its identity may stand for a new one.  *)
Unused(p) ==
    /\ ~Up(p) /\ p # client /\ p \notin hosts
    /\ \A u \in Users : tgt[u] # p

-----------------------------------------------------------------------------
(* processClient.                                                          *)

(* Mutant: a call that ends without its reply stays in the table.          *)
PendingKept(u) == pend

(* removePending.                                                          *)
PendingRemoved(u) == [p \in Procs |-> pend[p] \ {u}]

(* readLoop delivers a reply to the call that waits for it.                *)
Answer(u) ==
    /\ Waiting(u)
    /\ Up(tgt[u]) /\ u \in pend[tgt[u]]
    /\ pend' = [pend EXCEPT ![tgt[u]] = @ \ {u}]
    /\ answered' = answered \cup {u}
    /\ UNCHANGED <<adapter, turn, upc, tgt, scope, hosts>>

(* The process ends by itself, closes its output or writes what is no      *)
(* reply, or its context ends; `finish` closes done.                       *)
Exit(p) ==
    /\ Up(p)
    /\ scope' = Down({p})
    /\ UNCHANGED <<adapter, users, pend, hosts>>

(* The plugin asks for a command to be executed or for a group's status;   *)
(* a goroutine no one waits for answers it.                                *)
HostCall(p) ==
    /\ kind = "north" /\ Up(p) /\ p \notin hosts
    /\ hosts' = hosts \cup {p}
    /\ UNCHANGED <<adapter, users, scope, pend>>

HostReturns(p) ==
    /\ p \in hosts
    /\ hosts' = hosts \ {p}
    /\ UNCHANGED <<adapter, users, scope, pend>>

(* `call` with a process that is up registers before it writes.            *)
Call(u, p, l) ==
    /\ Go(u, l)
    /\ tgt' = [tgt EXCEPT ![u] = p]
    /\ pend' = IF Up(p) THEN [pend EXCEPT ![p] = @ \cup {u}] ELSE pend

(* Mutant: a call does not look at the end of its context.                 *)
ReturnsUntimed(u, good) ==
    /\ Waiting(u)
    /\ IF u \in answered
       THEN UNCHANGED pend
       ELSE ~good /\ ~Up(tgt[u]) /\ pend' = PendingRemoved(u)
    /\ answered' = answered \ {u}

(* A call ends with its reply, which may tell of an error, or without, for *)
(* the process has ended or the time is over.  A reply that is there when  *)
(* the process ends is taken.                                              *)
Returns(u, good) ==
    /\ Waiting(u)
    /\ IF u \in answered
       THEN UNCHANGED pend
       ELSE /\ ~good
            /\ ~Up(tgt[u]) \/ ~Untimed(u)
            /\ pend' = PendingRemoved(u)
    /\ answered' = answered \ {u}

-----------------------------------------------------------------------------
(* The adapters.                                                           *)

(* startProcess and the first call, from startConnection, from             *)
(* newNorthAdapter, or by the user that finds no process running.  A       *)
(* driver adapter closes its process before it starts another.             *)
Start(u) ==
    LET kept == IF kind = "driver" THEN Down({client}) ELSE scope IN
    /\ upc[u] = "start"
    /\ client' = IF kind = "driver" THEN None ELSE client
    /\ \/ \E p \in Procs :
            /\ Unused(p)
            /\ scope' = [kept EXCEPT ![p] =
                           IF kind = "north" THEN Owner ELSE u]
            /\ pend' = [pend EXCEPT ![p] = {u}]
            /\ tgt' = [tgt EXCEPT ![u] = p]
            /\ Go(u, "starting")
       \/ scope' = kept /\ Go(u, "leave") /\ UNCHANGED <<pend, tgt>>
    /\ UNCHANGED <<kind, stage, turn, answered, hosts>>

(* Mutant: a process that does not start properly is not closed.           *)
StartedLeaksProcess(u) ==
    \E good \in BOOLEAN :
      /\ upc[u] = "starting" /\ Returns(u, good)
      /\ scope' = IF good THEN Down({client}) ELSE scope
      /\ client' = IF good THEN tgt[u] ELSE client
      /\ tgt' = [tgt EXCEPT ![u] = IF good /\ u # Owner THEN @ ELSE None]
      /\ Go(u, IF good /\ u # Owner THEN "call" ELSE "leave")
      /\ UNCHANGED <<kind, stage, turn, hosts>>

(* The new process is installed and the old one closed, or the new one is  *)
(* closed.                                                                 *)
Started(u) ==
    \E good \in BOOLEAN :
      /\ upc[u] = "starting" /\ Returns(u, good)
      /\ scope' = Down({IF good THEN client ELSE tgt[u]})
      /\ client' = IF good THEN tgt[u] ELSE client
      /\ tgt' = [tgt EXCEPT ![u] = IF good /\ u # Owner THEN @ ELSE None]
      /\ Go(u, IF good /\ u # Owner THEN "call" ELSE "leave")
      /\ UNCHANGED <<kind, stage, turn, hosts>>

(* A user is admitted: to a driver also when the connection has already    *)
(* been replaced, as a collection that copied it before.                   *)
Begin(u) ==
    /\ u \in Readers /\ upc[u] = "idle" /\ turn = None
    /\ stage = "open" \/ (stage = "closed" /\ kind = "driver")
    /\ kind = "north" => \A v \in Readers : upc[v] = "idle"
    /\ turn' = u
    /\ Go(u, "enter")
    /\ UNCHANGED <<adapter, tgt, answered, procs>>

(* runningClient.                                                          *)
RunningClient(u) ==
    /\ upc[u] = "enter"
    /\ IF client # None /\ Up(client)
       THEN Go(u, "call") /\ tgt' = [tgt EXCEPT ![u] = client]
       ELSE Go(u, "start") /\ UNCHANGED tgt
    /\ UNCHANGED <<adapter, turn, answered, procs>>

(* ReadTags, WriteTag, InvokeFunction, Browse, OnMessage.                  *)
Request(u) ==
    /\ upc[u] = "call"
    /\ Call(u, tgt[u], "calling")
    /\ UNCHANGED <<adapter, turn, answered, scope, hosts>>

Requested(u) ==
    /\ upc[u] = "calling" /\ \E good \in BOOLEAN : Returns(u, good)
    /\ tgt' = [tgt EXCEPT ![u] = None]
    /\ Go(u, "leave")
    /\ UNCHANGED <<adapter, turn, scope, hosts>>

(* A collection without tags only sees to it that the driver is connected  *)
(* (runner.go:996).                                                        *)
Probed(u) ==
    /\ upc[u] = "call" /\ kind = "driver"
    /\ tgt' = [tgt EXCEPT ![u] = None]
    /\ Go(u, "leave")
    /\ UNCHANGED <<adapter, turn, answered, procs>>

(* The user gives the adapter back; the owner has opened it, or not, when  *)
(* a north plugin does not start.                                          *)
Leave(u) ==
    /\ upc[u] = "leave"
    /\ turn' = None
    /\ Go(u, IF u = Owner THEN "idle" ELSE "ended")
    /\ stage' = IF stage # "new" THEN stage
                ELSE IF kind = "north" /\ client = None THEN "closed"
                ELSE "open"
    /\ UNCHANGED <<kind, client, tgt, answered, procs>>

(* Mutant: the context of a read lives on.                                 *)
ContextKept(u) ==
    /\ upc[u] = "ended"
    /\ Go(u, "idle")
    /\ UNCHANGED <<adapter, turn, tgt, answered, procs>>

(* The context of the read is cancelled, and with it a process that the    *)
(* read has started.                                                       *)
ContextEnds(u) ==
    /\ upc[u] = "ended"
    /\ Go(u, "idle")
    /\ scope' = [p \in Procs |-> IF scope[p] = u THEN Ended ELSE scope[p]]
    /\ UNCHANGED <<adapter, turn, tgt, answered, pend, hosts>>

Open ==
    /\ stage = "new" /\ upc[Owner] = "idle"
    /\ turn' = Owner
    /\ Go(Owner, "start")
    /\ UNCHANGED <<adapter, tgt, answered, procs>>

(* Disconnect by closeConnection, Close by queuedNorth: "disconnect" or    *)
(* "stop", with three seconds, if there is a process.                      *)
Close ==
    /\ stage = "open" /\ turn = None
    /\ turn' = Owner
    /\ stage' = "closed"
    /\ IF client = None
       THEN Go(Owner, "cancel") /\ UNCHANGED <<tgt, pend>>
       ELSE Call(Owner, client, "stopping")
    /\ UNCHANGED <<kind, client, answered, scope, hosts>>

Stopped ==
    /\ upc[Owner] = "stopping" /\ \E good \in BOOLEAN : Returns(Owner, good)
    /\ scope' = Down({client})
    /\ client' = None
    /\ tgt' = [tgt EXCEPT ![Owner] = None]
    /\ Go(Owner, "cancel")
    /\ UNCHANGED <<kind, stage, turn, hosts>>

(* The context the adapter was created with is cancelled.                  *)
Cancel ==
    /\ upc[Owner] = "cancel"
    /\ scope' = [p \in Procs |-> IF scope[p] = Owner THEN Ended ELSE scope[p]]
    /\ turn' = None
    /\ Go(Owner, "idle")
    /\ UNCHANGED <<adapter, tgt, answered, pend, hosts>>

-----------------------------------------------------------------------------
Init ==
    /\ kind \in {"driver", "north"}
    /\ stage = "new" /\ client = None /\ turn = None
    /\ upc = [u \in Users |-> "idle"]
    /\ tgt = [u \in Users |-> None]
    /\ answered = {}
    /\ scope = [p \in Procs |-> None]
    /\ pend = [p \in Procs |-> {}]
    /\ hosts = {}

UserStep(u) ==
    \/ Start(u) \/ Started(u) \/ RunningClient(u) \/ Request(u)
    \/ Requested(u) \/ Probed(u) \/ Leave(u) \/ ContextEnds(u)
OwnerStep == Stopped \/ Cancel

Next ==
    \/ \E u \in Users : Begin(u) \/ UserStep(u) \/ Answer(u)
    \/ Open \/ Close \/ OwnerStep
    \/ \E p \in Procs : Exit(p) \/ HostCall(p) \/ HostReturns(p)

Spec == Init /\ [][Next]_vars

(* Goroutines are scheduled, timeouts expire, a process whose context was  *)
(* cancelled is killed, and a plugin answers its first call or dies.       *)
FairSpec ==
    /\ Spec
    /\ \A u \in Users : WF_vars(UserStep(u))
    /\ \A u \in Users : WF_vars(Untimed(u) /\ Answer(u))
    /\ WF_vars(OwnerStep)
    /\ \A p \in Procs : /\ WF_vars(scope[p] = Ended /\ Exit(p))
                        /\ WF_vars(HostReturns(p))

-----------------------------------------------------------------------------
TypeOK ==
    /\ kind \in {"driver", "north"} /\ stage \in {"new", "open", "closed"}
    /\ client \in Procs \cup {None}
    /\ turn \in Users \cup {None}
    /\ upc \in [Users -> {"idle", "enter", "start", "starting", "call",
                          "calling", "leave", "ended", "stopping", "cancel"}]
    /\ tgt \in [Users -> Procs \cup {None}]
    /\ answered \subseteq Users
    /\ scope \in [Procs -> Users \cup {Ended, None}]
    /\ pend \in [Procs -> SUBSET Users]
    /\ hosts \subseteq Procs

(* A process that is alive is the adapter's one process, or the one that   *)
(* is being started: a Connection or a NorthApp has a process of its own   *)
(* (docs/external-plugins.md:75), also when it was restarted.  When the    *)
(* adapter has been closed and no one is using it, a process that is still *)
(* alive is about to be killed: a late read may start one anew             *)
(* (adapter.go:146), but it does not outlive that read.                    *)
ProcessesOwned ==
    /\ \A p \in Procs : Up(p) =>
         p = client \/ (\E u \in Users : upc[u] = "starting" /\ tgt[u] = p)
    /\ stage = "closed" /\ (\A u \in Users : upc[u] = "idle") =>
         \A p \in Procs : Up(p) => scope[p] = Ended

(* The table of a process has an entry for a call exactly while it waits   *)
(* without its reply, whether the reply, the end of the process or the     *)
(* timeout comes first (client.go:127); a dead process may lack an entry.  *)
PendingExact ==
    \A p \in Procs, u \in Users :
      /\ u \in pend[p] => Waiting(u) /\ tgt[u] = p /\ u \notin answered
      /\ Up(p) /\ Waiting(u) /\ tgt[u] = p /\ u \notin answered =>
           u \in pend[p]

(* Every use of the adapter, its opening and its closing return, and a     *)
(* process that was left behind dies.                                      *)
PluginsSettle ==
    /\ \A u \in Users : (upc[u] # "idle") ~> (upc[u] = "idle")
    /\ \A p \in Procs : (scope[p] = Ended) ~> (scope[p] # Ended)

-----------------------------------------------------------------------------
(* The inductive invariant (ExternalPlugin_proofs).                        *)

(* Inside the adapter, between its admission and its leave.                *)
Inside(u) == upc[u] \notin {"idle", "ended"}

(* One user is inside at a time, and each at one of its own places.        *)
OneInside ==
    \A u \in Users :
      /\ Inside(u) => turn = u
      /\ u = Owner => upc[u] \notin {"enter", "call", "calling", "ended"}
      /\ u # Owner => upc[u] \notin {"stopping", "cancel"}

(* A user knows a process exactly from its start or look-up to its answer. *)
TargetKnown ==
    /\ \A u \in Users : (tgt[u] # None) <=>
         (upc[u] \in {"starting", "call", "calling", "stopping"})
    /\ \A u \in answered : Waiting(u)

(* Before the adapter is opened no one uses it, and after it was closed no *)
(* one uses a north plugin.                                                *)
StageShape ==
    /\ stage = "new" => \A u \in Readers : upc[u] = "idle"
    /\ stage # "new" => upc[Owner] \in {"idle", "stopping", "cancel"}
    /\ stage # "closed" => upc[Owner] \notin {"stopping", "cancel"}
    /\ stage = "closed" /\ kind = "north" =>
         \A u \in Readers : ~Inside(u)

(* A process is bound to a read that goes on, or to the adapter until this *)
(* is closed.                                                              *)
Bounded ==
    \A p \in Procs :
      /\ scope[p] \in Readers => upc[scope[p]] # "idle"
      /\ scope[p] = Owner /\ stage = "closed" =>
           upc[Owner] \in {"stopping", "cancel"}

IInv ==
    /\ TypeOK /\ OneInside /\ TargetKnown /\ StageShape /\ Bounded
    /\ PendingExact /\ ProcessesOwned
=============================================================================
