--------------------------- MODULE NorthCommands ----------------------------
(***************************************************************************)
(* Commands that come down from the platforms, and the cache they share    *)
(* with the collections: the intake of the JetLinks application (a queue   *)
(* and four workers) and of the generic MQTT application (four slots), the *)
(* executor the Runner gives them (executeNorthCommand, ReadTag,           *)
(* WriteTag), and collectOnce as far as it fills lastVals and tells what   *)
(* has changed.                                                            *)
(*                                                                         *)
(* One group; SouthRuntime has the connections and who drives them.  What  *)
(* a read returns is the device's business: any value, or Bad.             *)
(***************************************************************************)
EXTENDS Naturals, Sequences, FiniteSets

CONSTANTS
    Commands, Apps, Tags,
    Vals, Bad,      \* good values, and the value of a tag that is not good
    None,
    Queued,         \* the JetLinks applications; the others are generic
    AppOf,          \* the application each command comes to
    Op,             \* "read", "write" or "invoke"
    Todo,           \* the tags a command names, in the order it takes them;
                    \* any one for a function
    Rows,           \* what a group may look like when it is (re)started
    Arrivals,       \* how many of the commands arrive (bound)
    PendCap,        \* of pendCh (256)
    Limit,          \* of the workers and of commandSem (both 4)
    Collector       \* the group's worker, as a user of the connection

ASSUME CommandsOK ==
    /\ AppOf \in [Commands -> Apps] /\ Queued \subseteq Apps
    /\ Op \in [Commands -> {"read", "write", "invoke"}]
    /\ Todo \in [Commands -> Seq(Tags)]
ASSUME Finite == IsFiniteSet(Commands)
ASSUME LimitsOK == Arrivals \in Nat /\ PendCap \in Nat /\ Limit \in Nat
ASSUME RowsOK ==
    Rows \subseteq [north : SUBSET Apps, acc : [Tags -> {"RO", "RW", "WO"}]]
ASSUME Apart ==
    /\ None \notin Commands \cup Vals \cup Rows \cup {Bad, Collector}
    /\ Bad \notin Vals /\ Collector \notin Commands

VARIABLES
    group,    \* r.groups[g]: its row, or None
    cache,    \* r.lastVals[g]
    view,     \* a consumer that applies every "changes" it is sent
    hidden,   \* the tags an on-demand read has changed in the cache since
    sem,      \* ioSem: who has the connection
    pc, at,   \* each command: where it is, and the place in Todo
    pend,     \* a.pendCh
    workers,  \* how many workers of a.dispatch live
    stage     \* of each application: "open", "closing", "closed"

data == <<cache, view, hidden>>
apps == <<pend, workers, stage>>
vars == <<group, data, sem, pc, at, apps>>

Go(c, l) == pc' = [pc EXCEPT ![c] = l]

(* Between its look-up and its reply.                                      *)
Running == {"lookup", "next", "acquire", "io", "cache", "reply"}
Settled == {"refused", "done"}

CanArrive(c) ==
    pc[c] = "new" /\ Cardinality({d \in Commands : pc[d] # "new"}) < Arrivals

Of(a)   == {c \in Commands : AppOf[c] = a}
Busy(a) == {c \in Of(a) : pc[c] \in Running}

(* Slots of commandSem that are taken.                                     *)
Slots(a) == Cardinality({c \in Of(a) : pc[c] \in Running \cup {"admit"}})

-----------------------------------------------------------------------------
(* The intake.                                                             *)

(* onMessage of the JetLinks application: it looks at closing, decodes the *)
(* message, and only then tries to put it into the queue.                  *)
Arrive(c) ==
    /\ CanArrive(c) /\ AppOf[c] \in Queued
    /\ \/ Go(c, "refused")                          \* it does not decode
       \/ stage[AppOf[c]] = "open" /\ Go(c, "checked")
    /\ UNCHANGED <<group, data, sem, at, apps>>

Enqueue(c) ==
    LET a == AppOf[c] IN
    /\ pc[c] = "checked"
    /\ IF Len(pend[a]) < PendCap
       THEN /\ pend' = [pend EXCEPT ![a] = Append(@, c)]
            /\ Go(c, "queued")
       ELSE UNCHANGED pend /\ Go(c, "refused")
    /\ UNCHANGED <<group, data, sem, at, workers, stage>>

(* dispatch: a worker that waits takes the head, also after the context    *)
(* was cancelled, when select finds both ready.                            *)
Take(a) ==
    /\ a \in Queued /\ pend[a] # <<>>
    /\ Cardinality(Busy(a)) < workers[a]
    /\ Go(Head(pend[a]), "lookup")
    /\ pend' = [pend EXCEPT ![a] = Tail(@)]
    /\ UNCHANGED <<group, data, sem, at, workers, stage>>

WorkerExits(a) ==
    /\ stage[a] # "open"
    /\ Cardinality(Busy(a)) < workers[a]
    /\ workers' = [workers EXCEPT ![a] = @ - 1]
    /\ UNCHANGED <<group, data, sem, pc, at, pend, stage>>

(* onMessageReceived of the generic application: a slot or nothing,        *)
ArriveSlot(c) ==
    /\ CanArrive(c) /\ AppOf[c] \notin Queued
    /\ \/ Go(c, "refused")                          \* it does not decode
       \/ Slots(AppOf[c]) < Limit /\ Go(c, "admit")
    /\ UNCHANGED <<group, data, sem, at, apps>>

(* Mutant: it does not look at closing again.                              *)
AdmitAlways(c) ==
    /\ pc[c] = "admit"
    /\ Go(c, "lookup")
    /\ UNCHANGED <<group, data, sem, at, apps>>

(* and then, under commandMu, closing and commandWG in one step.           *)
Admit(c) ==
    /\ pc[c] = "admit"
    /\ Go(c, IF stage[AppOf[c]] = "open" THEN "lookup" ELSE "refused")
    /\ UNCHANGED <<group, data, sem, at, apps>>

(* Close: it cancels the context and waits for what commandWG counts, the  *)
(* workers or the commands that were admitted.                             *)
Close(a) ==
    /\ stage[a] = "open"
    /\ stage' = [stage EXCEPT ![a] = "closing"]
    /\ UNCHANGED <<group, data, sem, pc, at, pend, workers>>

CloseReturns(a) ==
    /\ stage[a] = "closing"
    /\ IF a \in Queued THEN workers[a] = 0 ELSE Busy(a) = {}
    /\ stage' = [stage EXCEPT ![a] = "closed"]
    /\ UNCHANGED <<group, data, sem, pc, at, pend, workers>>

-----------------------------------------------------------------------------
(* executeNorthCommand.                                                    *)

(* Under r.mu it finds the group and checks that it is bound to the        *)
(* application; a write is refused as a whole if one of its tags is        *)
(* read-only.                                                              *)
LookUp(c) ==
    /\ pc[c] = "lookup"
    /\ Go(c, IF /\ group # None
                /\ AppOf[c] \in group.north
                /\ Op[c] = "write" =>
                     \A i \in DOMAIN Todo[c] : group.acc[Todo[c][i]] # "RO"
             THEN "next" ELSE "reply")
    /\ UNCHANGED <<group, data, sem, at, apps>>

(* ReadTag and WriteTag look the group up again for every tag, and check   *)
(* the access again; a function is invoked on the connection found first.  *)
NextTag(c) ==
    /\ pc[c] = "next"
    /\ Go(c, IF /\ at[c] <= Len(Todo[c])
                /\ \/ Op[c] = "invoke"
                   \/ /\ group # None
                      /\ group.acc[Todo[c][at[c]]] #
                           (IF Op[c] = "read" THEN "WO" ELSE "RO")
             THEN "acquire" ELSE "reply")
    /\ UNCHANGED <<group, data, sem, at, apps>>

Acquire(c) ==
    /\ pc[c] = "acquire" /\ sem = None
    /\ sem' = c
    /\ Go(c, "io")
    /\ UNCHANGED <<group, data, at, apps>>

(* Mutant: the wait for the connection has no end of its own.              *)
AcquireNeverFails(c) == FALSE

(* The wait ends by the timeout of the command or with the application.    *)
AcquireFails(c) ==
    /\ pc[c] = "acquire"
    /\ Go(c, "reply")
    /\ UNCHANGED <<group, data, sem, at, apps>>

(* The driver's answer; the connection is released before a value that was *)
(* read is cached.                                                         *)
DriverReturns(c) ==
    /\ pc[c] = "io"
    /\ sem' = None
    /\ \/ Go(c, "reply") /\ UNCHANGED at            \* an error
       \/ Op[c] = "read" /\ Go(c, "cache") /\ UNCHANGED at
       \/ /\ Op[c] # "read"
          /\ Go(c, "next")
          /\ at' = [at EXCEPT ![c] = @ + 1]
    /\ UNCHANGED <<group, data, apps>>

(* cacheValue, whatever has been cached in between and whatever has become *)
(* of the group; the command ends at a value that is not good.             *)
CacheValue(c) ==
    LET t == Todo[c][at[c]] IN
    /\ pc[c] = "cache"
    /\ \E v \in Vals \cup {Bad} :
         /\ cache' = [cache EXCEPT ![t] = v]
         /\ hidden' = IF v = cache[t] THEN hidden ELSE hidden \cup {t}
         /\ Go(c, IF v = Bad THEN "reply" ELSE "next")
    /\ at' = [at EXCEPT ![c] = @ + 1]
    /\ UNCHANGED <<group, view, sem, apps>>

(* publishReply, with or without success, and the slot or the worker.      *)
Reply(c) ==
    /\ pc[c] = "reply"
    /\ Go(c, "done")
    /\ UNCHANGED <<group, data, sem, at, apps>>

-----------------------------------------------------------------------------
(* The group's own worker and its lifecycle.                               *)

CollectBegins ==
    /\ group # None /\ sem = None
    /\ sem' = Collector
    /\ UNCHANGED <<group, data, pc, at, apps>>

(* Mutant: the cache is updated before it is compared.                     *)
CollectUpdatesFirst ==
    /\ sem = Collector
    /\ \E v \in [Tags -> Vals \cup {Bad}] : cache' = v
    /\ sem' = None
    /\ UNCHANGED <<group, view, hidden, pc, at, apps>>

(* Every value is compared with the cached one and replaces it; the good   *)
(* ones that have changed are sent as changes.  (A tag that is read while  *)
(* this goes on is cached before or after: the tags are independent.)      *)
CollectEnds ==
    /\ sem = Collector
    /\ \E v \in [Tags -> Vals \cup {Bad}] :
         LET changes == {t \in Tags : v[t] # cache[t]} IN
         /\ cache' = v
         /\ view' = [t \in Tags |-> IF t \in changes /\ v[t] # Bad
                                    THEN v[t] ELSE view[t]]
         /\ hidden' = hidden \ changes
    /\ sem' = None
    /\ UNCHANGED <<group, pc, at, apps>>

(* The worker is cancelled while it waits for the global slot.             *)
CollectCancelled ==
    /\ sem = Collector
    /\ sem' = None
    /\ UNCHANGED <<group, data, pc, at, apps>>

(* A group is taken down when its worker has ended.  Its values are        *)
(* forgotten when it is replaced or its connection is stopped, and kept    *)
(* when it is disabled or deleted.                                         *)
StopGroup(forget) ==
    /\ group # None /\ sem # Collector
    /\ group' = None
    /\ cache' = IF forget THEN [t \in Tags |-> None] ELSE cache
    /\ UNCHANGED <<view, hidden, sem, pc, at, apps>>

StartGroup(row) ==
    /\ group = None
    /\ group' = row
    /\ UNCHANGED <<data, sem, pc, at, apps>>

-----------------------------------------------------------------------------
Init ==
    /\ group = None
    /\ cache = [t \in Tags |-> None]
    /\ view = [t \in Tags |-> None]
    /\ hidden = {}
    /\ sem = None
    /\ pc = [c \in Commands |-> "new"]
    /\ at = [c \in Commands |-> 1]
    /\ pend = [a \in Apps |-> <<>>]
    /\ workers = [a \in Apps |-> IF a \in Queued THEN Limit ELSE 0]
    /\ stage = [a \in Apps |-> "open"]

CommandStep(c) ==
    \/ Enqueue(c) \/ Admit(c) \/ LookUp(c) \/ NextTag(c) \/ Acquire(c)
    \/ AcquireFails(c) \/ DriverReturns(c) \/ CacheValue(c) \/ Reply(c)
AppStep(a) == Take(a) \/ WorkerExits(a) \/ CloseReturns(a)
Group == \/ CollectBegins \/ CollectEnds \/ CollectCancelled
         \/ \E forget \in BOOLEAN : StopGroup(forget)
         \/ \E row \in Rows : StartGroup(row)

Next ==
    \/ \E c \in Commands : Arrive(c) \/ ArriveSlot(c) \/ CommandStep(c)
    \/ \E a \in Apps : Close(a) \/ AppStep(a)
    \/ Group

Spec == Init /\ [][Next]_vars

(* Goroutines are scheduled, drivers return within the timeout they are    *)
(* given, and the wait for the connection is bounded by the same timeout.  *)
FairSpec ==
    /\ Spec
    /\ \A c \in Commands : WF_vars(CommandStep(c))
    /\ \A a \in Apps : WF_vars(AppStep(a))
    /\ WF_vars(CollectEnds \/ CollectCancelled)

-----------------------------------------------------------------------------
TypeOK ==
    /\ group \in Rows \cup {None}
    /\ cache \in [Tags -> Vals \cup {Bad, None}]
    /\ view \in [Tags -> Vals \cup {None}]
    /\ hidden \subseteq Tags
    /\ sem \in Commands \cup {Collector, None}
    /\ pc \in [Commands -> Running \cup Settled
                             \cup {"new", "checked", "queued", "admit"}]
    /\ at \in [Commands -> Nat]
    /\ pend \in [Apps -> Seq(Commands)]
    /\ workers \in [Apps -> Nat]
    /\ stage \in [Apps -> {"open", "closing", "closed"}]

(* When Close of an application has returned, no command of it is between  *)
(* its look-up and its reply, so none reads or writes a device any more:   *)
(* neither one that was being admitted when Close began, nor one that a    *)
(* worker took from the queue after the context was cancelled.             *)
ClosedIsQuiet == \A a \in Apps : stage[a] = "closed" => Busy(a) = {}

(* A consumer that only applies "changes" knows the value every collection *)
(* compares with (runner.go:1069), as long as that value is a good one and *)
(* no on-demand read has put another into the cache: whatever becomes bad, *)
(* is collected anew, or is forgotten with its group.                      *)
ChangesComplete ==
    \A t \in Tags \ hidden : cache[t] \in Vals => view[t] = cache[t]

AtRest(c) ==
    \/ pc[c] \in Settled
    \/ pc[c] = "queued" /\ stage[AppOf[c]] = "closed"

(* Every message that arrives is refused or answered, unless it is left in *)
(* the queue of an application that has been closed; and Close returns.    *)
CommandsSettle ==
    /\ \A c \in Commands : (pc[c] # "new") ~> AtRest(c)
    /\ \A a \in Apps : (stage[a] = "closing") ~> (stage[a] = "closed")

-----------------------------------------------------------------------------
(* The inductive invariant (NorthCommands_proofs).                         *)

(* Only a generic application admits into slots.                           *)
SlotsApart == \A c \in Commands : pc[c] = "admit" => AppOf[c] \notin Queued

(* A queue holds commands of its own application.                          *)
QueueOwn ==
    \A a \in Apps : \A i \in DOMAIN pend[a] : AppOf[pend[a][i]] = a

(* Whoever is at a connection is there for one of its tags.                *)
AtTag ==
    \A c \in Commands :
        /\ at[c] >= 1
        /\ pc[c] \in {"acquire", "io", "cache"} => at[c] <= Len(Todo[c])

(* No more commands of a queue are being executed than it has workers,     *)
(* and Close has returned when none is left.                               *)
WorkersBound ==
    \A a \in Queued : /\ Cardinality(Busy(a)) <= workers[a]
                      /\ stage[a] = "closed" => workers[a] = 0

IInv ==
    /\ TypeOK /\ SlotsApart /\ QueueOwn /\ AtTag /\ WorkersBound
    /\ ClosedIsQuiet /\ ChangesComplete
=============================================================================
