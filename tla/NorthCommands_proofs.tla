------------------------ MODULE NorthCommands_proofs ------------------------
(***************************************************************************)
(* Proofs about NorthCommands, for any commands, applications, tags and    *)
(* values, and any size of the queue and number of workers.  IInv is       *)
(* inductive: one lemma per conjunct says that a step which starts in IInv *)
(* preserves it.                                                           *)
(***************************************************************************)
EXTENDS NorthCommands, TLAPS, FiniteSetTheorems, SequenceTheorems

-----------------------------------------------------------------------------
(* Sets of commands, and how few are needed to find a worker busy.         *)

LEMMA BusyFinite ==
    ASSUME NEW a
    PROVE  IsFiniteSet(Busy(a)) /\ Cardinality(Busy(a)) \in Nat
<1>1. Busy(a) \subseteq Commands
  BY DEF Busy, Of
<1>2. QED
  BY <1>1, Finite, FS_Subset, FS_CardinalityType

LEMMA FewerAreBusy ==
    ASSUME NEW S, NEW T, IsFiniteSet(S), T \subseteq S
    PROVE  /\ IsFiniteSet(T) /\ Cardinality(T) \in Nat
           /\ Cardinality(S) \in Nat /\ Cardinality(T) <= Cardinality(S)
  BY FS_Subset, FS_CardinalityType

LEMMA OneMoreIsBusy ==
    ASSUME NEW S, NEW x, NEW T, IsFiniteSet(S), T \subseteq S \cup {x}
    PROVE  /\ Cardinality(T) \in Nat /\ Cardinality(S) \in Nat
           /\ Cardinality(T) <= Cardinality(S) + 1
<1>1. /\ IsFiniteSet(S \cup {x})
      /\ Cardinality(S \cup {x}) \in Nat
      /\ Cardinality(S) \in Nat
      /\ Cardinality(S \cup {x}) <= Cardinality(S) + 1
  BY FS_AddElement, FS_CardinalityType
<1>2. /\ Cardinality(T) \in Nat
      /\ Cardinality(T) <= Cardinality(S \cup {x})
  BY <1>1, FS_Subset, FS_CardinalityType
<1>3. QED
  BY <1>1, <1>2

(* The head of a queue and what is left of it.                             *)
LEMMA QueueParts ==
    ASSUME NEW s \in Seq(Commands), s # <<>>
    PROVE  /\ Head(s) \in Commands /\ Head(s) = s[1] /\ 1 \in DOMAIN s
           /\ Tail(s) \in Seq(Commands)
           /\ \A i \in DOMAIN Tail(s) :
                 i + 1 \in DOMAIN s /\ Tail(s)[i] = s[i + 1]
<1>1. /\ Len(s) \in Nat /\ Len(s) # 0 /\ DOMAIN s = 1..Len(s)
      /\ Tail(s) \in Seq(Commands) /\ Len(Tail(s)) = Len(s) - 1
      /\ DOMAIN Tail(s) = 1..Len(Tail(s))
  OBVIOUS
<1>2. \A i \in 1..Len(Tail(s)) : Tail(s)[i] = s[i + 1]
  OBVIOUS
<1>3. QED
  BY <1>1, <1>2

LEMMA QueueGrows ==
    ASSUME NEW s \in Seq(Commands), NEW c \in Commands
    PROVE  /\ Append(s, c) \in Seq(Commands)
           /\ \A i \in DOMAIN Append(s, c) :
                 \/ i \in DOMAIN s /\ Append(s, c)[i] = s[i]
                 \/ Append(s, c)[i] = c
  OBVIOUS

-----------------------------------------------------------------------------
LEMMA TypeInit == Init => TypeOK
<1> SUFFICES ASSUME Init PROVE TypeOK
  OBVIOUS
<1>1. /\ group \in Rows \cup {None} /\ hidden \subseteq Tags
      /\ sem \in Commands \cup {Collector, None}
  BY DEF Init
<1>2. /\ cache \in [Tags -> Vals \cup {Bad, None}]
      /\ view \in [Tags -> Vals \cup {None}]
  BY DEF Init
<1>3. pc \in [Commands -> Running \cup Settled
                           \cup {"new", "checked", "queued", "admit"}]
  BY DEF Init
<1>4. /\ at \in [Commands -> Nat] /\ workers \in [Apps -> Nat]
      /\ stage \in [Apps -> {"open", "closing", "closed"}]
  BY LimitsOK DEF Init
<1>5. pend \in [Apps -> Seq(Commands)]
  BY DEF Init
<1>6. QED
  BY <1>1, <1>2, <1>3, <1>4, <1>5 DEF TypeOK

(* Of the steps only Take and Admit let a command begin to run, and only   *)
(* one; the others do not make an application any busier.                  *)
LEMMA BusyShrinks ==
    ASSUME TypeOK, NEW a, NEW c \in Commands, NEW l, Go(c, l),
           pc[c] \in Running \/ l \notin Running
    PROVE  Busy(a)' \subseteq Busy(a)
  BY DEF Busy, Of, Go, TypeOK

LEMMA BusySame ==
    ASSUME NEW a, UNCHANGED pc
    PROVE  Busy(a)' = Busy(a)
  BY DEF Busy, Of

LEMMA BusyGrows ==
    ASSUME TypeOK, NEW a, NEW c \in Commands, NEW l, Go(c, l)
    PROVE  /\ Busy(a)' \subseteq Busy(a) \cup {c}
           /\ AppOf[c] # a => Busy(a)' \subseteq Busy(a)
  BY DEF Busy, Of, Go, TypeOK

(* The steps of commands that touch neither the queue nor the stages.      *)
OnlyCommand(c) ==
    \/ Arrive(c) \/ ArriveSlot(c) \/ LookUp(c) \/ NextTag(c) \/ Acquire(c)
    \/ AcquireFails(c) \/ DriverReturns(c) \/ CacheValue(c) \/ Reply(c)

LEMMA OnlyCommandShrinks ==
    ASSUME TypeOK, NEW a, NEW c \in Commands, OnlyCommand(c)
    PROVE  /\ Busy(a)' \subseteq Busy(a)
           /\ UNCHANGED apps
<1>1. /\ UNCHANGED apps
      /\ \E l \in Running \cup {"refused", "checked", "admit", "done"} :
            Go(c, l) /\ (pc[c] \in Running \/ l \notin Running)
  <2> USE DEF Running, CanArrive, apps
  <2>1. CASE Arrive(c)
    BY <2>1 DEF Arrive
  <2>2. CASE ArriveSlot(c)
    BY <2>2 DEF ArriveSlot
  <2>3. CASE LookUp(c)
    BY <2>3 DEF LookUp
  <2>4. CASE NextTag(c)
    BY <2>4 DEF NextTag
  <2>5. CASE Acquire(c) \/ AcquireFails(c) \/ Reply(c)
    BY <2>5 DEF Acquire, AcquireFails, Reply
  <2>6. CASE DriverReturns(c)
    BY <2>6 DEF DriverReturns
  <2>7. CASE CacheValue(c)
    BY <2>7 DEF CacheValue
  <2>8. QED
    BY <2>1, <2>2, <2>3, <2>4, <2>5, <2>6, <2>7 DEF OnlyCommand
<1>2. QED
  BY <1>1, BusyShrinks

-----------------------------------------------------------------------------
(* One step of commands, queues and the group, for each conjunct.          *)

LEMMA TypeStep == IInv /\ [Next]_vars => TypeOK'
<1> SUFFICES ASSUME IInv, [Next]_vars PROVE TypeOK'
  OBVIOUS
<1> USE CommandsOK DEF IInv, TypeOK, Go, data, apps, Running, Settled
<1>1. ASSUME NEW c \in Commands, Arrive(c) \/ ArriveSlot(c) PROVE TypeOK'
  BY <1>1 DEF Arrive, ArriveSlot
<1>2. ASSUME NEW c \in Commands, CommandStep(c) PROVE TypeOK'
  <2>1. CASE Enqueue(c)
    <3>1. AppOf[c] \in Apps
      OBVIOUS
    <3>2. CASE Len(pend[AppOf[c]]) < PendCap
      <4>1. pend' = [pend EXCEPT ![AppOf[c]] = Append(@, c)] /\ Go(c, "queued")
        BY <2>1, <3>2 DEF Enqueue
      <4>2. Append(pend[AppOf[c]], c) \in Seq(Commands)
        BY <3>1, QueueGrows
      <4>3. UNCHANGED <<group, data, sem, at, workers, stage>>
        BY <2>1 DEF Enqueue
      <4>4. pend' \in [Apps -> Seq(Commands)]
        BY <4>1, <4>2
      <4>5. QED
        BY <4>1, <4>3, <4>4
    <3>3. CASE ~(Len(pend[AppOf[c]]) < PendCap)
      BY <2>1, <3>3 DEF Enqueue
    <3>4. QED
      BY <3>2, <3>3
  <2>2. CASE Admit(c)
    BY <2>2 DEF Admit
  <2>3. CASE LookUp(c)
    BY <2>3 DEF LookUp
  <2>4. CASE NextTag(c)
    BY <2>4 DEF NextTag
  <2>5. CASE Acquire(c) \/ AcquireFails(c) \/ Reply(c)
    BY <2>5 DEF Acquire, AcquireFails, Reply
  <2>6. CASE DriverReturns(c)
    <3>1. sem' = None /\ UNCHANGED <<group, data, apps>>
      BY <2>6 DEF DriverReturns
    <3>2. at' \in [Commands -> Nat]
      BY <2>6 DEF DriverReturns
    <3>3. Go(c, "reply") \/ Go(c, "cache") \/ Go(c, "next")
      BY <2>6 DEF DriverReturns
    <3>4. QED
      BY <3>1, <3>2, <3>3
  <2>7. CASE CacheValue(c)
    <3>1. PICK v \in Vals \cup {Bad} :
            /\ cache' = [cache EXCEPT ![Todo[c][at[c]]] = v]
            /\ hidden' = IF v = cache[Todo[c][at[c]]] THEN hidden
                         ELSE hidden \cup {Todo[c][at[c]]}
            /\ Go(c, IF v = Bad THEN "reply" ELSE "next")
      BY <2>7 DEF CacheValue
    <3>2. Todo[c][at[c]] \in Tags
      BY <2>7 DEF CacheValue, AtTag
    <3>3. /\ UNCHANGED <<group, view, sem, apps>>
          /\ at' = [at EXCEPT ![c] = @ + 1]
      BY <2>7 DEF CacheValue
    <3>4. QED
      BY <3>1, <3>2, <3>3
  <2>8. QED
    BY <1>2, <2>1, <2>2, <2>3, <2>4, <2>5, <2>6, <2>7 DEF CommandStep
<1>3. ASSUME NEW a \in Apps, Close(a) \/ AppStep(a) PROVE TypeOK'
  <2>1. CASE Close(a) \/ CloseReturns(a)
    BY <2>1 DEF Close, CloseReturns
  <2>2. CASE Take(a)
    BY <2>2, QueueParts DEF Take
  <2>3. CASE WorkerExits(a)
    BY <2>3, BusyFinite DEF WorkerExits
  <2>4. QED
    BY <1>3, <2>1, <2>2, <2>3 DEF AppStep
<1>4. ASSUME Group PROVE TypeOK'
  <2>1. CASE CollectBegins \/ CollectCancelled
    BY <2>1 DEF CollectBegins, CollectCancelled
  <2>2. CASE CollectEnds
    <3>1. PICK v \in [Tags -> Vals \cup {Bad}] :
            /\ cache' = v
            /\ view' = [t \in Tags |->
                   IF t \in {u \in Tags : v[u] # cache[u]} /\ v[t] # Bad
                   THEN v[t] ELSE view[t]]
            /\ hidden' = hidden \ {t \in Tags : v[t] # cache[t]}
      BY <2>2 DEF CollectEnds
    <3>2. sem' = None /\ UNCHANGED <<group, pc, at, apps>>
      BY <2>2 DEF CollectEnds
    <3>3. QED
      BY <3>1, <3>2
  <2>3. ASSUME NEW forget \in BOOLEAN, StopGroup(forget) PROVE TypeOK'
    BY <2>3 DEF StopGroup
  <2>4. ASSUME NEW row \in Rows, StartGroup(row) PROVE TypeOK'
    BY <2>4 DEF StartGroup
  <2>5. QED
    BY <1>4, <2>1, <2>2, <2>3, <2>4 DEF Group
<1>5. CASE UNCHANGED vars
  BY <1>5 DEF vars
<1>6. QED
  BY <1>1, <1>2, <1>3, <1>4, <1>5 DEF Next

(* A command is admitted only by ArriveSlot, and its application is fixed. *)
LEMMA SlotsStep == IInv /\ [Next]_vars => SlotsApart'
<1> SUFFICES ASSUME IInv, [Next]_vars PROVE SlotsApart'
  OBVIOUS
<1> USE DEF IInv, TypeOK, SlotsApart, Go, data, apps
<1>1. ASSUME NEW c \in Commands, Arrive(c) \/ ArriveSlot(c)
      PROVE  SlotsApart'
  BY <1>1 DEF Arrive, ArriveSlot
<1>2. ASSUME NEW c \in Commands, CommandStep(c) PROVE SlotsApart'
  BY <1>2 DEF CommandStep, Enqueue, Admit, LookUp, NextTag, Acquire,
      AcquireFails, DriverReturns, CacheValue, Reply
<1>3. ASSUME NEW a \in Apps, Close(a) \/ AppStep(a) PROVE SlotsApart'
  BY <1>3 DEF Close, AppStep, Take, WorkerExits, CloseReturns
<1>4. ASSUME Group PROVE SlotsApart'
  BY <1>4 DEF Group, CollectBegins, CollectEnds, CollectCancelled, StopGroup,
      StartGroup
<1>5. CASE UNCHANGED vars
  BY <1>5 DEF vars
<1>6. QED
  BY <1>1, <1>2, <1>3, <1>4, <1>5 DEF Next

(* A command enters the queue of its own application, at the end.          *)
LEMMA QueueStep == IInv /\ [Next]_vars => QueueOwn'
<1> SUFFICES ASSUME IInv, [Next]_vars PROVE QueueOwn'
  OBVIOUS
<1> USE CommandsOK DEF IInv, TypeOK, QueueOwn, data, apps
<1>1. ASSUME UNCHANGED pend PROVE QueueOwn'
  BY <1>1
<1>2. ASSUME NEW c \in Commands, Arrive(c) \/ ArriveSlot(c) \/ CommandStep(c)
      PROVE  QueueOwn'
  <2>1. CASE Enqueue(c)
    <3>1. CASE Len(pend[AppOf[c]]) < PendCap
      <4>1. pend' = [pend EXCEPT ![AppOf[c]] = Append(@, c)]
        BY <2>1, <3>1 DEF Enqueue
      <4>2. AppOf[c] \in Apps /\ pend[AppOf[c]] \in Seq(Commands)
        OBVIOUS
      <4>3. ASSUME NEW a \in Apps, NEW i \in DOMAIN pend'[a]
            PROVE  AppOf[pend'[a][i]] = a
        <5>1. CASE a = AppOf[c]
          <6>1. pend'[a] = Append(pend[a], c) /\ pend[a] \in Seq(Commands)
            BY <4>1, <4>2, <5>1
          <6>2. \A j \in DOMAIN Append(pend[a], c) :
                   \/ /\ j \in DOMAIN pend[a]
                      /\ Append(pend[a], c)[j] = pend[a][j]
                   \/ Append(pend[a], c)[j] = c
            BY <6>1, QueueGrows
          <6>3. i \in DOMAIN Append(pend[a], c)
            BY <4>3, <6>1
          <6>4. \A j \in DOMAIN pend[a] : AppOf[pend[a][j]] = a
            OBVIOUS
          <6>5. QED
            BY <5>1, <6>1, <6>2, <6>3, <6>4
        <5>2. CASE a # AppOf[c]
          BY <4>1, <5>2
        <5>3. QED
          BY <5>1, <5>2
      <4>4. QED
        BY <4>3
    <3>2. CASE ~(Len(pend[AppOf[c]]) < PendCap)
      BY <1>1, <2>1, <3>2 DEF Enqueue
    <3>3. QED
      BY <3>1, <3>2
  <2>2. CASE ~Enqueue(c)
    <3>1. UNCHANGED pend
      BY <1>2, <2>2 DEF Arrive, ArriveSlot, CommandStep, Admit, LookUp,
          NextTag, Acquire, AcquireFails, DriverReturns, CacheValue, Reply
    <3>2. QED
      BY <1>1, <3>1
  <2>3. QED
    BY <2>1, <2>2
<1>3. ASSUME NEW a \in Apps, Close(a) \/ AppStep(a) PROVE QueueOwn'
  <2>1. CASE Take(a)
    BY <2>1, QueueParts DEF Take
  <2>2. CASE Close(a) \/ WorkerExits(a) \/ CloseReturns(a)
    BY <2>2, <1>1 DEF Close, WorkerExits, CloseReturns
  <2>3. QED
    BY <1>3, <2>1, <2>2 DEF AppStep
<1>4. ASSUME Group PROVE QueueOwn'
  BY <1>4, <1>1 DEF Group, CollectBegins, CollectEnds, CollectCancelled,
      StopGroup, StartGroup
<1>5. CASE UNCHANGED vars
  BY <1>5, <1>1 DEF vars
<1>6. QED
  BY <1>1, <1>2, <1>3, <1>4, <1>5 DEF Next

(* NextTag checks that a tag is left, and the index moves when it is used. *)
LEMMA TagStep == IInv /\ [Next]_vars => AtTag'
<1> SUFFICES ASSUME IInv, [Next]_vars PROVE AtTag'
  OBVIOUS
<1> USE CommandsOK DEF IInv, TypeOK, AtTag, Go, data, apps
<1>1. ASSUME NEW c \in Commands, Arrive(c) \/ ArriveSlot(c) PROVE AtTag'
  BY <1>1 DEF Arrive, ArriveSlot
<1>2. ASSUME NEW c \in Commands, CommandStep(c) PROVE AtTag'
  <2>1. CASE Enqueue(c) \/ Admit(c) \/ LookUp(c) \/ AcquireFails(c) \/ Reply(c)
    BY <2>1 DEF Enqueue, Admit, LookUp, AcquireFails, Reply
  <2>2. CASE NextTag(c)
    <3>1. pc'[c] = "acquire" => at[c] <= Len(Todo[c])
      BY <2>2 DEF NextTag
    <3>2. at[c] >= 1
      BY <2>2
    <3>3. QED
      BY <2>2, <3>1, <3>2 DEF NextTag
  <2>3. CASE Acquire(c)
    BY <2>3 DEF Acquire
  <2>4. CASE DriverReturns(c)
    BY <2>4 DEF DriverReturns
  <2>5. CASE CacheValue(c)
    BY <2>5 DEF CacheValue
  <2>6. QED
    BY <1>2, <2>1, <2>2, <2>3, <2>4, <2>5 DEF CommandStep
<1>3. ASSUME NEW a \in Apps, Close(a) \/ AppStep(a) PROVE AtTag'
  BY <1>3 DEF Close, AppStep, Take, WorkerExits, CloseReturns
<1>4. ASSUME Group PROVE AtTag'
  BY <1>4 DEF Group, CollectBegins, CollectEnds, CollectCancelled, StopGroup,
      StartGroup
<1>5. CASE UNCHANGED vars
  BY <1>5 DEF vars
<1>6. QED
  BY <1>1, <1>2, <1>3, <1>4, <1>5 DEF Next

(* Take needs a worker that waits, a worker exits only while it waits, and *)
(* Close returns when there is none.                                       *)
LEMMA WorkersStep == IInv /\ [Next]_vars => WorkersBound'
<1> SUFFICES ASSUME IInv, [Next]_vars, NEW q \in Queued
             PROVE  /\ Cardinality(Busy(q)') <= workers'[q]
                    /\ stage'[q] = "closed" => workers'[q] = 0
  BY DEF WorkersBound, Busy, Of
<1>0. /\ q \in Apps /\ IsFiniteSet(Busy(q)) /\ Cardinality(Busy(q)) \in Nat
      /\ Cardinality(Busy(q)) <= workers[q]
      /\ stage[q] = "closed" => workers[q] = 0
      /\ workers \in [Apps -> Nat]
      /\ stage \in [Apps -> {"open", "closing", "closed"}] /\ TypeOK
  BY CommandsOK, BusyFinite DEF IInv, TypeOK, WorkersBound
<1>1. ASSUME Busy(q)' \subseteq Busy(q), UNCHANGED <<workers, stage>>
      PROVE  /\ Cardinality(Busy(q)') <= workers'[q]
             /\ stage'[q] = "closed" => workers'[q] = 0
  BY <1>0, <1>1, FewerAreBusy
<1>2. ASSUME NEW c \in Commands, OnlyCommand(c)
      PROVE  /\ Cardinality(Busy(q)') <= workers'[q]
             /\ stage'[q] = "closed" => workers'[q] = 0
  BY <1>0, <1>1, <1>2, OnlyCommandShrinks DEF apps
<1>3. ASSUME NEW c \in Commands, Enqueue(c)
      PROVE  /\ Cardinality(Busy(q)') <= workers'[q]
             /\ stage'[q] = "closed" => workers'[q] = 0
  <2>1. Go(c, "queued") \/ Go(c, "refused")
    BY <1>3 DEF Enqueue
  <2>2. Busy(q)' \subseteq Busy(q)
    BY <1>0, <2>1, BusyShrinks DEF Running
  <2>3. QED
    BY <1>1, <1>3, <2>2 DEF Enqueue
<1>4. ASSUME NEW c \in Commands, Admit(c)
      PROVE  /\ Cardinality(Busy(q)') <= workers'[q]
             /\ stage'[q] = "closed" => workers'[q] = 0
  <2>1. AppOf[c] # q
    BY <1>4 DEF Admit, IInv, SlotsApart
  <2>2. \E l \in {"lookup", "refused"} : Go(c, l)
    BY <1>4 DEF Admit
  <2>3. Busy(q)' \subseteq Busy(q)
    BY <1>0, <2>1, <2>2, BusyGrows
  <2>4. QED
    BY <1>1, <1>4, <2>3 DEF Admit, apps
<1>5. ASSUME NEW a \in Apps, Take(a)
      PROVE  /\ Cardinality(Busy(q)') <= workers'[q]
             /\ stage'[q] = "closed" => workers'[q] = 0
  <2>1. /\ Head(pend[a]) \in Commands /\ AppOf[Head(pend[a])] = a
        /\ Go(Head(pend[a]), "lookup") /\ UNCHANGED <<workers, stage>>
    BY <1>5, QueueParts DEF Take, IInv, TypeOK, QueueOwn
  <2>2. CASE a = q
    <3>1. Busy(q)' \subseteq Busy(q) \cup {Head(pend[a])}
      BY <1>0, <2>1, BusyGrows
    <3>2. /\ Cardinality(Busy(q)') \in Nat
          /\ Cardinality(Busy(q)') <= Cardinality(Busy(q)) + 1
      BY <1>0, <3>1, OneMoreIsBusy
    <3>3. Cardinality(Busy(q)) < workers[q] /\ workers[q] \in Nat
      BY <1>0, <1>5, <2>2 DEF Take
    <3>4. QED
      BY <1>0, <2>1, <3>2, <3>3
  <2>3. CASE a # q
    BY <1>0, <1>1, <2>1, <2>3, BusyGrows
  <2>4. QED
    BY <2>2, <2>3
<1>6. ASSUME NEW a \in Apps, WorkerExits(a)
      PROVE  /\ Cardinality(Busy(q)') <= workers'[q]
             /\ stage'[q] = "closed" => workers'[q] = 0
  <2>1. /\ Busy(q)' = Busy(q) /\ UNCHANGED stage
        /\ workers' = [workers EXCEPT ![a] = @ - 1]
        /\ Cardinality(Busy(a)) < workers[a]
    BY <1>6, BusySame DEF WorkerExits
  <2>2. CASE a = q
    BY <1>0, <2>1, <2>2
  <2>3. CASE a # q
    BY <1>0, <2>1, <2>3
  <2>4. QED
    BY <2>2, <2>3
<1>7. ASSUME NEW a \in Apps, Close(a) \/ CloseReturns(a)
      PROVE  /\ Cardinality(Busy(q)') <= workers'[q]
             /\ stage'[q] = "closed" => workers'[q] = 0
  <2>1. Busy(q)' = Busy(q) /\ UNCHANGED workers
    BY <1>7, BusySame DEF Close, CloseReturns
  <2>2. stage'[q] = "closed" => stage[q] = "closed" \/ workers[q] = 0
    BY <1>0, <1>7 DEF Close, CloseReturns
  <2>3. QED
    BY <1>0, <2>1, <2>2
<1>8. ASSUME Group
      PROVE  /\ Cardinality(Busy(q)') <= workers'[q]
             /\ stage'[q] = "closed" => workers'[q] = 0
  <2>1. UNCHANGED <<pc, workers, stage>>
    BY <1>8 DEF Group, CollectBegins, CollectEnds, CollectCancelled,
        StopGroup, StartGroup, apps
  <2>2. QED
    BY <1>1, <2>1, BusySame
<1>9. CASE UNCHANGED vars
  BY <1>1, <1>9, BusySame DEF vars, apps
<1>10. QED
  BY <1>2, <1>3, <1>4, <1>5, <1>6, <1>7, <1>8, <1>9
     DEF Next, CommandStep, AppStep, OnlyCommand

(* Take finds no worker of a closed queue, Admit looks at closing, and     *)
(* Close returns only when nothing is being executed.                      *)
LEMMA QuietStep == IInv /\ [Next]_vars => ClosedIsQuiet'
<1> SUFFICES ASSUME IInv, [Next]_vars, NEW q \in Apps, stage'[q] = "closed"
             PROVE  Busy(q)' = {}
  BY DEF ClosedIsQuiet, Busy, Of
<1>0. /\ stage[q] = "closed" => Busy(q) = {}
      /\ stage \in [Apps -> {"open", "closing", "closed"}] /\ TypeOK
      /\ IsFiniteSet(Busy(q)) /\ Cardinality(Busy(q)) \in Nat
  BY BusyFinite DEF IInv, TypeOK, ClosedIsQuiet
<1>1. ASSUME Busy(q)' \subseteq Busy(q), UNCHANGED stage PROVE Busy(q)' = {}
  BY <1>0, <1>1
<1>2. ASSUME NEW c \in Commands, OnlyCommand(c) PROVE Busy(q)' = {}
  BY <1>0, <1>1, <1>2, OnlyCommandShrinks DEF apps
<1>3. ASSUME NEW c \in Commands, Enqueue(c) PROVE Busy(q)' = {}
  <2>1. Go(c, "queued") \/ Go(c, "refused")
    BY <1>3 DEF Enqueue
  <2>2. Busy(q)' \subseteq Busy(q)
    BY <1>0, <2>1, BusyShrinks DEF Running
  <2>3. QED
    BY <1>1, <1>3, <2>2 DEF Enqueue
<1>4. ASSUME NEW c \in Commands, Admit(c) PROVE Busy(q)' = {}
  <2>1. UNCHANGED stage
    BY <1>4 DEF Admit, apps
  <2>2. CASE AppOf[c] = q
    <3>1. Go(c, "refused")
      BY <1>4, <2>1, <2>2 DEF Admit
    <3>2. QED
      BY <1>0, <1>1, <2>1, <3>1, BusyShrinks DEF Running
  <2>3. CASE AppOf[c] # q
    <3>1. \E l \in {"lookup", "refused"} : Go(c, l)
      BY <1>4 DEF Admit
    <3>2. QED
      BY <1>0, <1>1, <2>1, <2>3, <3>1, BusyGrows
  <2>4. QED
    BY <2>2, <2>3
<1>5. ASSUME NEW a \in Apps, Take(a) PROVE Busy(q)' = {}
  <2>1. /\ Head(pend[a]) \in Commands /\ AppOf[Head(pend[a])] = a
        /\ Go(Head(pend[a]), "lookup") /\ UNCHANGED stage
    BY <1>5, QueueParts DEF Take, IInv, TypeOK, QueueOwn
  <2>2. a # q
    <3>1. ASSUME a = q PROVE FALSE
      <4>1. workers[q] = 0 /\ Cardinality(Busy(q)) < workers[q]
        BY <1>5, <2>1, <3>1 DEF Take, IInv, WorkersBound
      <4>2. QED
        BY <1>0, <4>1
    <3>2. QED
      BY <3>1
  <2>3. QED
    BY <1>0, <1>1, <2>1, <2>2, BusyGrows
<1>6. ASSUME NEW a \in Apps, WorkerExits(a) PROVE Busy(q)' = {}
  BY <1>1, <1>6, BusySame DEF WorkerExits
<1>7. ASSUME NEW a \in Apps, Close(a) \/ CloseReturns(a)
      PROVE  Busy(q)' = {}
  <2>1. Busy(q)' = Busy(q)
    BY <1>7, BusySame DEF Close, CloseReturns
  <2>2. CASE stage[q] = "closed"
    BY <1>0, <2>1, <2>2
  <2>3. CASE stage[q] # "closed"
    <3>1. IF q \in Queued THEN workers[q] = 0 ELSE Busy(q) = {}
      BY <1>0, <1>7, <2>3 DEF Close, CloseReturns
    <3>2. CASE q \in Queued
      <4>1. Cardinality(Busy(q)) = 0
        BY <1>0, <3>1, <3>2 DEF IInv, WorkersBound
      <4>2. QED
        BY <1>0, <2>1, <4>1, FS_EmptySet
    <3>3. QED
      BY <2>1, <3>1, <3>2
  <2>4. QED
    BY <2>2, <2>3
<1>8. ASSUME Group PROVE Busy(q)' = {}
  <2>1. UNCHANGED <<pc, stage>>
    BY <1>8 DEF Group, CollectBegins, CollectEnds, CollectCancelled,
        StopGroup, StartGroup, apps
  <2>2. QED
    BY <1>1, <2>1, BusySame
<1>9. CASE UNCHANGED vars
  BY <1>1, <1>9, BusySame DEF vars, apps
<1>10. QED
  BY <1>2, <1>3, <1>4, <1>5, <1>6, <1>7, <1>8, <1>9
     DEF Next, CommandStep, AppStep, OnlyCommand

(* A tag that is not hidden keeps its value in the cache when a command    *)
(* caches, and a collection sends it when it changes to a good one.        *)
LEMMA ChangesStep == IInv /\ [Next]_vars => ChangesComplete'
<1> SUFFICES ASSUME IInv, [Next]_vars,
                    NEW t \in Tags \ hidden', cache'[t] \in Vals
             PROVE  view'[t] = cache'[t]
  BY DEF ChangesComplete
<1> USE DEF data
<1>0. /\ t \notin hidden /\ cache[t] \in Vals => view[t] = cache[t]
      /\ cache \in [Tags -> Vals \cup {Bad, None}]
      /\ view \in [Tags -> Vals \cup {None}]
  BY DEF IInv, TypeOK, ChangesComplete
<1>1. ASSUME UNCHANGED data PROVE view'[t] = cache'[t]
  BY <1>0, <1>1
<1>2. ASSUME NEW c \in Commands,
             Arrive(c) \/ ArriveSlot(c) \/ CommandStep(c)
      PROVE  view'[t] = cache'[t]
  <2>1. CASE CacheValue(c)
    <3>1. PICK v \in Vals \cup {Bad} :
            /\ cache' = [cache EXCEPT ![Todo[c][at[c]]] = v]
            /\ hidden' = IF v = cache[Todo[c][at[c]]] THEN hidden
                         ELSE hidden \cup {Todo[c][at[c]]}
      BY <2>1 DEF CacheValue
    <3>2. cache'[t] = cache[t] /\ UNCHANGED view
      <4>1. UNCHANGED view
        BY <2>1 DEF CacheValue
      <4>2. CASE t = Todo[c][at[c]]
        BY <1>0, <3>1, <4>1, <4>2
      <4>3. CASE t # Todo[c][at[c]]
        BY <1>0, <3>1, <4>1, <4>3
      <4>4. QED
        BY <4>2, <4>3
    <3>3. t \notin hidden
      BY <3>1
    <3>4. QED
      BY <1>0, <3>2, <3>3
  <2>2. CASE ~CacheValue(c)
    BY <1>1, <1>2, <2>2 DEF Arrive, ArriveSlot, CommandStep, Enqueue, Admit,
        LookUp, NextTag, Acquire, AcquireFails, DriverReturns, Reply
  <2>3. QED
    BY <2>1, <2>2
<1>3. ASSUME NEW a \in Apps, Close(a) \/ AppStep(a)
      PROVE  view'[t] = cache'[t]
  BY <1>1, <1>3 DEF Close, AppStep, Take, WorkerExits, CloseReturns
<1>4. ASSUME Group PROVE view'[t] = cache'[t]
  <2>1. CASE CollectEnds
    <3>1. PICK v \in [Tags -> Vals \cup {Bad}] :
            /\ cache' = v
            /\ view' = [u \in Tags |->
                   IF u \in {w \in Tags : v[w] # cache[w]} /\ v[u] # Bad
                   THEN v[u] ELSE view[u]]
            /\ hidden' = hidden \ {u \in Tags : v[u] # cache[u]}
      BY <2>1 DEF CollectEnds
    <3>2. CASE v[t] = cache[t]
      BY <1>0, <3>1, <3>2
    <3>3. CASE v[t] # cache[t]
      BY <3>1, <3>3, Apart
    <3>4. QED
      BY <3>2, <3>3
  <2>2. CASE CollectBegins \/ CollectCancelled
    BY <1>1, <2>2 DEF CollectBegins, CollectCancelled
  <2>3. ASSUME NEW forget \in BOOLEAN, StopGroup(forget)
        PROVE  view'[t] = cache'[t]
    <3>1. ASSUME forget = TRUE PROVE FALSE
      <4>1. cache' = [u \in Tags |-> None]
        BY <2>3, <3>1 DEF StopGroup
      <4>2. cache'[t] = None
        BY <4>1
      <4>3. QED
        BY <4>2, Apart
    <3>2. UNCHANGED data
      <4>1. forget = FALSE
        BY <3>1
      <4>2. QED
        BY <2>3, <4>1 DEF StopGroup
    <3>3. QED
      BY <1>1, <3>2
  <2>4. ASSUME NEW row \in Rows, StartGroup(row) PROVE view'[t] = cache'[t]
    BY <1>1, <2>4 DEF StartGroup
  <2>5. QED
    BY <1>4, <2>1, <2>2, <2>3, <2>4 DEF Group
<1>5. CASE UNCHANGED vars
  BY <1>1, <1>5 DEF vars
<1>6. QED
  BY <1>2, <1>3, <1>4, <1>5 DEF Next

-----------------------------------------------------------------------------
LEMMA InvInit == Init => IInv
<1> SUFFICES ASSUME Init PROVE IInv
  OBVIOUS
<1>1. SlotsApart /\ QueueOwn /\ AtTag
  BY DEF Init, SlotsApart, QueueOwn, AtTag
<1>2. \A a \in Apps : Busy(a) = {}
  BY DEF Init, Busy, Of, Running
<1>3. WorkersBound
  <2>1. \A a \in Queued : Busy(a) = {} /\ workers[a] = Limit
    BY <1>2, CommandsOK DEF Init
  <2>2. \A a \in Queued : Cardinality(Busy(a)) = 0
    BY <2>1, FS_EmptySet
  <2>3. \A a \in Queued : stage[a] = "open"
    BY CommandsOK DEF Init
  <2>4. QED
    BY <2>1, <2>2, <2>3, LimitsOK DEF WorkersBound
<1>4. ClosedIsQuiet /\ ChangesComplete
  BY <1>2, Apart DEF Init, ClosedIsQuiet, ChangesComplete
<1>5. QED
  BY <1>1, <1>3, <1>4, TypeInit DEF IInv

(* The invariant, which also is the type invariant: what a worker holds,   *)
(* what a queue holds and what the cache and the consumer know.            *)
THEOREM Inductive == Spec => []IInv
<1>1. IInv /\ [Next]_vars => IInv'
  BY TypeStep, SlotsStep, QueueStep, TagStep, WorkersStep, QuietStep,
     ChangesStep DEF IInv
<1>2. QED
  BY InvInit, <1>1, PTL DEF Spec

(* When Close of an application has returned, none of its commands is      *)
(* between its look-up and its reply: for any number of commands, workers  *)
(* and places in the queue.                                                *)
THEOREM Quiet == Spec => []ClosedIsQuiet
<1>1. IInv => ClosedIsQuiet
  BY DEF IInv
<1>2. QED
  BY Inductive, <1>1, PTL

(* A consumer of "changes" knows every good value in the cache that no     *)
(* on-demand read has put there, for any tags and values, and whatever     *)
(* becomes of the group (collectOnce, cacheValue).                         *)
THEOREM Changes == Spec => []ChangesComplete
<1>1. IInv => ChangesComplete
  BY DEF IInv
<1>2. QED
  BY Inductive, <1>1, PTL
=============================================================================
