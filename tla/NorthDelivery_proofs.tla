------------------------ MODULE NorthDelivery_proofs ------------------------
(***************************************************************************)
(* Proofs about NorthDelivery, for any messages, any finite set of senders *)
(* and any capacity and number of attempts.  IInv is inductive: the        *)
(* accounting (Conserved) needs to know that the worker holds a message    *)
(* exactly while it works on it (WorkerShape).  Under IInv every step is a *)
(* step of Outbox on the sequence Pending, or leaves it alone.             *)
(***************************************************************************)
EXTENDS NorthDelivery, TLAPS, FiniteSetTheorems, SequenceTheorems

(* Facts about sequences.                                                  *)
LEMMA HeadFirst ==
    ASSUME NEW S, NEW s \in Seq(S), s # <<>>
    PROVE  /\ <<Head(s)>> \in Seq(S)
           /\ Len(<<Head(s)>>) = 1
           /\ Tail(s) \in Seq(S)
           /\ Len(Tail(s)) = Len(s) - 1
           /\ <<Head(s)>> \o Tail(s) = s
  OBVIOUS

LEMMA FirstIn ==
    ASSUME NEW S, NEW s \in Seq(S), Len(s) = 1
    PROVE  s[1] \in S
  BY ElementOfSeq

LEMMA OutcomeAdded ==
    ASSUME NEW q \in Seq(Outcomes), NEW m \in Messages, NEW b \in BOOLEAN
    PROVE  Append(q, [msg |-> m, ok |-> b]) \in Seq(Outcomes)
<1>1. [msg |-> m, ok |-> b] \in Outcomes
  BY DEF Outcomes
<1>2. QED
  BY <1>1, AppendProperties

LEMMA AppendLast ==
    ASSUME NEW S, NEW s \in Seq(S), NEW t \in Seq(S), NEW e \in S
    PROVE  s \o Append(t, e) = Append(s \o t, e)
  OBVIOUS

LEMMA FirstGone ==
    ASSUME NEW S, NEW s \in Seq(S), NEW t \in Seq(S), Len(s) = 1
    PROVE  /\ s \o t \in Seq(S)
           /\ s \o t # <<>>
           /\ Head(s \o t) = s[1]
           /\ s[1] \in S
           /\ Tail(s \o t) = t
<1>1. /\ s \o t \in Seq(S)
      /\ Len(s \o t) = Len(s) + Len(t)
      /\ Len(t) \in Nat
      /\ \A i \in 1..(Len(s) + Len(t)) :
            (s \o t)[i] = IF i <= Len(s) THEN s[i] ELSE t[i - Len(s)]
  BY ConcatProperties, LenProperties
<1>2. s \o t # <<>>
  BY <1>1, EmptySeq
<1>3. /\ Tail(s \o t) \in Seq(S)
      /\ Len(Tail(s \o t)) = Len(t)
      /\ \A i \in 1..Len(t) : Tail(s \o t)[i] = (s \o t)[i + 1]
  BY <1>1, <1>2, HeadTailProperties
<1>4. \A i \in 1..Len(t) : Tail(s \o t)[i] = t[i]
  BY <1>1, <1>3
<1>5. Tail(s \o t) = t
  BY <1>3, <1>4, SeqEqual
<1>6. Head(s \o t) = (s \o t)[1] /\ (s \o t)[1] = s[1]
  BY <1>1, <1>2
<1>7. QED
  BY <1>1, <1>2, <1>5, <1>6, ElementOfSeq

(* The counter takes over from the sender that has counted, and a sender   *)
(* that has sent is one more that has not.                                 *)
LEMMA SenderJoins ==
    ASSUME NEW S, IsFiniteSet(S), NEW x, x \notin S
    PROVE  Cardinality(S \cup {x}) = Cardinality(S) + 1
  BY FS_AddElement

LEMMA SenderLeaves ==
    ASSUME NEW S, IsFiniteSet(S), NEW x \in S
    PROVE  Cardinality(S \ {x}) = Cardinality(S) - 1
  BY FS_RemoveElement

LEMMA HandCounted ==
    IInv => Len(hand) = IF worker \in {"call", "backoff"} THEN 1 ELSE 0
<1> SUFFICES ASSUME IInv
             PROVE  Len(hand) = IF worker \in {"call", "backoff"} THEN 1 ELSE 0
  OBVIOUS
<1>1. hand \in Seq(Messages) /\ Len(hand) <= 1
  BY DEF IInv, TypeOK
<1>2. Len(hand) \in Nat /\ (hand # <<>> => Len(hand) # 0)
  BY <1>1
<1>3. hand = <<>> => Len(hand) = 0
  OBVIOUS
<1>4. hand # <<>> <=> worker \in {"call", "backoff"}
  BY DEF IInv, WorkerShape
<1>5. QED
  BY <1>1, <1>2, <1>3, <1>4

LEMMA SendersCounted ==
    IInv => IsFiniteSet(counting) /\ Cardinality(counting) \in Nat
  BY Sizes, FS_Subset, FS_CardinalityType DEF IInv, TypeOK

-----------------------------------------------------------------------------
(* The inductive invariant.                                                *)
LEMMA InitIInv == Init => IInv
<1> SUFFICES ASSUME Init PROVE IInv
  OBVIOUS
<1>1. Cardinality(counting) = 0
  BY FS_EmptySet DEF Init
<1>2. TypeOK
  <2>1. /\ queue \in Seq(Messages) /\ Len(queue) = 0
        /\ hand \in Seq(Messages) /\ Len(hand) = 0
        /\ settled \in Seq(Outcomes)
    BY DEF Init
  <2>2. 1 \in 1..Attempts /\ 0 <= Capacity
    BY Sizes
  <2>3. Len(queue) <= Capacity /\ Len(hand) <= 1 /\ attempt \in 1..Attempts
    BY <2>1, <2>2 DEF Init
  <2>4. /\ enqueued \in Nat /\ delivered \in Nat /\ failed \in Nat
        /\ dropped \in Nat
    BY DEF Init
  <2>5. /\ unsent \subseteq Messages
        /\ counting \subseteq Senders /\ stopped \subseteq Senders
        /\ worker \in {"select", "call", "backoff", "exited"}
        /\ closer \in {"open", "wait", "closed"}
        /\ cancelled \in BOOLEAN /\ targetOpen \in BOOLEAN
    BY DEF Init
  <2>6. QED
    BY <2>1, <2>3, <2>4, <2>5 DEF TypeOK
<1>3. WorkerShape
  BY DEF Init, WorkerShape
<1>4. Conserved
  BY <1>1, EmptySeq DEF Init, Conserved
<1>5. QED
  BY <1>2, <1>3, <1>4 DEF IInv

LEMMA TypeStep == IInv /\ [Next]_vars => TypeOK'
<1> SUFFICES ASSUME IInv, [Next]_vars PROVE TypeOK'
  OBVIOUS
<1> USE Sizes DEF IInv, TypeOK, WorkerShape, sending, work, outcome, closing
<1>1. ASSUME NEW s \in Senders, Send(s) \/ Count(s) \/ StopSender(s)
      PROVE  TypeOK'
  <2>1. CASE Accept(s)
    <3>1. PICK m \in unsent : queue' = Append(queue, m)
      BY <2>1 DEF Accept
    <3>2. queue' \in Seq(Messages) /\ Len(queue') = Len(queue) + 1
      BY <3>1, AppendProperties
    <3>3. QED
      BY <2>1, <3>2 DEF Accept
  <2>2. CASE Refuse(s) \/ Drop(s)
    BY <2>2 DEF Refuse, Drop
  <2>3. CASE Count(s) \/ StopSender(s)
    BY <2>3 DEF Count, StopSender
  <2>4. QED
    BY <1>1, <2>1, <2>2, <2>3 DEF Send
<1>2. CASE Take
  BY <1>2, HeadFirst DEF Take
<1>3. CASE Succeed \/ GiveUp
  <2>1. hand[1] \in Messages
    BY <1>3, HandCounted, FirstIn DEF Succeed, GiveUp
  <2>2. \E b \in BOOLEAN :
            settled' = Append(settled, [msg |-> hand[1], ok |-> b])
    BY <1>3 DEF Succeed, GiveUp, Settle
  <2>3. settled' \in Seq(Outcomes)
    BY <2>1, <2>2, OutcomeAdded
  <2>4. hand' = <<>> /\ Len(<<>>) = 0 /\ <<>> \in Seq(Messages)
    BY <1>3 DEF Succeed, GiveUp, Settle, PutDown
  <2>5. hand' \in Seq(Messages) /\ Len(hand') <= 1
    BY <2>4
  <2>6. /\ UNCHANGED <<queue, unsent, counting, stopped>>
        /\ UNCHANGED <<enqueued, dropped, cancelled, closer, targetOpen>>
    BY <1>3 DEF Succeed, GiveUp, Settle, PutDown
  <2>7. delivered' \in Nat /\ failed' \in Nat
    BY <1>3 DEF Succeed, GiveUp, Settle, PutDown
  <2>8. worker' = "select" /\ attempt' \in 1..Attempts
    BY <1>3 DEF Succeed, GiveUp, Settle, PutDown
  <2>9. QED
    BY <2>3, <2>5, <2>6, <2>7, <2>8
<1>4. CASE Abandon
  <2>1. hand' = <<>> /\ Len(<<>>) = 0 /\ <<>> \in Seq(Messages)
    BY <1>4 DEF Abandon, PutDown
  <2>2. QED
    BY <1>4, <2>1 DEF Abandon, PutDown
<1>5. CASE ParentCancelled \/ Close \/ CloseTarget
  BY <1>5 DEF ParentCancelled, Close, CloseTarget
<1>6. CASE Exit \/ Fail \/ Retry
  BY <1>6 DEF Exit, Fail, Retry
<1>7. CASE UNCHANGED vars
  BY <1>7 DEF vars
<1>8. QED
  BY <1>1, <1>2, <1>3, <1>4, <1>5, <1>6, <1>7 DEF Next, Work

LEMMA ShapeStep == IInv /\ [Next]_vars => WorkerShape'
<1> SUFFICES ASSUME IInv, [Next]_vars PROVE WorkerShape'
  OBVIOUS
<1> USE DEF IInv, TypeOK, WorkerShape, sending, work, outcome, closing
<1>1. ASSUME NEW s \in Senders, Send(s) \/ Count(s) \/ StopSender(s)
      PROVE  WorkerShape'
  BY <1>1 DEF Send, Accept, Refuse, Drop, Count, StopSender
<1>2. CASE Work
  BY <1>2 DEF Work, Take, Exit, Succeed, GiveUp, Fail, Retry, Abandon,
      Settle, PutDown
<1>3. CASE ParentCancelled \/ Close \/ CloseTarget
  BY <1>3 DEF ParentCancelled, Close, CloseTarget
<1>4. CASE UNCHANGED vars
  BY <1>4 DEF vars
<1>5. QED
  BY <1>1, <1>2, <1>3, <1>4 DEF Next

(* A step adds to both sides of the account or takes from the right one    *)
(* when the application is being closed.                                   *)
LEMMA ConservedStep == IInv /\ [Next]_vars => Conserved'
<1> SUFFICES ASSUME IInv, [Next]_vars PROVE Conserved'
  OBVIOUS
<1>1. IsFiniteSet(counting) /\ Cardinality(counting) \in Nat
  BY SendersCounted
<1> USE <1>1 DEF IInv, TypeOK, WorkerShape, Conserved, sending, work, outcome,
        closing
<1>2. ASSUME NEW s \in Senders, Accept(s) PROVE Conserved'
  <2>1. Cardinality(counting') = Cardinality(counting) + 1
    BY <1>2, SenderJoins DEF Accept
  <2>2. Len(queue') = Len(queue) + 1
    BY <1>2 DEF Accept
  <2>3. UNCHANGED <<hand, delivered, failed, enqueued, cancelled>>
    BY <1>2 DEF Accept
  <2>4. QED
    BY <2>1, <2>2, <2>3
<1>3. ASSUME NEW s \in Senders, Count(s) PROVE Conserved'
  <2>1. Cardinality(counting') = Cardinality(counting) - 1
    BY <1>3, SenderLeaves DEF Count
  <2>2. QED
    BY <1>3, <2>1 DEF Count
<1>4. ASSUME NEW s \in Senders, Refuse(s) \/ Drop(s) \/ StopSender(s)
      PROVE  Conserved'
  BY <1>4 DEF Refuse, Drop, StopSender
<1>5. CASE Take
  <2>1. Len(hand') = 1 /\ Len(queue') = Len(queue) - 1 /\ Len(hand) = 0
    BY <1>5, HeadFirst, HandCounted DEF Take
  <2>2. UNCHANGED <<counting, delivered, failed, enqueued, cancelled>>
    BY <1>5 DEF Take
  <2>3. QED
    BY <2>1, <2>2
<1>6. CASE Succeed \/ GiveUp \/ Abandon
  <2>1. Len(hand') = 0 /\ Len(hand) = 1
    BY <1>6, HandCounted, EmptySeq
       DEF Succeed, GiveUp, Abandon, Settle, PutDown
  <2>2. /\ UNCHANGED <<counting, queue, enqueued, cancelled>>
        /\ \/ UNCHANGED <<delivered, failed>> /\ cancelled
           \/ delivered' = delivered + 1 /\ UNCHANGED failed
           \/ failed' = failed + 1 /\ UNCHANGED delivered
    BY <1>6 DEF Succeed, GiveUp, Abandon, Settle, PutDown
  <2>3. QED
    BY <2>1, <2>2
<1>7. CASE Exit \/ Fail \/ Retry
  BY <1>7 DEF Exit, Fail, Retry
<1>8. CASE ParentCancelled \/ Close \/ CloseTarget
  BY <1>8 DEF ParentCancelled, Close, CloseTarget
<1>9. CASE UNCHANGED vars
  BY <1>9 DEF vars
<1>10. QED
  BY <1>2, <1>3, <1>4, <1>5, <1>6, <1>7, <1>8, <1>9 DEF Next, Work, Send

(* IInv holds in every reachable state.                                    *)
THEOREM Inductive == Spec => []IInv
<1>1. IInv /\ [Next]_vars => IInv'
  BY TypeStep, ShapeStep, ConservedStep DEF IInv
<1>2. QED
  BY InitIInv, <1>1, PTL DEF Spec

(* Every variable keeps its type, the queue its capacity.                  *)
THEOREM Typed == Spec => []TypeOK
<1>1. IInv => TypeOK
  BY DEF IInv
<1>2. QED
  BY Inductive, <1>1, PTL

(* Close never closes the application under the call of deliver.           *)
THEOREM OpenWhileUsed == Spec => []TargetUsedWhileOpen
<1>1. IInv => TargetUsedWhileOpen
  BY DEF IInv, TypeOK, WorkerShape, TargetUsedWhileOpen
<1>2. QED
  BY Inductive, <1>1, PTL

(* The counters State reports account for every accepted message.          *)
THEOREM Accounted == Spec => []Conserved
<1>1. IInv => Conserved
  BY DEF IInv
<1>2. QED
  BY Inductive, <1>1, PTL

-----------------------------------------------------------------------------
(* The queue implements Outbox.                                            *)

(* A step leaves Pending alone, appends a message or settles or abandons   *)
(* its head.                                                               *)
LEMMA OutboxStep == IInv /\ [Next]_vars => [Out!Next]_(Out!vars)
<1> SUFFICES ASSUME IInv, [Next]_vars PROVE [Out!Next]_(Out!vars)
  OBVIOUS
<1> USE Sizes DEF IInv, TypeOK, WorkerShape, Pending, sending, work, outcome,
        closing
<1>1. ASSUME NEW s \in Senders, Accept(s) PROVE Out!Accept
  <2>1. PICK m \in Messages : queue' = Append(queue, m)
    BY <1>1 DEF Accept
  <2>2. Pending' = Append(Pending, m)
    BY <1>1, <2>1, AppendLast DEF Accept
  <2>3. Len(Pending) < Capacity + 1
    BY <1>1, ConcatProperties DEF Accept
  <2>4. QED
    BY <1>1, <2>2, <2>3 DEF Accept, Out!Accept
<1>2. ASSUME NEW s \in Senders,
             Refuse(s) \/ Drop(s) \/ Count(s) \/ StopSender(s)
      PROVE  UNCHANGED Out!vars
  BY <1>2 DEF Refuse, Drop, Count, StopSender, Out!vars
<1>3. CASE Take
  <2>1. hand = <<>> /\ queue # <<>>
    BY <1>3 DEF Take
  <2>2. Pending = queue /\ Pending' = queue
    BY <1>3, <2>1, HeadFirst, ConcatEmptySeq DEF Take
  <2>3. QED
    BY <1>3, <2>2 DEF Take, Out!vars
<1>4. ASSUME worker \in {"call", "backoff"}, PutDown, queue' = queue
      PROVE  /\ Pending # <<>>
             /\ Head(Pending) = hand[1]
             /\ Pending' = Tail(Pending)
  <2>1. Len(hand) = 1 /\ hand' = <<>>
    BY <1>4, HandCounted DEF PutDown
  <2>2. Pending # <<>> /\ Head(Pending) = hand[1] /\ Tail(Pending) = queue
    BY <2>1, FirstGone
  <2>3. Pending' = queue
    BY <1>4, <2>1, ConcatEmptySeq
  <2>4. QED
    BY <2>2, <2>3
<1>5. ASSUME Succeed PROVE Out!Settle
  BY <1>4, <1>5 DEF Succeed, Settle, Out!Settle
<1>6. ASSUME GiveUp PROVE Out!Settle
  BY <1>4, <1>6 DEF GiveUp, Settle, Out!Settle
<1>7. ASSUME Abandon PROVE Out!Abandon
  BY <1>4, <1>7 DEF Abandon, Out!Abandon
<1>8. CASE Exit \/ Fail \/ Retry
  BY <1>8 DEF Exit, Fail, Retry, Out!vars
<1>9. ASSUME ParentCancelled PROVE Out!Shut
  BY <1>9 DEF ParentCancelled, Out!Shut
<1>10. ASSUME Close PROVE Out!Shut \/ UNCHANGED Out!vars
  BY <1>10 DEF Close, Out!Shut, Out!vars
<1>11. CASE CloseTarget
  BY <1>11 DEF CloseTarget, Out!vars
<1>12. CASE UNCHANGED vars
  BY <1>12 DEF vars, Out!vars
<1>13. QED
  BY <1>1, <1>2, <1>3, <1>5, <1>6, <1>7, <1>8, <1>9, <1>10, <1>11, <1>12
     DEF Next, Work, Send, Out!Next

(* Every accepted message is settled once and in order, or abandoned by an *)
(* application that is being closed: the queue implements Outbox.          *)
THEOREM Implements == Spec => IsOutbox
<1>1. Init => Out!Init
  BY ConcatEmptySeq, EmptySeq DEF Init, Out!Init, Pending
<1>2. QED
  BY Inductive, <1>1, OutboxStep, PTL DEF Spec, IsOutbox, Out!Spec
=============================================================================
