------------------------ MODULE ExternalPlugin_proofs -----------------------
(***************************************************************************)
(* Proofs about ExternalPlugin, for any processes and any users.  IInv is  *)
(* inductive: one lemma per conjunct says that a step which starts in IInv *)
(* preserves it, with a case for each action that can disturb it.          *)
(***************************************************************************)
EXTENDS ExternalPlugin, TLAPS

(* The steps that change neither who calls whom nor what processes there   *)
(* are.                                                                    *)
HostStep == \E p \in Procs : HostCall(p) \/ HostReturns(p)

(* What a start leaves of the processes, and the one it adds.              *)
Kept(kept) ==
    /\ kept \in [Procs -> Users \cup {Ended, None}]
    /\ \A p \in Procs : kept[p] = scope[p] \/ kept[p] = None
    /\ kind = "driver" => /\ client' = None
                          /\ \A p \in Procs : p = client => kept[p] = None
    /\ kind # "driver" => client' = client

Added(u, p, kept) ==
    /\ Unused(p)
    /\ scope' = [kept EXCEPT ![p] = IF kind = "north" THEN Owner ELSE u]
    /\ pend' = [pend EXCEPT ![p] = {u}]
    /\ tgt' = [tgt EXCEPT ![u] = p]
    /\ Go(u, "starting")

LEMMA StartParts ==
    ASSUME TypeOK, NEW u \in Users, Start(u)
    PROVE  /\ upc[u] = "start"
           /\ UNCHANGED <<kind, stage, turn, answered, hosts>>
           /\ \E kept : /\ Kept(kept)
                        /\ \/ \E p \in Procs : Added(u, p, kept)
                           \/ /\ scope' = kept /\ Go(u, "leave")
                              /\ UNCHANGED <<pend, tgt>>
<1>1. upc[u] = "start" /\ UNCHANGED <<kind, stage, turn, answered, hosts>>
  BY DEF Start
<1>2. Kept(IF kind = "driver" THEN Down({client}) ELSE scope)
  BY DEF Start, Kept, Down, TypeOK
<1>3. QED
  BY <1>1, <1>2 DEF Start, Added

-----------------------------------------------------------------------------
(* One step, for each conjunct.                                            *)
LEMMA TypeStep == IInv /\ [Next]_vars => TypeOK'
<1> SUFFICES ASSUME IInv, [Next]_vars PROVE TypeOK'
  OBVIOUS
<1> USE Apart DEF IInv, TypeOK, Users, Up, Down, Go, adapter, users, procs
<1>1. ASSUME NEW u \in Users, Begin(u) PROVE TypeOK'
  BY <1>1 DEF Begin
<1>2. ASSUME NEW u \in Users, Start(u) PROVE TypeOK'
  <2>1. /\ upc[u] = "start"
        /\ UNCHANGED <<kind, stage, turn, answered, hosts>>
    BY <1>2, StartParts
  <2>2. PICK kept : /\ Kept(kept)
                    /\ \/ \E p \in Procs : Added(u, p, kept)
                       \/ /\ scope' = kept /\ Go(u, "leave")
                          /\ UNCHANGED <<pend, tgt>>
    BY <1>2, StartParts
  <2>3. ASSUME NEW p \in Procs, Added(u, p, kept) PROVE TypeOK'
    BY <2>1, <2>2, <2>3 DEF Kept, Added, Unused
  <2>4. ASSUME scope' = kept, Go(u, "leave"), UNCHANGED <<pend, tgt>>
        PROVE  TypeOK'
    BY <2>1, <2>2, <2>4 DEF Kept
  <2>5. QED
    BY <2>2, <2>3, <2>4
<1>3. ASSUME NEW u \in Users, Started(u) PROVE TypeOK'
  BY <1>3 DEF Started, Returns, PendingRemoved
<1>4. ASSUME NEW u \in Users, RunningClient(u) PROVE TypeOK'
  BY <1>4 DEF RunningClient
<1>5. ASSUME NEW u \in Users, Request(u) PROVE TypeOK'
  BY <1>5 DEF Request, Call
<1>6. ASSUME NEW u \in Users, Requested(u) PROVE TypeOK'
  BY <1>6 DEF Requested, Returns, PendingRemoved
<1>7. ASSUME NEW u \in Users, Probed(u) PROVE TypeOK'
  BY <1>7 DEF Probed
<1>8. ASSUME NEW u \in Users, Leave(u) PROVE TypeOK'
  BY <1>8 DEF Leave
<1>9. ASSUME NEW u \in Users, ContextEnds(u) PROVE TypeOK'
  BY <1>9 DEF ContextEnds
<1>10. ASSUME NEW u \in Users, Answer(u) PROVE TypeOK'
  BY <1>10 DEF Answer
<1>11. CASE Open
  BY <1>11 DEF Open
<1>12. CASE Close
  BY <1>12 DEF Close, Call
<1>13. CASE Stopped
  BY <1>13 DEF Stopped, Returns, PendingRemoved
<1>14. CASE Cancel
  BY <1>14 DEF Cancel
<1>15. ASSUME NEW p \in Procs, Exit(p) PROVE TypeOK'
  BY <1>15 DEF Exit
<1>16. CASE HostStep
  BY <1>16 DEF HostStep, HostCall, HostReturns
<1>17. CASE UNCHANGED vars
  BY <1>17 DEF vars
<1>18. QED
  BY <1>1, <1>2, <1>3, <1>4, <1>5, <1>6, <1>7, <1>8, <1>9, <1>10, <1>11,
     <1>12, <1>13, <1>14, <1>15, <1>16, <1>17
     DEF Next, UserStep, OwnerStep, HostStep

(* Admission needs that no one is inside.                                  *)
LEMMA InsideStep == IInv /\ [Next]_vars => OneInside'
<1> SUFFICES ASSUME IInv, [Next]_vars PROVE OneInside'
  OBVIOUS
<1> USE Apart DEF IInv, TypeOK, Users, Up, Down, Go, adapter, users, procs,
        OneInside, StageShape, Inside
<1>1. ASSUME NEW u \in Users, Begin(u) PROVE OneInside'
  BY <1>1 DEF Begin
<1>2. ASSUME NEW u \in Users, Start(u) PROVE OneInside'
  BY <1>2 DEF Start
<1>3. ASSUME NEW u \in Users, Started(u) PROVE OneInside'
  BY <1>3 DEF Started, Returns, PendingRemoved
<1>4. ASSUME NEW u \in Users, RunningClient(u) PROVE OneInside'
  BY <1>4 DEF RunningClient
<1>5. ASSUME NEW u \in Users, Request(u) PROVE OneInside'
  BY <1>5 DEF Request, Call
<1>6. ASSUME NEW u \in Users, Requested(u) PROVE OneInside'
  BY <1>6 DEF Requested, Returns, PendingRemoved
<1>7. ASSUME NEW u \in Users, Probed(u) PROVE OneInside'
  BY <1>7 DEF Probed
<1>8. ASSUME NEW u \in Users, Leave(u) PROVE OneInside'
  BY <1>8 DEF Leave
<1>9. ASSUME NEW u \in Users, ContextEnds(u) PROVE OneInside'
  BY <1>9 DEF ContextEnds
<1>10. ASSUME NEW u \in Users, Answer(u) PROVE OneInside'
  BY <1>10 DEF Answer
<1>11. CASE Open
  BY <1>11 DEF Open
<1>12. CASE Close
  BY <1>12 DEF Close, Call
<1>13. CASE Stopped
  BY <1>13 DEF Stopped, Returns, PendingRemoved
<1>14. CASE Cancel
  BY <1>14 DEF Cancel
<1>15. ASSUME NEW p \in Procs, Exit(p) PROVE OneInside'
  BY <1>15 DEF Exit
<1>16. CASE HostStep
  BY <1>16 DEF HostStep, HostCall, HostReturns
<1>17. CASE UNCHANGED vars
  BY <1>17 DEF vars
<1>18. QED
  BY <1>1, <1>2, <1>3, <1>4, <1>5, <1>6, <1>7, <1>8, <1>9, <1>10, <1>11,
     <1>12, <1>13, <1>14, <1>15, <1>16, <1>17
     DEF Next, UserStep, OwnerStep, HostStep

(* A target is set and dropped with the place of its user.                 *)
LEMMA TargetStep == IInv /\ [Next]_vars => TargetKnown'
<1> SUFFICES ASSUME IInv, [Next]_vars PROVE TargetKnown'
  OBVIOUS
<1> USE Apart DEF IInv, TypeOK, Users, Up, Down, Go, adapter, users, procs,
        TargetKnown, Waiting
<1>1. ASSUME NEW u \in Users, Begin(u) PROVE TargetKnown'
  BY <1>1 DEF Begin
<1>2. ASSUME NEW u \in Users, Start(u) PROVE TargetKnown'
  BY <1>2 DEF Start
<1>3. ASSUME NEW u \in Users, Started(u) PROVE TargetKnown'
  BY <1>3 DEF Started, Returns, PendingRemoved
<1>4. ASSUME NEW u \in Users, RunningClient(u) PROVE TargetKnown'
  BY <1>4 DEF RunningClient
<1>5. ASSUME NEW u \in Users, Request(u) PROVE TargetKnown'
  BY <1>5 DEF Request, Call
<1>6. ASSUME NEW u \in Users, Requested(u) PROVE TargetKnown'
  BY <1>6 DEF Requested, Returns, PendingRemoved
<1>7. ASSUME NEW u \in Users, Probed(u) PROVE TargetKnown'
  BY <1>7 DEF Probed
<1>8. ASSUME NEW u \in Users, Leave(u) PROVE TargetKnown'
  BY <1>8 DEF Leave
<1>9. ASSUME NEW u \in Users, ContextEnds(u) PROVE TargetKnown'
  BY <1>9 DEF ContextEnds
<1>10. ASSUME NEW u \in Users, Answer(u) PROVE TargetKnown'
  BY <1>10 DEF Answer
<1>11. CASE Open
  BY <1>11 DEF Open
<1>12. CASE Close
  <2>1. CASE client = None
    BY <1>12, <2>1 DEF Close, StageShape
  <2>2. CASE client # None
    <3>1. /\ client \in Procs /\ Call(Owner, client, "stopping")
          /\ upc[Owner] = "idle"
      BY <1>12, <2>2 DEF Close, StageShape
    <3>2. QED
      BY <1>12, <3>1 DEF Close, Call
  <2>3. QED
    BY <2>1, <2>2
<1>13. CASE Stopped
  BY <1>13 DEF Stopped, Returns, PendingRemoved
<1>14. CASE Cancel
  BY <1>14 DEF Cancel
<1>15. ASSUME NEW p \in Procs, Exit(p) PROVE TargetKnown'
  BY <1>15 DEF Exit
<1>16. CASE HostStep
  BY <1>16 DEF HostStep, HostCall, HostReturns
<1>17. CASE UNCHANGED vars
  BY <1>17 DEF vars
<1>18. QED
  BY <1>1, <1>2, <1>3, <1>4, <1>5, <1>6, <1>7, <1>8, <1>9, <1>10, <1>11,
     <1>12, <1>13, <1>14, <1>15, <1>16, <1>17
     DEF Next, UserStep, OwnerStep, HostStep

(* The owner alone moves the stage.                                        *)
LEMMA StageStep == IInv /\ [Next]_vars => StageShape'
<1> SUFFICES ASSUME IInv, [Next]_vars PROVE StageShape'
  OBVIOUS
<1> USE Apart DEF IInv, TypeOK, Users, Up, Down, Go, adapter, users, procs,
        OneInside, StageShape, Inside
<1>1. ASSUME NEW u \in Users, Begin(u) PROVE StageShape'
  BY <1>1 DEF Begin
<1>2. ASSUME NEW u \in Users, Start(u) PROVE StageShape'
  BY <1>2 DEF Start
<1>3. ASSUME NEW u \in Users, Started(u) PROVE StageShape'
  BY <1>3 DEF Started, Returns, PendingRemoved
<1>4. ASSUME NEW u \in Users, RunningClient(u) PROVE StageShape'
  BY <1>4 DEF RunningClient
<1>5. ASSUME NEW u \in Users, Request(u) PROVE StageShape'
  BY <1>5 DEF Request, Call
<1>6. ASSUME NEW u \in Users, Requested(u) PROVE StageShape'
  BY <1>6 DEF Requested, Returns, PendingRemoved
<1>7. ASSUME NEW u \in Users, Probed(u) PROVE StageShape'
  BY <1>7 DEF Probed
<1>8. ASSUME NEW u \in Users, Leave(u) PROVE StageShape'
  BY <1>8 DEF Leave
<1>9. ASSUME NEW u \in Users, ContextEnds(u) PROVE StageShape'
  BY <1>9 DEF ContextEnds
<1>10. ASSUME NEW u \in Users, Answer(u) PROVE StageShape'
  BY <1>10 DEF Answer
<1>11. CASE Open
  BY <1>11 DEF Open
<1>12. CASE Close
  BY <1>12 DEF Close, Call
<1>13. CASE Stopped
  BY <1>13 DEF Stopped, Returns, PendingRemoved
<1>14. CASE Cancel
  BY <1>14 DEF Cancel
<1>15. ASSUME NEW p \in Procs, Exit(p) PROVE StageShape'
  BY <1>15 DEF Exit
<1>16. CASE HostStep
  BY <1>16 DEF HostStep, HostCall, HostReturns
<1>17. CASE UNCHANGED vars
  BY <1>17 DEF vars
<1>18. QED
  BY <1>1, <1>2, <1>3, <1>4, <1>5, <1>6, <1>7, <1>8, <1>9, <1>10, <1>11,
     <1>12, <1>13, <1>14, <1>15, <1>16, <1>17
     DEF Next, UserStep, OwnerStep, HostStep

(* A context ends before its user is idle, or with the adapter.            *)
LEMMA BoundStep == IInv /\ [Next]_vars => Bounded'
<1> SUFFICES ASSUME IInv, [Next]_vars PROVE Bounded'
  OBVIOUS
<1> USE Apart DEF IInv, TypeOK, Users, Up, Down, Go, adapter, users, procs,
        OneInside, StageShape, Inside, Bounded, ProcessesOwned
<1>1. ASSUME NEW u \in Users, Begin(u) PROVE Bounded'
  BY <1>1 DEF Begin
<1>2. ASSUME NEW u \in Users, Start(u) PROVE Bounded'
  <2>1. /\ upc[u] = "start"
        /\ UNCHANGED <<kind, stage, turn, answered, hosts>>
    BY <1>2, StartParts
  <2>2. PICK kept : /\ Kept(kept)
                    /\ \/ \E p \in Procs : Added(u, p, kept)
                       \/ /\ scope' = kept /\ Go(u, "leave")
                          /\ UNCHANGED <<pend, tgt>>
    BY <1>2, StartParts
  <2>3. ASSUME NEW p \in Procs, Added(u, p, kept) PROVE Bounded'
    BY <2>1, <2>2, <2>3 DEF Kept, Added, Unused
  <2>4. ASSUME scope' = kept, Go(u, "leave"), UNCHANGED <<pend, tgt>>
        PROVE  Bounded'
    BY <2>1, <2>2, <2>4 DEF Kept
  <2>5. QED
    BY <2>2, <2>3, <2>4
<1>3. ASSUME NEW u \in Users, Started(u) PROVE Bounded'
  BY <1>3 DEF Started, Returns, PendingRemoved
<1>4. ASSUME NEW u \in Users, RunningClient(u) PROVE Bounded'
  BY <1>4 DEF RunningClient
<1>5. ASSUME NEW u \in Users, Request(u) PROVE Bounded'
  BY <1>5 DEF Request, Call
<1>6. ASSUME NEW u \in Users, Requested(u) PROVE Bounded'
  BY <1>6 DEF Requested, Returns, PendingRemoved
<1>7. ASSUME NEW u \in Users, Probed(u) PROVE Bounded'
  BY <1>7 DEF Probed
<1>8. ASSUME NEW u \in Users, Leave(u) PROVE Bounded'
  BY <1>8 DEF Leave
<1>9. ASSUME NEW u \in Users, ContextEnds(u) PROVE Bounded'
  BY <1>9 DEF ContextEnds
<1>10. ASSUME NEW u \in Users, Answer(u) PROVE Bounded'
  BY <1>10 DEF Answer
<1>11. CASE Open
  BY <1>11 DEF Open
<1>12. CASE Close
  BY <1>12 DEF Close, Call
<1>13. CASE Stopped
  BY <1>13 DEF Stopped, Returns, PendingRemoved
<1>14. CASE Cancel
  BY <1>14 DEF Cancel
<1>15. ASSUME NEW p \in Procs, Exit(p) PROVE Bounded'
  BY <1>15 DEF Exit
<1>16. CASE HostStep
  BY <1>16 DEF HostStep, HostCall, HostReturns
<1>17. CASE UNCHANGED vars
  BY <1>17 DEF vars
<1>18. QED
  BY <1>1, <1>2, <1>3, <1>4, <1>5, <1>6, <1>7, <1>8, <1>9, <1>10, <1>11,
     <1>12, <1>13, <1>14, <1>15, <1>16, <1>17
     DEF Next, UserStep, OwnerStep, HostStep

(* Registered before it is written, removed with the reply or the return.  *)
LEMMA PendingStep == IInv /\ [Next]_vars => PendingExact'
<1> SUFFICES ASSUME IInv, [Next]_vars PROVE PendingExact'
  OBVIOUS
<1> USE Apart DEF IInv, TypeOK, Users, Up, Down, Go, adapter, users, procs,
        TargetKnown, Waiting, PendingExact, Unused, OneInside
<1>1. ASSUME NEW u \in Users, Begin(u) PROVE PendingExact'
  BY <1>1 DEF Begin
<1>2. ASSUME NEW u \in Users, Start(u) PROVE PendingExact'
  <2>1. /\ upc[u] = "start"
        /\ UNCHANGED <<kind, stage, turn, answered, hosts>>
    BY <1>2, StartParts
  <2>2. PICK kept : /\ Kept(kept)
                    /\ \/ \E p \in Procs : Added(u, p, kept)
                       \/ /\ scope' = kept /\ Go(u, "leave")
                          /\ UNCHANGED <<pend, tgt>>
    BY <1>2, StartParts
  <2>3. ASSUME NEW p \in Procs, Added(u, p, kept) PROVE PendingExact'
    BY <2>1, <2>2, <2>3 DEF Kept, Added, Unused
  <2>4. ASSUME scope' = kept, Go(u, "leave"), UNCHANGED <<pend, tgt>>
        PROVE  PendingExact'
    BY <2>1, <2>2, <2>4 DEF Kept
  <2>5. QED
    BY <2>2, <2>3, <2>4
<1>3. ASSUME NEW u \in Users, Started(u) PROVE PendingExact'
  BY <1>3 DEF Started, Returns, PendingRemoved
<1>4. ASSUME NEW u \in Users, RunningClient(u) PROVE PendingExact'
  BY <1>4 DEF RunningClient
<1>5. ASSUME NEW u \in Users, Request(u) PROVE PendingExact'
  BY <1>5 DEF Request, Call
<1>6. ASSUME NEW u \in Users, Requested(u) PROVE PendingExact'
  BY <1>6 DEF Requested, Returns, PendingRemoved
<1>7. ASSUME NEW u \in Users, Probed(u) PROVE PendingExact'
  BY <1>7 DEF Probed
<1>8. ASSUME NEW u \in Users, Leave(u) PROVE PendingExact'
  BY <1>8 DEF Leave
<1>9. ASSUME NEW u \in Users, ContextEnds(u) PROVE PendingExact'
  BY <1>9 DEF ContextEnds
<1>10. ASSUME NEW u \in Users, Answer(u) PROVE PendingExact'
  BY <1>10 DEF Answer
<1>11. CASE Open
  BY <1>11 DEF Open
<1>12. CASE Close
  <2>1. CASE client = None
    BY <1>12, <2>1 DEF Close, StageShape
  <2>2. CASE client # None
    <3>1. /\ client \in Procs /\ Call(Owner, client, "stopping")
          /\ upc[Owner] = "idle"
      BY <1>12, <2>2 DEF Close, StageShape
    <3>2. QED
      BY <1>12, <3>1 DEF Close, Call
  <2>3. QED
    BY <2>1, <2>2
<1>13. CASE Stopped
  BY <1>13 DEF Stopped, Returns, PendingRemoved
<1>14. CASE Cancel
  BY <1>14 DEF Cancel
<1>15. ASSUME NEW p \in Procs, Exit(p) PROVE PendingExact'
  BY <1>15 DEF Exit
<1>16. CASE HostStep
  BY <1>16 DEF HostStep, HostCall, HostReturns
<1>17. CASE UNCHANGED vars
  BY <1>17 DEF vars
<1>18. QED
  BY <1>1, <1>2, <1>3, <1>4, <1>5, <1>6, <1>7, <1>8, <1>9, <1>10, <1>11,
     <1>12, <1>13, <1>14, <1>15, <1>16, <1>17
     DEF Next, UserStep, OwnerStep, HostStep

(* A process is installed when the call that started it returns, or closed. *)
LEMMA OwnedStep == IInv /\ [Next]_vars => ProcessesOwned'
<1> SUFFICES ASSUME IInv, [Next]_vars PROVE ProcessesOwned'
  OBVIOUS
<1> USE Apart DEF IInv, TypeOK, Users, Up, Down, Go, adapter, users, procs,
        OneInside, StageShape, Inside, Bounded, TargetKnown, ProcessesOwned
<1>1. ASSUME NEW u \in Users, Begin(u) PROVE ProcessesOwned'
  BY <1>1 DEF Begin
<1>2. ASSUME NEW u \in Users, Start(u) PROVE ProcessesOwned'
  <2>1. /\ upc[u] = "start"
        /\ UNCHANGED <<kind, stage, turn, answered, hosts>>
    BY <1>2, StartParts
  <2>2. PICK kept : /\ Kept(kept)
                    /\ \/ \E p \in Procs : Added(u, p, kept)
                       \/ /\ scope' = kept /\ Go(u, "leave")
                          /\ UNCHANGED <<pend, tgt>>
    BY <1>2, StartParts
  <2>3. ASSUME NEW p \in Procs, Added(u, p, kept) PROVE ProcessesOwned'
    BY <2>1, <2>2, <2>3 DEF Kept, Added, Unused
  <2>4. ASSUME scope' = kept, Go(u, "leave"), UNCHANGED <<pend, tgt>>
        PROVE  ProcessesOwned'
    BY <2>1, <2>2, <2>4 DEF Kept
  <2>5. QED
    BY <2>2, <2>3, <2>4
<1>3. ASSUME NEW u \in Users, Started(u) PROVE ProcessesOwned'
  BY <1>3 DEF Started, Returns, PendingRemoved
<1>4. ASSUME NEW u \in Users, RunningClient(u) PROVE ProcessesOwned'
  BY <1>4 DEF RunningClient
<1>5. ASSUME NEW u \in Users, Request(u) PROVE ProcessesOwned'
  BY <1>5 DEF Request, Call
<1>6. ASSUME NEW u \in Users, Requested(u) PROVE ProcessesOwned'
  BY <1>6 DEF Requested, Returns, PendingRemoved
<1>7. ASSUME NEW u \in Users, Probed(u) PROVE ProcessesOwned'
  BY <1>7 DEF Probed
<1>8. ASSUME NEW u \in Users, Leave(u) PROVE ProcessesOwned'
  BY <1>8 DEF Leave
<1>9. ASSUME NEW u \in Users, ContextEnds(u) PROVE ProcessesOwned'
  BY <1>9 DEF ContextEnds
<1>10. ASSUME NEW u \in Users, Answer(u) PROVE ProcessesOwned'
  BY <1>10 DEF Answer
<1>11. CASE Open
  BY <1>11 DEF Open
<1>12. CASE Close
  BY <1>12 DEF Close, Call
<1>13. CASE Stopped
  BY <1>13 DEF Stopped, Returns, PendingRemoved
<1>14. CASE Cancel
  BY <1>14 DEF Cancel
<1>15. ASSUME NEW p \in Procs, Exit(p) PROVE ProcessesOwned'
  BY <1>15 DEF Exit
<1>16. CASE HostStep
  BY <1>16 DEF HostStep, HostCall, HostReturns
<1>17. CASE UNCHANGED vars
  BY <1>17 DEF vars
<1>18. QED
  BY <1>1, <1>2, <1>3, <1>4, <1>5, <1>6, <1>7, <1>8, <1>9, <1>10, <1>11,
     <1>12, <1>13, <1>14, <1>15, <1>16, <1>17
     DEF Next, UserStep, OwnerStep, HostStep

-----------------------------------------------------------------------------
LEMMA InvInit == Init => IInv
  BY Apart DEF Init, IInv, TypeOK, OneInside, TargetKnown, StageShape, Bounded,
      PendingExact, ProcessesOwned, Users, Up, Waiting, Inside

(* Whoever uses, starts or stops processes, IInv holds of them.            *)
THEOREM Inductive == Spec => []IInv
<1>1. IInv /\ [Next]_vars => IInv'
  BY TypeStep, InsideStep, TargetStep, StageStep, BoundStep, PendingStep,
     OwnedStep DEF IInv
<1>2. QED
  BY InvInit, <1>1, PTL DEF Spec

(* However reply, timeout and the end of a process are ordered, its table  *)
(* has an entry exactly for the calls that wait without a reply.           *)
THEOREM Exact == Spec => []PendingExact
<1>1. IInv => PendingExact
  BY DEF IInv
<1>2. QED
  BY Inductive, <1>1, PTL

(* What lives is the adapter's one process or the one being started, and   *)
(* when the adapter is closed only what is about to be killed, for any     *)
(* number of users and of processes that die (adapter.go:146).             *)
THEOREM Owned == Spec => []ProcessesOwned
<1>1. IInv => ProcessesOwned
  BY DEF IInv
<1>2. QED
  BY Inductive, <1>1, PTL
=============================================================================
