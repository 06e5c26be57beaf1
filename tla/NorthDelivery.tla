---------------------------- MODULE NorthDelivery ----------------------------
(***************************************************************************)
(* queuedNorth (internal/core/north_delivery.go): the bounded queue in     *)
(* front of every northbound application.  The bridge goroutines of the    *)
(* groups send without blocking, one goroutine takes the messages out and  *)
(* calls the application with retries, and Close cancels the context,      *)
(* waits for that goroutine and closes the application.                    *)
(*                                                                         *)
(* A step is one select, one call of the application or one counter        *)
(* update.  Each message is sent once, so that Messages bounds the number  *)
(* of calls of OnMessage.                                                  *)
(***************************************************************************)
EXTENDS Naturals, Sequences, FiniteSets

CONSTANTS
    Messages,  \* the messages the groups report (bound)
    Senders,   \* the bridge goroutines
    Capacity,  \* northDeliveryQueueSize
    Attempts   \* northDeliveryAttempts

ASSUME Sizes ==
    /\ Capacity \in Nat \ {0}
    /\ Attempts \in Nat \ {0}
    /\ IsFiniteSet(Senders)

VARIABLES
    unsent,     \* the messages no group has reported yet
    queue,      \* the channel
    counting,   \* senders between the channel send and enqueued.Add
    stopped,    \* senders whose own context is done
    worker,     \* where run and deliver are
    hand,       \* the message deliver works on, as a sequence of at most one
    attempt,    \* its attempt
    settled,    \* history: the outcome of each message deliver finished
    enqueued, delivered, failed, dropped,
    cancelled,  \* q.ctx is done
    closer,     \* where Close is
    targetOpen  \* the application was not closed

sending  == <<unsent, counting, stopped, enqueued, dropped>>
work     == <<worker, hand, attempt>>
outcome  == <<settled, delivered, failed>>
closing  == <<cancelled, closer, targetOpen>>
vars     == <<sending, queue, work, outcome, closing>>

-----------------------------------------------------------------------------
(* OnMessage: one select with a default.  Of the cases that are ready any  *)
(* may be taken, the default only when none is.                            *)

Accept(s) ==
    /\ s \notin counting
    /\ Len(queue) < Capacity
    /\ \E m \in unsent :
          /\ unsent' = unsent \ {m}
          /\ queue' = Append(queue, m)
    /\ counting' = counting \cup {s}
    /\ UNCHANGED <<stopped, enqueued, dropped, work, outcome, closing>>

Count(s) ==
    /\ s \in counting
    /\ counting' = counting \ {s}
    /\ enqueued' = enqueued + 1
    /\ UNCHANGED <<unsent, stopped, dropped, queue, work, outcome, closing>>

Refuse(s) ==
    /\ s \notin counting
    /\ cancelled \/ s \in stopped
    /\ \E m \in unsent : unsent' = unsent \ {m}
    /\ UNCHANGED <<counting, stopped, enqueued, dropped, queue, work, outcome,
                   closing>>

Drop(s) ==
    /\ s \notin counting
    /\ ~cancelled /\ s \notin stopped
    /\ Len(queue) = Capacity
    /\ \E m \in unsent : unsent' = unsent \ {m}
    /\ dropped' = dropped + 1
    /\ UNCHANGED <<counting, stopped, enqueued, queue, work, outcome, closing>>

(* The group of the sender is cancelled.                                   *)
StopSender(s) ==
    /\ stopped' = stopped \cup {s}
    /\ UNCHANGED <<unsent, counting, enqueued, dropped, queue, work, outcome,
                   closing>>

-----------------------------------------------------------------------------
(* run and deliver.                                                        *)

Take ==
    /\ worker = "select"
    /\ queue # <<>>
    /\ hand' = <<Head(queue)>>
    /\ queue' = Tail(queue)
    /\ attempt' = 1
    /\ worker' = "call"
    /\ UNCHANGED <<sending, outcome, closing>>

Exit ==
    /\ worker = "select"
    /\ cancelled
    /\ worker' = "exited"
    /\ UNCHANGED <<sending, queue, hand, attempt, outcome, closing>>

(* deliver returns to the loop of run.                                     *)
PutDown ==
    /\ hand' = <<>>
    /\ worker' = "select"
    /\ UNCHANGED attempt

Settle(ok) ==
    /\ settled' = Append(settled, [msg |-> hand[1], ok |-> ok])
    /\ PutDown

Succeed ==
    /\ worker = "call"
    /\ Settle(TRUE)
    /\ delivered' = delivered + 1
    /\ UNCHANGED <<sending, queue, failed, closing>>

(* Mutant: the message is given up without a trace.                        *)
GiveUpUncounted ==
    /\ worker = "call"
    /\ attempt = Attempts
    /\ Settle(FALSE)
    /\ UNCHANGED <<sending, queue, delivered, failed, closing>>

GiveUp ==
    /\ worker = "call"
    /\ attempt = Attempts
    /\ Settle(FALSE)
    /\ failed' = failed + 1
    /\ UNCHANGED <<sending, queue, delivered, closing>>

(* Mutant: the message is retried after those behind it.                   *)
FailRequeues ==
    /\ worker = "call"
    /\ attempt < Attempts
    /\ queue' = Append(queue, hand[1])
    /\ PutDown
    /\ UNCHANGED <<sending, outcome, closing>>

Fail ==
    /\ worker = "call"
    /\ attempt < Attempts
    /\ worker' = "backoff"
    /\ UNCHANGED <<sending, queue, hand, attempt, outcome, closing>>

(* Mutant: the attempt is not counted.                                     *)
RetryUncounted ==
    /\ worker = "backoff"
    /\ worker' = "call"
    /\ UNCHANGED <<sending, queue, hand, attempt, outcome, closing>>

Retry ==
    /\ worker = "backoff"
    /\ attempt' = attempt + 1
    /\ worker' = "call"
    /\ UNCHANGED <<sending, queue, hand, outcome, closing>>

(* The context is done during the backoff: the message is gone.            *)
Abandon ==
    /\ worker = "backoff"
    /\ cancelled
    /\ PutDown
    /\ UNCHANGED <<sending, queue, outcome, closing>>

-----------------------------------------------------------------------------
(* Stop cancels the parent context before anything is closed.              *)
ParentCancelled ==
    /\ ~cancelled
    /\ cancelled' = TRUE
    /\ UNCHANGED <<sending, queue, work, outcome, closer, targetOpen>>

(* Mutant: Close waits for a worker nobody told to stop.                   *)
CloseWithoutCancel ==
    /\ closer = "open"
    /\ closer' = "wait"
    /\ UNCHANGED <<sending, queue, work, outcome, cancelled, targetOpen>>

Close ==
    /\ closer = "open"
    /\ closer' = "wait"
    /\ cancelled' = TRUE
    /\ UNCHANGED <<sending, queue, work, outcome, targetOpen>>

(* Mutant: the application is closed without waiting for the worker.       *)
CloseTargetAtOnce ==
    /\ closer = "wait"
    /\ closer' = "closed"
    /\ targetOpen' = FALSE
    /\ UNCHANGED <<sending, queue, work, outcome, cancelled>>

(* wg.Wait has returned.                                                   *)
CloseTarget ==
    /\ closer = "wait"
    /\ worker = "exited"
    /\ closer' = "closed"
    /\ targetOpen' = FALSE
    /\ UNCHANGED <<sending, queue, work, outcome, cancelled>>

Init ==
    /\ unsent = Messages
    /\ queue = <<>>
    /\ counting = {}
    /\ stopped = {}
    /\ worker = "select"
    /\ hand = <<>>
    /\ attempt = 1
    /\ settled = <<>>
    /\ enqueued = 0 /\ delivered = 0 /\ failed = 0 /\ dropped = 0
    /\ cancelled = FALSE
    /\ closer = "open"
    /\ targetOpen = TRUE

Send(s) == Accept(s) \/ Refuse(s) \/ Drop(s)
Work == Take \/ Exit \/ Succeed \/ GiveUp \/ Fail \/ Retry \/ Abandon

Next ==
    \/ \E s \in Senders : Send(s) \/ Count(s) \/ StopSender(s)
    \/ Work
    \/ ParentCancelled \/ Close \/ CloseTarget

Spec == Init /\ [][Next]_vars

(* The worker is scheduled, calls of the application and timers return,    *)
(* and a select between a done context and a message does not choose the   *)
(* message forever.                                                        *)
Fairness ==
    /\ WF_vars(Work)
    /\ SF_vars(Exit)
    /\ WF_vars(CloseTarget)

FairSpec == Spec /\ Fairness

-----------------------------------------------------------------------------
(* Properties.                                                             *)

Outcomes == [msg : Messages, ok : BOOLEAN]

(* Every variable has its type; the queue keeps its capacity and a message *)
(* its number of attempts.                                                 *)
TypeOK ==
    /\ unsent \subseteq Messages
    /\ queue \in Seq(Messages)
    /\ Len(queue) <= Capacity
    /\ counting \subseteq Senders
    /\ stopped \subseteq Senders
    /\ worker \in {"select", "call", "backoff", "exited"}
    /\ hand \in Seq(Messages)
    /\ Len(hand) <= 1
    /\ attempt \in 1..Attempts
    /\ settled \in Seq(Outcomes)
    /\ enqueued \in Nat /\ delivered \in Nat /\ failed \in Nat
    /\ dropped \in Nat
    /\ cancelled \in BOOLEAN
    /\ closer \in {"open", "wait", "closed"}
    /\ targetOpen \in BOOLEAN

(* The application is not closed under a delivery: Close waits for the     *)
(* goroutine that calls it, whichever retry it is in.                      *)
TargetUsedWhileOpen == worker \in {"call", "backoff"} => targetOpen

(* What State reports adds up.  As long as nobody closes the application,  *)
(* every accepted message is delivered, failed, queued or being worked on; *)
(* enqueued lags by the senders that have not counted yet.  Closing only   *)
(* makes messages disappear, never appear.                                 *)
Conserved ==
    LET accepted == enqueued + Cardinality(counting)
        known == delivered + failed + Len(hand) + Len(queue)
    IN  /\ known <= accepted
        /\ ~cancelled => known = accepted

(* The queue is a FIFO that settles each accepted message once.            *)
Pending == hand \o queue
Out == INSTANCE Outbox WITH waiting <- Pending, open <- ~cancelled,
                            Room <- Capacity + 1
IsOutbox == Out!Spec

(* An accepted message is settled unless the application is closed first,  *)
(* however often the application refuses it.                               *)
Settled(m) == \E i \in 1..Len(settled) : settled[i].msg = m
Waits(m) == \E i \in 1..Len(Pending) : Pending[i] = m
EveryMessageSettles ==
    \A m \in Messages : Waits(m) ~> Settled(m) \/ cancelled

(* Close returns, whatever the worker was doing.                           *)
CloseReturns == closer = "wait" ~> closer = "closed"

(* The worker holds a message exactly while it works on it, it backs off   *)
(* only before an attempt that is left, and Close goes through its steps   *)
(* in order.                                                               *)
WorkerShape ==
    /\ hand # <<>> <=> worker \in {"call", "backoff"}
    /\ worker = "backoff" => attempt < Attempts
    /\ closer # "open" => cancelled
    /\ worker = "exited" => cancelled
    /\ ~targetOpen => worker = "exited"

IInv == TypeOK /\ WorkerShape /\ Conserved
=============================================================================
