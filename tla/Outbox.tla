-------------------------------- MODULE Outbox --------------------------------
(***************************************************************************)
(* What the delivery queue of a northbound application promises to the     *)
(* groups that feed it: a message that was accepted is settled exactly     *)
(* once, delivered or given up, and messages are settled in the order they *)
(* were accepted.  Only an application that is being closed may abandon    *)
(* what still waits.                                                       *)
(***************************************************************************)
EXTENDS Naturals, Sequences

CONSTANTS
    Messages,   \* what the groups report
    Room        \* how many accepted messages may wait

VARIABLES
    waiting,    \* the accepted messages that are not settled
    settled,    \* the settled messages and whether they were delivered
    open        \* nobody has closed the application

vars == <<waiting, settled, open>>

Init ==
    /\ waiting = <<>>
    /\ settled = <<>>
    /\ open = TRUE

Accept ==
    /\ Len(waiting) < Room
    /\ \E m \in Messages : waiting' = Append(waiting, m)
    /\ UNCHANGED <<settled, open>>

Settle ==
    /\ waiting # <<>>
    /\ waiting' = Tail(waiting)
    /\ \E ok \in BOOLEAN :
          settled' = Append(settled, [msg |-> Head(waiting), ok |-> ok])
    /\ UNCHANGED open

Abandon ==
    /\ ~open
    /\ waiting # <<>>
    /\ waiting' = Tail(waiting)
    /\ UNCHANGED <<settled, open>>

Shut ==
    /\ open
    /\ open' = FALSE
    /\ UNCHANGED <<waiting, settled>>

Next == Accept \/ Settle \/ Abandon \/ Shut

Spec == Init /\ [][Next]_vars
=============================================================================
