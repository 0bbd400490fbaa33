------------------------------ MODULE Outbox ------------------------------
(***************************************************************************)
(* What a connection's write path promises (spec 2, Connection): frames    *)
(* handed to write() go out on the transport one at a time in the order    *)
(* they were accepted; once the transport is closed a queued frame can     *)
(* only be lost; and while the connection's writer has not been told to    *)
(* stop, every queued frame is eventually written or lost.                 *)
(***************************************************************************)
EXTENDS Sequences

CONSTANT Frames

VARIABLES
    queue,   \* frames accepted by write() and not yet on the transport
    wire,    \* frames the peer received, in order
    open,    \* the transport is open
    halted   \* the writer has been told to stop

vars == <<queue, wire, open, halted>>

Init ==
    /\ queue = <<>>
    /\ wire = <<>>
    /\ open = TRUE
    /\ halted = FALSE

Accept(f) ==
    /\ queue' = Append(queue, f)
    /\ UNCHANGED <<wire, open, halted>>

Deliver ==
    /\ open
    /\ queue # <<>>
    /\ wire' = Append(wire, Head(queue))
    /\ queue' = Tail(queue)
    /\ UNCHANGED <<open, halted>>

Drop ==
    /\ ~open
    /\ queue # <<>>
    /\ queue' = Tail(queue)
    /\ UNCHANGED <<wire, open, halted>>

Close ==
    /\ open' = FALSE
    /\ UNCHANGED <<queue, wire, halted>>

Halt ==
    /\ halted' = TRUE
    /\ UNCHANGED <<queue, wire, open>>

Next == (\E f \in Frames : Accept(f)) \/ Deliver \/ Drop \/ Close \/ Halt

\* Until it is halted, the writer keeps taking the head of the queue.
Spec ==
    /\ Init /\ [][Next]_vars
    /\ WF_vars(~halted /\ Deliver)
    /\ WF_vars(~halted /\ Drop)

=============================================================================
