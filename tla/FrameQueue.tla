------------------------------ MODULE FrameQueue ------------------------------
(***************************************************************************)
(* What service_client promises to the handlers: the frames of a           *)
(* connection reach them whole, once each and in the order in which the    *)
(* miner sent them, until the connection is removed. StratumServer's inbox *)
(* is this queue.                                                          *)
(***************************************************************************)
EXTENDS Sequences

CONSTANT Types   \* the frame types of STNM

VARIABLES
    queue,       \* frames sent and not yet handled
    handled,     \* frames the handlers have been given
    open         \* the session exists

vars == <<queue, handled, open>>

Init == queue = <<>> /\ handled = <<>> /\ open = TRUE

Send(t) ==
    /\ queue' = Append(queue, t)
    /\ UNCHANGED <<handled, open>>

Handle ==
    /\ open /\ queue # <<>>
    /\ handled' = Append(handled, Head(queue))
    /\ queue' = Tail(queue)
    /\ UNCHANGED open

Remove ==
    /\ open /\ open' = FALSE
    /\ UNCHANGED <<queue, handled>>

Next == (\E t \in Types : Send(t)) \/ Handle \/ Remove

Spec == Init /\ [][Next]_vars
=============================================================================
