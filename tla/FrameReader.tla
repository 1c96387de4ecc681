------------------------------ MODULE FrameReader ------------------------------
(***************************************************************************)
(* The frame reader of one connection (service_client in                   *)
(* src/src/stn_stratum_server.c): a non-blocking socket delivers the       *)
(* miner's byte stream in pieces of any size; the reader collects a header *)
(* in rx, checks it, collects the rest of the frame, dispatches it and     *)
(* starts again at rx_used = 0. A partial frame stays in rx between calls. *)
(* HeaderOnly tells the Windows branch from the Linux branch.              *)
(***************************************************************************)
EXTENDS Integers, Sequences

CONSTANTS
    HeaderSize,    \* 8
    FrameSize,     \* 77, 48 and 56 bytes for ADDRESS, SUBMIT and PROGRESS
    RxCapacity,    \* size of rx, 77
    HeaderOnly,    \* whether a header alone is dispatched (the Windows branch)
    MaxFrames      \* bound: frames the miner sends

Known == {"ADDRESS", "SUBMIT", "PROGRESS"}
Types == Known \cup {"BAD"}

ASSUME ReaderAssumption ==
    /\ HeaderSize \in Nat \ {0}
    /\ RxCapacity \in Nat
    /\ FrameSize \in [Types -> Nat]
    /\ \A t \in Types : HeaderSize <= FrameSize[t] /\ FrameSize[t] <= RxCapacity
    /\ HeaderOnly \in BOOLEAN
    /\ MaxFrames \in Nat

VARIABLES
    queue,      \* frames of which some bytes are still unread or undispatched
    off,        \* bytes already read of the first frame of queue
    rxUsed,     \* rx_used
    rxType,     \* the type byte in rx, once the header is complete
    pc,         \* where service_client is; "away" between calls
    handled,    \* types dispatched
    open,       \* the session is on the client list
    peerOpen    \* the miner has not closed its end

vars == <<queue, off, rxUsed, rxType, pc, handled, open, peerOpen>>

Init ==
    /\ queue = <<>> /\ off = 0
    /\ rxUsed = 0 /\ rxType = "BAD"
    /\ pc = "away" /\ handled = <<>>
    /\ open = TRUE /\ peerOpen = TRUE

-----------------------------------------------------------------------------

(* service_clients calls service_client: it goes on where rx_used left off. *)
Enter ==
    /\ pc = "away" /\ open
    /\ pc' = IF rxUsed < HeaderSize THEN "header" ELSE "check"
    /\ UNCHANGED <<queue, off, rxUsed, rxType, handled, open, peerOpen>>

(* How many bytes the recv in progress asks for.                            *)
Wanted == (IF pc = "header" THEN HeaderSize ELSE FrameSize[rxType]) - rxUsed

(* Bytes the stream may hold from the start of the first frame on; a recv   *)
(* never reaches past the second.                                           *)
StreamEnd == FrameSize[Head(queue)] + IF Len(queue) > 1 THEN FrameSize[queue[2]] ELSE 0

(* recv returns n bytes of the stream. Once the header is complete its type *)
(* byte is known: that of the frame it belongs to, or anything if the       *)
(* reader has lost the frame boundary.                                      *)
Receive(n) ==
    /\ pc \in {"header", "body"} /\ queue # <<>>
    /\ n <= Wanted /\ off + n <= StreamEnd
    /\ off' = off + n
    /\ rxUsed' = rxUsed + n
    /\ rxType' \in IF pc = "body" THEN {rxType}
                   ELSE IF off = rxUsed THEN {Head(queue)} ELSE Types
    /\ UNCHANGED <<queue, pc, handled, open, peerOpen>>

(* The header is complete. The Linux branch checks it and goes on to the    *)
(* body; the Windows branch has only asked for eight bytes and dispatches.  *)
HeaderComplete ==
    /\ pc = "header" /\ rxUsed = HeaderSize
    /\ pc' = IF HeaderOnly THEN "dispatch" ELSE "check"
    /\ UNCHANGED <<queue, off, rxUsed, rxType, handled, open, peerOpen>>

CheckHeader ==
    /\ pc = "check"
    /\ IF rxType = "BAD"
       THEN open' = FALSE /\ pc' = "gone"
       ELSE pc' = "body" /\ UNCHANGED open
    /\ UNCHANGED <<queue, off, rxUsed, rxType, handled, peerOpen>>

(* Plausible error: the body loop stops one byte early.                     *)
BodyNearlyFull == pc = "body" /\ rxUsed >= FrameSize[rxType] - 1

BodyFull == pc = "body" /\ rxUsed = FrameSize[rxType]

BodyComplete ==
    /\ BodyFull
    /\ pc' = "dispatch"
    /\ UNCHANGED <<queue, off, rxUsed, rxType, handled, open, peerOpen>>

(* The handler runs; the session may be removed by it. Otherwise rx_used=0  *)
(* and the loop starts over.                                                *)
Dispatch ==
    /\ pc = "dispatch"
    /\ handled' = Append(handled, rxType)
    /\ IF off >= FrameSize[Head(queue)]
       THEN queue' = Tail(queue) /\ off' = off - FrameSize[Head(queue)]
       ELSE UNCHANGED <<queue, off>>
    /\ rxUsed' = 0
    /\ pc' = "after"
    /\ UNCHANGED <<rxType, open, peerOpen>>

StillConnected ==
    /\ pc = "after" /\ pc' = "header"
    /\ UNCHANGED <<queue, off, rxUsed, rxType, handled, open, peerOpen>>

HandlerRemoved ==
    /\ pc = "after" /\ pc' = "gone" /\ open' = FALSE
    /\ UNCHANGED <<queue, off, rxUsed, rxType, handled, peerOpen>>

(* Plausible error: the partial frame is forgotten when recv would block.   *)
ForgetPartial == rxUsed' = 0

KeepPartial == rxUsed' = rxUsed

(* EAGAIN: return to the loop with the partial frame kept.                  *)
WouldBlock ==
    /\ pc \in {"header", "body"} /\ Wanted > 0
    /\ pc' = "away"
    /\ KeepPartial
    /\ UNCHANGED <<queue, off, rxType, handled, open, peerOpen>>

(* The end of the stream, or an error.                                      *)
PeerClosed ==
    /\ pc \in {"header", "body"} /\ ~peerOpen /\ Wanted > 0
    /\ pc' = "gone" /\ open' = FALSE
    /\ UNCHANGED <<queue, off, rxUsed, rxType, handled, peerOpen>>

MinerSend(t) ==
    /\ peerOpen /\ Len(queue) + Len(handled) < MaxFrames
    /\ queue' = Append(queue, t)
    /\ UNCHANGED <<off, rxUsed, rxType, pc, handled, open, peerOpen>>

MinerClose ==
    /\ peerOpen /\ peerOpen' = FALSE
    /\ UNCHANGED <<queue, off, rxUsed, rxType, pc, handled, open>>

ReaderStep ==
    \/ Enter \/ HeaderComplete \/ CheckHeader \/ BodyComplete
    \/ \E n \in 1 .. RxCapacity : Receive(n)
    \/ Dispatch \/ StillConnected \/ HandlerRemoved \/ WouldBlock \/ PeerClosed

Terminated == pc = "gone" /\ ~peerOpen /\ UNCHANGED vars

Next == ReaderStep \/ (\E t \in Types : MinerSend(t)) \/ MinerClose \/ Terminated

Spec == Init /\ [][Next]_vars

-----------------------------------------------------------------------------
(* Properties.                                                              *)

(* The reader's state stays in its type; rx_used never exceeds rx, for any  *)
(* fragmentation of the stream.                                             *)
TypeOK ==
    /\ queue \in Seq(Types) /\ handled \in Seq(Types)
    /\ off \in Nat
    /\ rxUsed \in 0 .. RxCapacity
    /\ rxType \in Types
    /\ pc \in {"away", "header", "check", "body", "dispatch", "after", "gone"}
    /\ open \in BOOLEAN /\ peerOpen \in BOOLEAN

(* A handler is run on exactly one complete frame: what rx holds when it is *)
(* dispatched is the first frame still in the stream, from its first byte   *)
(* to its last, however often recv would have blocked on the way.           *)
WholeFrames ==
    pc = "dispatch" =>
        /\ queue # <<>> /\ rxType = Head(queue) /\ rxType \in Known
        /\ rxUsed = FrameSize[rxType] /\ off = rxUsed

(* The reader implements the queue of whole frames that the handlers, and   *)
(* StratumServer, rely on.                                                  *)
Frames == INSTANCE FrameQueue
ImplementsQueue == Frames!Spec

=============================================================================
