--------------------------- MODULE TelemetryVisitor ---------------------------
(***************************************************************************)
(* One HTTP visitor of the telemetry worker, as client_tick serves it: the *)
(* request arrives in pieces into a fixed buffer, the answer is made once  *)
(* from the snapshot of the pass that completes the request, and is sent   *)
(* in as many pieces, over as many passes, as the visitor's window takes.  *)
(* A visitor that dribbles, stalls, closes or floods must neither hold the *)
(* worker nor stay for ever. TelemetryService has all of this in one step. *)
(*                                                                         *)
(* time(NULL) is the wall clock: it ticks, and it may be set to any time,  *)
(* also to one before the visitor connected. Requests and answers are      *)
(* counted in bytes; the request is complete after marker bytes, its blank *)
(* line, which may lie beyond the buffer. The buffers of the answer are    *)
(* large enough for any snapshot.                                          *)
(***************************************************************************)
EXTENDS Integers

CONSTANTS
    RequestSize,    \* STN_TELEMETRY_HTTP_REQUEST_SIZE
    Markers,        \* bytes a request may have up to its blank line
    ResponseLength,
    Timeout,        \* STN_TELEMETRY_CLIENT_TIMEOUT_SECONDS
    MaxBytes,       \* bound: bytes the visitor writes
    Starts,         \* times at which a visitor may be accepted
    MaxClock,       \* bound on the clock
    MaxSets,        \* bound: times the clock is set
    MaxSnapshots      \* bound: publications

ASSUME VisitorAssumption ==
    /\ {RequestSize, ResponseLength, Timeout} \cup Markers \subseteq Nat \ {0}
    /\ {MaxBytes, MaxClock, MaxSets, MaxSnapshots} \subseteq Nat
    /\ Starts \subseteq 0 .. MaxClock

VARIABLES
    pc,             \* where the worker is with this visitor
    clock, sets,    \* the wall clock; how often it was set
    now,            \* the clock as read at the start of the pass
    connectedAt,
    version,        \* the publication this pass has read
    requestLength, responseLength, responseSent,
    madeFrom,         \* the publication the answer was made from
    wire, written,  \* bytes of the visitor not yet read; bytes it has written
    marker,         \* the end of its request
    closed,         \* the visitor has closed its side
    window,         \* bytes the visitor can take
    received        \* publications its bytes came from

workerVars  == <<now, connectedAt, requestLength, responseLength, responseSent,
                 madeFrom>>
visitorVars == <<wire, written, marker, closed, window>>
clockVars   == <<clock, sets, version>>
visitVars == <<pc, clock, sets, now, connectedAt, version, requestLength,
               responseLength, responseSent, madeFrom, wire, written, marker,
               closed, window, received>>

(* accept_clients: a zeroed client, which gets the time of the pass and is  *)
(* served in it.                                                            *)
VisitInit ==
    /\ pc = "receive"
    /\ connectedAt \in Starts /\ clock = connectedAt /\ now = connectedAt
    /\ sets = 0 /\ version = 0
    /\ requestLength = 0 /\ responseLength = 0 /\ responseSent = 0
    /\ madeFrom = 0
    /\ wire = 0 /\ written = 0 /\ marker \in Markers
    /\ closed = FALSE /\ window = 0
    /\ received = {}

Gone == pc = "gone"

-----------------------------------------------------------------------------
(* network_tick reads the clock and calls client_tick, which receives until *)
(* there is an answer.                                                      *)

TickBegin ==
    /\ pc = "sleep"
    /\ now' = clock
    /\ pc' = IF responseLength = 0 THEN "receive" ELSE "send"
    /\ UNCHANGED <<connectedAt, requestLength, responseLength, responseSent,
                   madeFrom, visitorVars, clockVars, received>>

(* Plausible error: no byte is kept for the terminating zero.               *)
RemainingWhole == RequestSize - requestLength

Remaining == RequestSize - 1 - requestLength

Receive(n) ==
    /\ pc = "receive" /\ n <= wire /\ n <= Remaining
    /\ wire' = wire - n
    /\ requestLength' = requestLength + n
    /\ IF requestLength + n >= marker
       THEN /\ responseLength' = ResponseLength /\ madeFrom' = version
            /\ pc' = "send"
       ELSE UNCHANGED <<responseLength, madeFrom, pc>>
    /\ UNCHANGED <<now, connectedAt, responseSent, written, marker, closed,
                   window, clockVars, received>>

Leave ==
    /\ pc' = "gone"
    /\ UNCHANGED <<workerVars, visitorVars, clockVars, received>>

RequestTooLong == pc = "receive" /\ Remaining = 0 /\ Leave

(* The end of the stream, or a reset, which drops what is on the wire.      *)
PeerClosed == pc = "receive" /\ Remaining > 0 /\ closed /\ Leave

(* EAGAIN: on to the clock.                                                 *)
ReceiveBlocks ==
    /\ pc = "receive" /\ Remaining > 0 /\ wire = 0 /\ ~closed
    /\ pc' = "clock"
    /\ UNCHANGED <<workerVars, visitorVars, clockVars, received>>

(* Plausible error: the rest is sent from an answer made anew.              *)
AnswerRemade == version

(* The bytes sent come from the response buffer.                            *)
AnswerKept == madeFrom

Send(n) ==
    /\ pc = "send" /\ n <= window /\ n <= responseLength - responseSent
    /\ window' = window - n
    /\ responseSent' = responseSent + n
    /\ received' = received \cup {AnswerKept}
    /\ pc' = IF responseSent + n = responseLength THEN "gone" ELSE "send"
    /\ UNCHANGED <<now, connectedAt, requestLength, responseLength, madeFrom,
                   wire, written, marker, closed, clockVars>>

SendFails == pc = "send" /\ closed /\ Leave

SendBlocks ==
    /\ pc = "send" /\ window = 0 /\ pc' = "clock"
    /\ UNCHANGED <<workerVars, visitorVars, clockVars, received>>

(* Plausible error: the age is not tested while an answer is being sent.    *)
ExpiredReading ==
    /\ responseLength = 0 /\ connectedAt # 0
    /\ now >= connectedAt /\ now - connectedAt >= Timeout

(* Plausible error: the unsigned difference wraps when the clock was set    *)
(* back.                                                                    *)
ExpiredUnsigned ==
    connectedAt # 0 /\ (now < connectedAt \/ now - connectedAt >= Timeout)

Expired ==
    connectedAt # 0 /\ now >= connectedAt /\ now - connectedAt >= Timeout

TickEnd ==
    /\ pc = "clock"
    /\ pc' = IF Expired THEN "gone" ELSE "sleep"
    /\ UNCHANGED <<workerVars, visitorVars, clockVars, received>>

-----------------------------------------------------------------------------
(* The visitor, the clock and the main thread.                              *)

VisitorWrites ==
    /\ ~Gone /\ ~closed /\ written < MaxBytes
    /\ wire' = wire + 1 /\ written' = written + 1
    /\ UNCHANGED <<pc, workerVars, marker, closed, window, clockVars,
                   received>>

VisitorReads ==
    /\ ~Gone /\ ~closed /\ window < ResponseLength
    /\ window' = window + 1
    /\ UNCHANGED <<pc, workerVars, wire, written, marker, closed, clockVars,
                   received>>

VisitorCloses ==
    /\ ~Gone /\ ~closed /\ closed' = TRUE
    /\ UNCHANGED <<pc, workerVars, wire, written, marker, window, clockVars,
                   received>>

ClockTicks ==
    /\ clock < MaxClock /\ clock' = clock + 1
    /\ UNCHANGED <<pc, workerVars, visitorVars, sets, version, received>>

ClockSet(t) ==
    /\ sets < MaxSets /\ sets' = sets + 1
    /\ clock' = t
    /\ UNCHANGED <<pc, workerVars, visitorVars, version, received>>

(* The next pass reads a newer snapshot.                                    *)
NewSnapshot ==
    /\ pc = "sleep" /\ version < MaxSnapshots /\ version' = version + 1
    /\ UNCHANGED <<pc, workerVars, visitorVars, clock, sets, received>>

-----------------------------------------------------------------------------
VisitStep ==
    \/ TickBegin \/ TickEnd
    \/ \E n \in 1 .. RequestSize : Receive(n)
    \/ RequestTooLong \/ PeerClosed \/ ReceiveBlocks
    \/ \E n \in 1 .. ResponseLength : Send(n)
    \/ SendFails \/ SendBlocks

VisitEnvironment ==
    \/ VisitorWrites \/ VisitorReads \/ VisitorCloses
    \/ ClockTicks \/ NewSnapshot
    \/ \E t \in 0 .. MaxClock : ClockSet(t)

VisitTerminated == Gone /\ UNCHANGED visitVars

VisitNext == VisitStep \/ VisitEnvironment \/ VisitTerminated

VisitSpec == VisitInit /\ [][VisitNext]_visitVars

(* The worker is scheduled and the clock advances; of the visitor nothing   *)
(* is assumed.                                                              *)
FairVisitSpec == VisitSpec /\ WF_visitVars(VisitStep) /\ WF_visitVars(ClockTicks)

-----------------------------------------------------------------------------
(* Properties.                                                              *)

(* Every variable stays in its type; the request leaves room for its        *)
(* terminating zero, and no more is sent than there is.                     *)
VisitTypeOK ==
    /\ pc \in {"sleep", "receive", "send", "clock", "gone"}
    /\ requestLength \in 0 .. RequestSize - 1
    /\ responseLength \in {0, ResponseLength}
    /\ responseSent \in 0 .. responseLength
    /\ marker \in Markers /\ written \in 0 .. MaxBytes /\ wire \in 0 .. written
    /\ window \in 0 .. ResponseLength
    /\ {clock, now, connectedAt} \subseteq 0 .. MaxClock /\ sets \in 0 .. MaxSets
    /\ {version, madeFrom} \subseteq 0 .. MaxSnapshots
    /\ received \subseteq 0 .. MaxSnapshots

(* Whatever the snapshot does between two passes, the bytes a visitor gets  *)
(* belong to one answer: prepare_response runs once per visitor.            *)
OneAnswer == \A a, b \in received : a = b

(* client_tick gives up on a visitor that has sent a proper request, keeps  *)
(* its side open and takes what it is sent only when the clock of the pass  *)
(* is the timeout or more past its accept; a clock set to an earlier time   *)
(* than that of the accept never ends the visit.                            *)
NotCutShort ==
    Gone /\ ~closed /\ marker < RequestSize =>
        \/ responseLength > 0 /\ responseSent = responseLength
        \/ now - connectedAt >= Timeout

(* Every visitor is removed, however slowly or quickly it writes, whether   *)
(* or not it reads, and although the clock may be set to any time; but for  *)
(* one accepted at time 0, which client_tick takes for one without a time.  *)
VisitorLeaves == connectedAt # 0 => <>Gone

=============================================================================
