--------------------------- MODULE TelemetryService ---------------------------
(***************************************************************************)
(* Telemetry (src/src/stn_telemetry.c): the main thread publishes status   *)
(* snapshots under a sequence counter, a worker thread copies them without *)
(* a lock and serves them to HTTP visitors, and close stops and joins the  *)
(* worker before it frees what the worker owned.                           *)
(*                                                                         *)
(* A field of the snapshot holds the number of the publication that wrote  *)
(* it, so a copy is torn when its fields differ.                           *)
(***************************************************************************)
EXTENDS Integers, FiniteSets

CONSTANTS
    Fields,       \* the fields of stn_telemetry_snapshot
    Visitors,     \* HTTP connections; each is used once
    MaxPublish,   \* bound: publications in the life of the process
    SeqModulus,   \* range of snapshot_sequence, an atomic_uint
    Ordered       \* whether field accesses keep their place in program order

ASSUME TelemetryAssumption ==
    /\ Fields # {}
    /\ IsFiniteSet(Fields)
    /\ MaxPublish \in Nat
    /\ SeqModulus \in Nat
    /\ 2 * MaxPublish + 1 < SeqModulus
    /\ Ordered \in BOOLEAN

VARIABLES
    seq,        \* snapshot_sequence
    snapshot,   \* the shared fields
    published,  \* publications completed
    mpc,        \* main thread
    unwritten,  \* fields the running publication has yet to write
    wpc,        \* worker thread
    before,     \* local variables of snapshot_read
    copy,
    uncopied,
    workerRunning,
    visitor,    \* state of each HTTP connection
    answer,     \* the copy each visitor was answered from
    unserved    \* rest of the worker's walk of the client list

mainVars   == <<mpc, unwritten, published>>
readVars   == <<before, copy, uncopied>>
httpVars   == <<visitor, answer>>
vars == <<seq, snapshot, published, mpc, unwritten, wpc, before, copy, uncopied,
          workerRunning, visitor, answer, unserved>>

Even(n) == n % 2 = 0

(* The state after stn_telemetry_service_open: worker started, snapshot     *)
(* zeroed.                                                                  *)
Init ==
    /\ seq = 0 /\ published = 0
    /\ snapshot = [f \in Fields |-> 0]
    /\ mpc = "loop" /\ unwritten = {}
    /\ wpc = "check"
    /\ before = 0 /\ copy = [f \in Fields |-> 0] /\ uncopied = {}
    /\ workerRunning = TRUE
    /\ visitor = [v \in Visitors |-> "idle"]
    /\ answer = [v \in Visitors |-> [f \in Fields |-> 0]]
    /\ unserved = {}

-----------------------------------------------------------------------------
(* Main thread: snapshot_publish, called once per pass by telemetry_tick.   *)

Publish ==
    /\ mpc = "loop" /\ published < MaxPublish
    /\ mpc' = "enter" /\ unwritten' = Fields
    /\ UNCHANGED <<seq, snapshot, published, wpc, readVars, workerRunning, httpVars, unserved>>

(* The store of sequence+1. As a release store it keeps earlier accesses    *)
(* before it and does not keep later ones after it.                         *)
PublishEnter ==
    /\ mpc = "enter"
    /\ seq' = (seq + 1) % SeqModulus
    /\ mpc' = "write"
    /\ UNCHANGED <<snapshot, published, unwritten, wpc, readVars, workerRunning, httpVars, unserved>>

(* Where a field store can take effect.                                     *)
WritePoints == IF Ordered THEN {"write"} ELSE {"enter", "write"}

PublishField(f) ==
    /\ mpc \in WritePoints /\ f \in unwritten
    /\ snapshot' = [snapshot EXCEPT ![f] = published + 1]
    /\ unwritten' = unwritten \ {f}
    /\ UNCHANGED <<seq, published, mpc, wpc, readVars, workerRunning, httpVars, unserved>>

(* The release store of sequence+2 follows every field.                     *)
PublishLeave ==
    /\ mpc = "write" /\ unwritten = {}
    /\ seq' = (seq + 1) % SeqModulus
    /\ published' = published + 1
    /\ mpc' = "loop"
    /\ UNCHANGED <<snapshot, unwritten, wpc, readVars, workerRunning, httpVars, unserved>>

(* stn_telemetry_service_close: stop, join, then free.                      *)
CloseStop ==
    /\ mpc = "loop"
    /\ workerRunning' = FALSE
    /\ mpc' = "join"
    /\ UNCHANGED <<seq, snapshot, published, unwritten, wpc, readVars, httpVars, unserved>>

(* Plausible error: close does not wait for the worker.                     *)
NoJoin == mpc = "join"

Joined == mpc = "join" /\ wpc = "exit"

CloseFree ==
    /\ Joined
    /\ visitor' = [v \in Visitors |-> "gone"]
    /\ mpc' = "closed"
    /\ UNCHANGED <<seq, snapshot, published, unwritten, wpc, readVars,
                   workerRunning, answer, unserved>>

-----------------------------------------------------------------------------
(* Worker thread: telemetry_worker.                                         *)

WorkerCheck ==
    /\ wpc = "check"
    /\ wpc' = IF workerRunning THEN "load" ELSE "exit"
    /\ UNCHANGED <<seq, snapshot, mainVars, readVars, workerRunning, httpVars, unserved>>

(* snapshot_read: an odd count means a publication is under way; continue   *)
(* re-evaluates the loop condition with whatever is in after, and every     *)
(* value of after makes it loop.                                            *)
ReadBegin ==
    /\ wpc = "load" /\ Even(seq)
    /\ before' = seq
    /\ uncopied' = Fields
    /\ wpc' = "copy"
    /\ UNCHANGED <<seq, snapshot, mainVars, copy, workerRunning, httpVars, unserved>>

ReadOdd ==
    /\ wpc = "load" /\ ~Even(seq)
    /\ before' = seq
    /\ UNCHANGED <<seq, snapshot, mainVars, wpc, copy, uncopied, workerRunning, httpVars, unserved>>

ReadField(f) ==
    /\ wpc = "copy" /\ f \in uncopied
    /\ copy' = [copy EXCEPT ![f] = snapshot[f]]
    /\ uncopied' = uncopied \ {f}
    /\ UNCHANGED <<seq, snapshot, mainVars, wpc, before, workerRunning, httpVars, unserved>>

(* Plausible errors: the second load is not compared, only its parity is,   *)
(* or its parity is tested the wrong way round.                             *)
AcceptAny == TRUE
AcceptEven == Even(seq)
AcceptOdd == before = seq /\ ~Even(seq)

ReadAccepted == before = seq /\ Even(seq)

ReadEnd ==
    /\ wpc = "copy" /\ uncopied = {}
    /\ wpc' = IF ReadAccepted THEN "serve" ELSE "load"
    /\ UNCHANGED <<seq, snapshot, mainVars, readVars, workerRunning, httpVars, unserved>>

(* network_tick after the read: accept everything that is queued, then walk *)
(* the client list.                                                         *)
AcceptVisitors ==
    /\ wpc = "serve"
    /\ visitor' = [v \in Visitors |-> IF visitor[v] = "queued" THEN "reading" ELSE visitor[v]]
    /\ unserved' = {v \in Visitors : visitor[v] \in {"queued", "reading", "sending"}}
    /\ wpc' = "walk"
    /\ UNCHANGED <<seq, snapshot, mainVars, readVars, workerRunning, answer>>

(* client_tick. A complete request is answered from this pass's copy, once; *)
(* later passes only send the rest. A visitor that has closed, has filled   *)
(* the request buffer, has been sent everything or has been connected for   *)
(* two seconds is removed.                                                  *)
VisitorTick(v) ==
    /\ wpc = "walk" /\ v \in unserved
    /\ unserved' = unserved \ {v}
    /\ \/ visitor' = [visitor EXCEPT ![v] = "gone"] /\ UNCHANGED answer
       \/ UNCHANGED httpVars
       \/ /\ visitor[v] = "reading"
          /\ answer' = [answer EXCEPT ![v] = copy]
          /\ \E next \in {"sending", "gone"} : visitor' = [visitor EXCEPT ![v] = next]
    /\ UNCHANGED <<seq, snapshot, mainVars, wpc, readVars, workerRunning>>

(* The walk is over; the worker sleeps and looks at worker_running again.   *)
WorkerSleep ==
    /\ wpc = "walk" /\ unserved = {}
    /\ wpc' = "check"
    /\ UNCHANGED <<seq, snapshot, mainVars, readVars, workerRunning, httpVars, unserved>>

(* A visitor connects; the listening socket queues it.                      *)
VisitorConnect(v) ==
    /\ visitor[v] = "idle" /\ mpc # "closed"
    /\ visitor' = [visitor EXCEPT ![v] = "queued"]
    /\ UNCHANGED <<seq, snapshot, mainVars, wpc, readVars, workerRunning, answer, unserved>>

-----------------------------------------------------------------------------

MainStep ==
    \/ Publish \/ PublishEnter \/ PublishLeave
    \/ \E f \in Fields : PublishField(f)
    \/ CloseStop \/ CloseFree

WorkerStep ==
    \/ WorkerCheck \/ ReadBegin \/ ReadOdd \/ ReadEnd
    \/ \E f \in Fields : ReadField(f)
    \/ AcceptVisitors \/ WorkerSleep
    \/ \E v \in Visitors : VisitorTick(v)

Terminated == mpc = "closed" /\ UNCHANGED vars

Next == MainStep \/ WorkerStep \/ (\E v \in Visitors : VisitorConnect(v)) \/ Terminated

Spec == Init /\ [][Next]_vars

(* Both threads are scheduled by the operating system. Publishing is driven *)
(* by the main loop and stopping by the operator: neither is assumed.       *)
FairSpec ==
    /\ Spec
    /\ WF_vars(WorkerStep)
    /\ WF_vars(MainStep /\ mpc # "loop")

-----------------------------------------------------------------------------
(* Properties.                                                              *)

Versions == 0 .. MaxPublish

(* The variables of the two threads stay in their types; in particular the  *)
(* sequence counter does not wrap within MaxPublish publications.           *)
TypeOK ==
    /\ seq \in 0 .. SeqModulus - 1
    /\ published \in Versions
    /\ snapshot \in [Fields -> Versions]
    /\ mpc \in {"loop", "enter", "write", "join", "closed"}
    /\ unwritten \subseteq Fields
    /\ wpc \in {"check", "load", "copy", "serve", "walk", "exit"}
    /\ before \in 0 .. SeqModulus - 1
    /\ copy \in [Fields -> Versions]
    /\ uncopied \subseteq Fields
    /\ workerRunning \in BOOLEAN
    /\ visitor \in [Visitors -> {"idle", "queued", "reading", "sending", "gone"}]
    /\ answer \in [Visitors -> [Fields -> Versions]]
    /\ unserved \subseteq Visitors

(* What a visitor is answered is one publication as a whole, never a mix of *)
(* two, although the worker copies the snapshot without a lock.             *)
AnswersWhole == \A v \in Visitors : \A f, g \in Fields : answer[v][f] = answer[v][g]

(* A copy the worker accepted is a publication that was complete by then,   *)
(* and no older than the one that was current when the copy began.          *)
CopyCurrent ==
    wpc \in {"serve", "walk"} =>
        \A f \in Fields : copy[f] = before \div 2 /\ copy[f] <= published

(* The sockets of visitors belong to the worker: the main thread changes    *)
(* their state only once the worker has left its loop, and the worker never *)
(* walks the list after it was freed.                                       *)
WorkerOwnsSockets ==
    /\ mpc = "closed" => wpc = "exit"
    /\ unserved # {} => mpc # "closed"

(* stn_telemetry_service_close returns: the worker always gets out of       *)
(* snapshot_read and of its walk, and is joined.                            *)
CloseCompletes == mpc = "join" ~> mpc = "closed"

=============================================================================
