------------------------------ MODULE Lifecycle ------------------------------
(***************************************************************************)
(* The life of the process (src/src/main.c, stn_stratum_server_init, _run  *)
(* up to its loop and _close, on both platforms) and what it holds of the  *)
(* operating system: descriptors, the telemetry thread and, on Windows,    *)
(* references to Winsock. Every step of start-up may fail and leads to the *)
(* same close; a stop signal may arrive at any time; the loop and the      *)
(* telemetry worker open and close sockets concurrently, and a descriptor  *)
(* closed by one is the next one the other is given.                       *)
(*                                                                         *)
(* The kernel is external: it hands out the lowest free descriptor, fails  *)
(* at will, and raises SIGPIPE on a send to a connection that its peer has *)
(* closed and then reset.                                                  *)
(***************************************************************************)
EXTENDS Integers

CONSTANTS
    NFds,       \* descriptors the process may have; 1 and 2 are left out
    Miners,     \* miner sessions
    Visitors,   \* telemetry visitors
    StdinOpen,  \* whether descriptor 0 is open when the process starts
    Builds      \* which platform branches are built: Windows is TRUE

Fds == 0 .. NFds - 1
None == -1

Listeners == {"pool", "solo"}
Components ==
    {"log", "telemetry", "rpc"} \cup Listeners \cup Miners \cup Visitors

ASSUME LifecycleAssumption ==
    /\ NFds \in Nat \ {0}
    /\ StdinOpen \in BOOLEAN /\ Builds \subseteq BOOLEAN
    /\ TRUE \in Builds => StdinOpen
    /\ Miners \cap Visitors = {}
    /\ (Miners \cup Visitors)
         \cap ({"log", "telemetry", "rpc", "free", "stdin"} \cup Listeners) = {}

VARIABLES
    windows,        \* the build; it does not change
    owner,          \* what each descriptor is open for
    handle,         \* the descriptor each component believes it holds
    pc,             \* where main is
    running,        \* server->running
    handlers,       \* whether the signal handlers are installed
    worker,         \* the telemetry thread
    workerRunning,  \* telemetry.worker_running
    broken,         \* connections their peer has closed and then reset
    wsa,            \* WSAStartup calls not yet undone by WSACleanup
    serverReady, rpcReady,  \* the two winsock_ready flags
    status          \* the process: up, exited, killed by a signal

fdVars  == <<owner, handle>>
wsaVars == <<wsa, serverReady, rpcReady>>
vars == <<windows, owner, handle, pc, running, handlers, worker, workerRunning,
          broken, wsa, serverReady, rpcReady, status>>

(* stn_stratum_server_init: the server is zeroed, then the listeners and    *)
(* telemetry get their invalid handle. The transport keeps descriptor 0.    *)
Init ==
    /\ windows \in Builds
    /\ owner = [d \in Fds |-> IF d = 0 /\ StdinOpen THEN "stdin" ELSE "free"]
    /\ handle = [x \in Components |-> IF x = "rpc" THEN 0 ELSE None]
    /\ pc = "handlers" /\ running = TRUE /\ handlers = FALSE
    /\ worker = "none" /\ workerRunning = FALSE
    /\ broken = {}
    /\ wsa = 0 /\ serverReady = FALSE /\ rpcReady = FALSE
    /\ status = "up"

-----------------------------------------------------------------------------
(* Descriptors.                                                             *)

Free == {d \in Fds : owner[d] = "free"}

(* socket, accept or fopen: the lowest free descriptor.                     *)
Open(x) ==
    \E d \in Free :
        /\ \A e \in Free : d <= e
        /\ owner' = [owner EXCEPT ![d] = x]
        /\ handle' = [handle EXCEPT ![x] = d]

(* Plausible error: the handle is not invalidated after the close.          *)
CloseKeepingHandles(xs) ==
    /\ owner' = [d \in Fds |->
                    IF \E x \in xs : handle[x] = d /\ ~(windows /\ d = 0)
                    THEN "free" ELSE owner[d]]
    /\ handle' = handle

(* close and closesocket free the descriptor whoever opened it; 0 is never  *)
(* a socket on Windows. The handle becomes the invalid one.                 *)
Close(xs) ==
    /\ owner' = [d \in Fds |->
                    IF \E x \in xs : handle[x] = d /\ ~(windows /\ d = 0)
                    THEN "free" ELSE owner[d]]
    /\ handle' = [x \in Components |-> IF x \in xs THEN None ELSE handle[x]]

(* Plausible error: WSACleanup is called without a look at winsock_ready.   *)
RpcCleanupAlways ==
    /\ wsa' = IF wsa > 0 THEN wsa - 1 ELSE 0
    /\ rpcReady' = FALSE

(* stn_rpc_win32_close gives back the transport's reference.                *)
RpcCleanup ==
    /\ wsa' = IF rpcReady THEN wsa - 1 ELSE wsa
    /\ rpcReady' = FALSE

-----------------------------------------------------------------------------
(* Start-up. A step that fails returns to main, which closes everything.    *)

Startup(from, to) == pc = from /\ status = "up" /\ pc' = to

Fails(step) ==
    /\ Startup(step, "close")
    /\ UNCHANGED <<fdVars, running, handlers, worker, workerRunning, broken,
                   wsaVars, status>>

InstallHandlers ==
    /\ Startup("handlers", "log")
    /\ handlers' = TRUE
    /\ UNCHANGED <<fdVars, running, worker, workerRunning, broken, wsaVars,
                   status>>

OpenLog ==
    /\ Startup("log", "config")
    /\ Open("log")
    /\ UNCHANGED <<running, handlers, worker, workerRunning, broken, wsaVars,
                   status>>

(* stn_chain_config_load opens and closes the file; at least one server.    *)
LoadConfig ==
    /\ Startup("config", "select")
    /\ UNCHANGED <<fdVars, running, handlers, worker, workerRunning, broken,
                   wsaVars, status>>

(* The first chain_transport_select: it closes the transport that was never *)
(* initialised, then initialises it.                                        *)
SelectFirst ==
    /\ Startup("select", IF windows THEN "winsock" ELSE "pool")
    /\ Close({"rpc"})
    /\ RpcCleanup
    /\ UNCHANGED <<running, handlers, worker, workerRunning, broken,
                   serverReady, status>>

WinsockOpen ==
    /\ Startup("winsock", "pool")
    /\ wsa' = wsa + 1 /\ serverReady' = TRUE
    /\ UNCHANGED <<fdVars, running, handlers, worker, workerRunning, broken,
                   rpcReady, status>>

OpenListener(x) ==
    /\ Startup(x, IF x = "pool" THEN "solo" ELSE "telemetry")
    /\ Open(x)
    /\ UNCHANGED <<running, handlers, worker, workerRunning, broken, wsaVars,
                   status>>

(* The second listener failed: the first one is closed.                     *)
SoloFails ==
    /\ Startup("solo", "close")
    /\ Close({"pool"})
    /\ UNCHANGED <<running, handlers, worker, workerRunning, broken, wsaVars,
                   status>>

(* stn_telemetry_service_open: the socket, then the worker.                 *)
OpenTelemetry ==
    /\ Startup("telemetry", "loop")
    /\ Open("telemetry")
    /\ workerRunning' = TRUE /\ worker' = "running"
    /\ UNCHANGED <<running, handlers, broken, wsaVars, status>>

(* It failed, on the socket or on the thread, and has closed the socket.    *)
TelemetryFails ==
    /\ Startup("telemetry", "close")
    /\ Close(Listeners)
    /\ UNCHANGED <<running, handlers, worker, workerRunning, broken, wsaVars,
                   status>>

-----------------------------------------------------------------------------
(* The loop, as far as it opens and closes descriptors.                     *)

(* Plausible error: run sets running itself, after the handlers are in      *)
(* place.                                                                   *)
ForgetStop == pc = "loop" /\ status = "up" /\ pc' = "pass" /\ running' = TRUE

(* while(server->running).                                                  *)
TestRunning ==
    /\ pc = "loop" /\ status = "up"
    /\ pc' = IF running THEN "pass" ELSE "close"
    /\ UNCHANGED running

EnterPass ==
    /\ TestRunning
    /\ UNCHANGED <<fdVars, handlers, worker, workerRunning, broken, wsaVars,
                   status>>

EndPass ==
    /\ pc = "pass" /\ status = "up"
    /\ pc' = "loop"
    /\ UNCHANGED <<fdVars, running, handlers, worker, workerRunning, broken,
                   wsaVars, status>>

InPass == pc = "pass" /\ status = "up"

AcceptMiner(m) ==
    /\ InPass /\ handle[m] = None
    /\ Open(m)
    /\ UNCHANGED <<pc, running, handlers, worker, workerRunning, broken,
                   wsaVars, status>>

(* client_remove; a send to a miner never raises SIGPIPE.                   *)
RemoveMiner(m) ==
    /\ InPass /\ handle[m] # None
    /\ Close({m})
    /\ broken' = broken \ {m}
    /\ UNCHANGED <<pc, running, handlers, worker, workerRunning, wsaVars,
                   status>>

(* connect_socket; on Windows Winsock first, which stays when the rest      *)
(* fails.                                                                   *)
RpcConnect ==
    /\ InPass /\ handle["rpc"] = None
    /\ rpcReady' = windows
    /\ wsa' = IF windows /\ ~rpcReady THEN wsa + 1 ELSE wsa
    /\ Open("rpc") \/ UNCHANGED fdVars
    /\ UNCHANGED <<pc, running, handlers, worker, workerRunning, broken,
                   serverReady, status>>

(* drop_socket after a failed exchange.                                     *)
RpcDrop ==
    /\ InPass /\ handle["rpc"] # None
    /\ Close({"rpc"})
    /\ broken' = broken \ {"rpc"}
    /\ UNCHANGED <<pc, running, handlers, worker, workerRunning, wsaVars,
                   status>>

(* chain_transport_next.                                                    *)
Reselect ==
    /\ InPass
    /\ Close({"rpc"})
    /\ RpcCleanup
    /\ broken' = broken \ {"rpc"}
    /\ UNCHANGED <<pc, running, handlers, worker, workerRunning, serverReady,
                   status>>

(* A send, without MSG_NOSIGNAL, to a connection its peer has closed and    *)
(* then reset. After a reset alone the first send fails with ECONNRESET,    *)
(* and the socket is dropped: that is RpcDrop, or RemoveVisitor.            *)
Killed ==
    /\ status' = "killed"
    /\ UNCHANGED <<fdVars, pc, running, handlers, worker, workerRunning, broken,
                   wsaVars>>

RpcSendToBroken == InPass /\ ~windows /\ "rpc" \in broken /\ Killed

-----------------------------------------------------------------------------
(* The telemetry worker.                                                    *)

WorkerUp == worker = "running" /\ status = "up"

AcceptVisitor(v) ==
    /\ WorkerUp /\ handle[v] = None
    /\ Open(v)
    /\ UNCHANGED <<pc, running, handlers, worker, workerRunning, broken,
                   wsaVars, status>>

RemoveVisitor(v) ==
    /\ WorkerUp /\ handle[v] # None
    /\ Close({v})
    /\ broken' = broken \ {v}
    /\ UNCHANGED <<pc, running, handlers, worker, workerRunning, wsaVars,
                   status>>

VisitorSendToBroken(v) == WorkerUp /\ ~windows /\ v \in broken /\ Killed

WorkerEnds ==
    /\ WorkerUp /\ ~workerRunning
    /\ worker' = "ended"
    /\ UNCHANGED <<windows, fdVars, pc, running, handlers, workerRunning, broken,
                   wsaVars, status>>

-----------------------------------------------------------------------------
(* stn_stratum_server_close, then the return of main.                       *)

CloseMiners ==
    /\ Startup("close", "join")
    /\ Close(Miners)
    /\ broken' = broken \ Miners
    /\ workerRunning' = FALSE
    /\ UNCHANGED <<running, handlers, worker, wsaVars, status>>

(* Plausible error: the worker is not waited for.                           *)
NoJoin == TRUE

Joined == worker # "running"

(* stn_telemetry_service_close behind its join.                             *)
CloseTelemetry ==
    /\ Joined
    /\ Startup("join", "rest")
    /\ Close(Visitors \cup {"telemetry"})
    /\ broken' = broken \ Visitors
    /\ UNCHANGED <<running, handlers, worker, workerRunning, wsaVars, status>>

CloseListeners ==
    /\ Startup("rest", "transport")
    /\ Close(Listeners)
    /\ UNCHANGED <<running, handlers, worker, workerRunning, broken, wsaVars,
                   status>>

CloseTransport ==
    /\ Startup("transport", IF windows THEN "cleanup" ELSE "last")
    /\ Close({"rpc"})
    /\ RpcCleanup
    /\ broken' = {}
    /\ UNCHANGED <<running, handlers, worker, workerRunning, serverReady, status>>

WinsockClose ==
    /\ Startup("cleanup", "last")
    /\ wsa' = IF serverReady THEN wsa - 1 ELSE wsa
    /\ serverReady' = FALSE
    /\ UNCHANGED <<fdVars, running, handlers, worker, workerRunning, broken,
                   rpcReady, status>>

CloseLog ==
    /\ Startup("last", "done")
    /\ Close({"log"})
    /\ status' = "exited"
    /\ UNCHANGED <<running, handlers, worker, workerRunning, broken, wsaVars>>

-----------------------------------------------------------------------------
(* The environment.                                                         *)

(* SIGINT or SIGTERM: the handler clears running; without it the process    *)
(* dies.                                                                    *)
Signal ==
    /\ status = "up" /\ running
    /\ IF handlers THEN running' = FALSE /\ UNCHANGED status
                   ELSE status' = "killed" /\ UNCHANGED running
    /\ UNCHANGED <<fdVars, pc, handlers, worker, workerRunning, broken,
                   wsaVars>>

(* The peer closes its side, and a reset follows: it is sent more than it   *)
(* wants, or it ends the connection for good.                               *)
PeerBreaks(x) ==
    /\ status = "up" /\ handle[x] # None /\ owner[handle[x]] = x
    /\ broken' = broken \cup {x}
    /\ UNCHANGED <<fdVars, pc, running, handlers, worker, workerRunning,
                   wsaVars, status>>

MainStep ==
    /\ \/ InstallHandlers \/ OpenLog \/ LoadConfig \/ SelectFirst \/ WinsockOpen
       \/ \E x \in Listeners : OpenListener(x)
       \/ OpenTelemetry
       \/ \E s \in {"handlers", "log", "config", "winsock", "pool"} : Fails(s)
       \/ SoloFails \/ TelemetryFails
       \/ EnterPass \/ EndPass
       \/ CloseMiners \/ CloseTelemetry
       \/ CloseListeners \/ CloseTransport \/ WinsockClose \/ CloseLog
    /\ UNCHANGED windows

SocketStep ==
    /\ \/ \E m \in Miners : AcceptMiner(m) \/ RemoveMiner(m)
       \/ RpcConnect \/ RpcDrop \/ Reselect \/ RpcSendToBroken
       \/ \E v \in Visitors :
             AcceptVisitor(v) \/ RemoveVisitor(v) \/ VisitorSendToBroken(v)
    /\ UNCHANGED windows

Environment ==
    /\ \/ Signal
       \/ \E x \in {"rpc"} \cup Miners \cup Visitors : PeerBreaks(x)
    /\ UNCHANGED windows

Terminated == status # "up" /\ UNCHANGED vars

Next == MainStep \/ SocketStep \/ WorkerEnds \/ Environment \/ Terminated

Spec == Init /\ [][Next]_vars

(* main and the worker keep stepping: every wait of theirs has a timeout.   *)
(* That a pass ends assumes that no miner keeps its socket filled for ever; *)
(* StratumServer is about what happens when one does.                       *)
FairSpec == Spec /\ WF_vars(MainStep) /\ WF_vars(WorkerEnds)

-----------------------------------------------------------------------------
(* Properties.                                                              *)

(* A handle names a descriptor its own component has opened, whichever      *)
(* thread closed and reopened descriptors in between and however start-up   *)
(* failed. The one exception is the zeroed transport, whose descriptor 0 is *)
(* standard input until the first chain_transport_select closes it.         *)
HandlesOwned ==
    \A x \in Components : handle[x] # None =>
        owner[handle[x]] = x \/ (x = "rpc" /\ owner[handle[x]] = "stdin")

(* Whatever was opened before the step that failed, or by the worker before *)
(* the stop, is given back when main returns, Winsock included.             *)
ExitReleasesAll ==
    status = "exited" =>
        /\ \A d \in Fds : owner[d] \in {"free", "stdin"}
        /\ wsa = 0 /\ worker # "running"

(* Winsock is up while a socket is open, however often the transport is     *)
(* reselected.                                                              *)
WinsockHeld ==
    windows /\ (\E d \in Fds : owner[d] \notin {"free", "stdin", "log"})
        => wsa > 0

(* A stop signal, also one that arrives during start-up before the loop has *)
(* read running, ends the process.                                          *)
StopCompletes == ~running ~> status # "up"

-----------------------------------------------------------------------------
(* What the documents say and the code does not do.                         *)

(* docs/CHANGELOG.md: a lost transport is an uncertain failure and later    *)
(* calls can reconnect. A send, to the chain or to a visitor of telemetry,  *)
(* that meets a connection closed and then reset by its peer raises         *)
(* SIGPIPE, which main leaves at its default: there is no later call.       *)
SurvivesReset == handlers => status # "killed"

=============================================================================
