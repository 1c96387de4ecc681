----------------------------- MODULE StartupProofs -----------------------------
(***************************************************************************)
(* Proofs about what a process holds and reads as it starts.               *)
(*                                                                         *)
(* What it holds of the operating system, for any number of descriptors,   *)
(* miners and visitors and for either build: the handles stay its own,     *)
(* Winsock is up under every socket, and main returns with nothing left    *)
(* open. That descriptor 0 is open when the process starts is a hypothesis *)
(* of these theorems: the transport that was zeroed and never initialised  *)
(* holds descriptor 0, and would close whatever was opened there.          *)
(*                                                                         *)
(* stn_chain_config_load, for any names, digits and bounds: every block of *)
(* the heap has one holder whichever way the load ends, and the caller's   *)
(* configuration is the old one or the whole of the file.                  *)
(***************************************************************************)
EXTENDS Lifecycle, ChainConfig, Induction

-----------------------------------------------------------------------------
(* The inductive invariant.                                                 *)

Starting == {"handlers", "log", "config", "select", "winsock", "pool", "solo",
             "telemetry"}
MainAt == Starting \cup {"loop", "pass", "close", "join", "rest",
                       "transport", "cleanup", "last", "done"}

LifeTypeOK ==
    /\ windows \in BOOLEAN
    /\ owner \in [Fds -> Components \cup {"free", "stdin"}]
    /\ handle \in [Components -> Fds \cup {None}]
    /\ pc \in MainAt
    /\ worker \in {"none", "running", "ended"}
    /\ serverReady \in BOOLEAN /\ rpcReady \in BOOLEAN

(* The converse of HandlesOwned: nobody has forgotten what it opened.       *)
OwnersKnow == \A d \in Fds : owner[d] \in Components => handle[owner[d]] = d

StdinKept == windows => owner[0] = "stdin"

FdInv == HandlesOwned /\ OwnersKnow /\ StdinKept

(* What a step of start-up is about to open is not open yet.                *)
Unopened ==
    /\ pc \in {"handlers", "log"} => handle["log"] = None
    /\ pc \in Starting => handle["telemetry"] = None
    /\ pc \in Starting \ {"telemetry"} => handle["solo"] = None
    /\ pc \in Starting \ {"solo", "telemetry"} => handle["pool"] = None

(* What the close is past stays closed.                                     *)
Shut ==
    /\ pc \in {"join", "rest", "transport", "cleanup", "last", "done"} =>
          \A m \in Miners : handle[m] = None
    /\ pc \in {"rest", "transport", "cleanup", "last", "done"} =>
          /\ worker # "running"
          /\ \A x \in Visitors \cup {"telemetry"} : handle[x] = None
    /\ pc \in {"transport", "cleanup", "last", "done"} =>
          handle["pool"] = None /\ handle["solo"] = None
    /\ pc \in {"cleanup", "last", "done"} => handle["rpc"] = None /\ ~rpcReady
    /\ pc \in {"last", "done"} => ~serverReady
    /\ pc = "done" => handle["log"] = None
    /\ status = "exited" => pc = "done"

(* The references to Winsock are those the two flags tell of.               *)
WsaInv ==
    /\ wsa = (IF serverReady THEN 1 ELSE 0) + (IF rpcReady THEN 1 ELSE 0)
    /\ ~windows => ~serverReady /\ ~rpcReady
    /\ pc = "winsock" => windows
    /\ pc \in {"handlers", "log", "config", "select", "winsock"} => ~serverReady
    /\ windows /\ (pc \in {"pool", "solo", "telemetry", "loop", "pass"}
                     \/ worker = "running") => serverReady
    /\ windows /\ ~serverReady =>
          /\ \A x \in Components \ {"log", "rpc"} : handle[x] = None
          /\ handle["rpc"] \in {0, None}

LifeInv == LifeTypeOK /\ FdInv /\ Unopened /\ Shut /\ WsaInv

-----------------------------------------------------------------------------
(* Descriptors.                                                             *)

(* A session is none of the other components, and nothing the kernel calls  *)
(* a descriptor is a component's name.                                      *)
LEMMA Names ==
    /\ "free" \notin Components /\ "stdin" \notin Components
    /\ {"log", "telemetry", "rpc", "pool", "solo"} \subseteq Components
    /\ Miners \subseteq Components /\ Visitors \subseteq Components
    /\ \A x \in Miners \cup Visitors :
          x \notin {"log", "telemetry", "rpc", "pool", "solo"}
    /\ Miners \cap Visitors = {}
    /\ 0 \in Fds /\ None \notin Fds /\ Fds \subseteq Int
  BY LifecycleAssumption DEF Components, Listeners, Fds, None

(* Open gives a component that holds nothing the lowest free descriptor,    *)
(* which no other component believes it holds.                              *)
LEMMA OpenOwns ==
    ASSUME LifeTypeOK, FdInv, NEW x \in Components, handle[x] = None, Open(x),
           windows' = windows
    PROVE  /\ owner' \in [Fds -> Components \cup {"free", "stdin"}]
           /\ handle' \in [Components -> Fds \cup {None}]
           /\ FdInv'
           /\ \A y \in Components : y # x => handle'[y] = handle[y]
  <1> PICK d \in Free : /\ owner' = [owner EXCEPT ![d] = x]
                        /\ handle' = [handle EXCEPT ![x] = d]
    BY DEF Open
  <1>1. d \in Fds /\ owner[d] = "free"
    BY DEF Free
  <1>2. \A y \in Components : handle[y] # d
    BY <1>1, Names DEF FdInv, HandlesOwned
  <1>3. owner' \in [Fds -> Components \cup {"free", "stdin"}]
        /\ handle' \in [Components -> Fds \cup {None}]
    BY <1>1 DEF LifeTypeOK
  <1>4. HandlesOwned'
    BY <1>1, <1>2, Names DEF LifeTypeOK, FdInv, HandlesOwned
  <1>5. OwnersKnow'
    BY <1>1, <1>2, Names DEF LifeTypeOK, FdInv, OwnersKnow
  <1>6. StdinKept'
    BY <1>1, Names DEF LifeTypeOK, FdInv, StdinKept
  <1> QED
    BY <1>3, <1>4, <1>5, <1>6 DEF FdInv, LifeTypeOK

(* Close frees the descriptors of the components it is given and of no      *)
(* other, and leaves them without a handle.                                 *)
LEMMA CloseOwns ==
    ASSUME LifeTypeOK, FdInv, NEW xs \in SUBSET Components, Close(xs),
           windows' = windows
    PROVE  /\ owner' \in [Fds -> Components \cup {"free", "stdin"}]
           /\ handle' \in [Components -> Fds \cup {None}]
           /\ FdInv'
           /\ \A y \in Components :
                 handle'[y] = IF y \in xs THEN None ELSE handle[y]
  <1>1. owner' \in [Fds -> Components \cup {"free", "stdin"}]
        /\ handle' \in [Components -> Fds \cup {None}]
    BY DEF LifeTypeOK, Close
  <1>2. \A y \in Components :
           handle'[y] = IF y \in xs THEN None ELSE handle[y]
    BY DEF Close
  <1>3. \A d \in Fds : owner'[d] = IF \E x \in xs : handle[x] = d /\ ~(windows /\ d = 0)
                                   THEN "free" ELSE owner[d]
    BY DEF Close
  <1>4. HandlesOwned'
    <2> SUFFICES ASSUME NEW y \in Components, handle'[y] # None
                 PROVE  \/ owner'[handle'[y]] = y
                        \/ y = "rpc" /\ owner'[handle'[y]] = "stdin"
      BY DEF HandlesOwned
    <2>1. y \notin xs /\ handle'[y] = handle[y] /\ handle[y] \in Fds
      BY <1>2 DEF LifeTypeOK
    <2>2. \A x \in xs : handle[x] # handle[y]
      BY <2>1, Names DEF FdInv, HandlesOwned
    <2>3. owner'[handle[y]] = owner[handle[y]]
      BY <1>3, <2>1, <2>2
    <2> QED
      BY <2>1, <2>3 DEF FdInv, HandlesOwned
  <1>5. OwnersKnow'
    <2> SUFFICES ASSUME NEW d \in Fds, owner'[d] \in Components
                 PROVE  handle'[owner'[d]] = d
      BY DEF OwnersKnow
    <2>1. owner'[d] = owner[d] /\ ~\E x \in xs : handle[x] = d /\ ~(windows /\ d = 0)
      BY <1>3, Names
    <2>2. handle[owner[d]] = d
      BY <2>1 DEF FdInv, OwnersKnow
    <2>3. owner[d] \notin xs
      BY <2>1, <2>2, Names DEF FdInv, StdinKept
    <2> QED
      BY <1>2, <2>1, <2>2, <2>3
  <1>6. StdinKept'
    BY <1>3, Names DEF FdInv, StdinKept
  <1> QED
    BY <1>1, <1>2, <1>4, <1>5, <1>6 DEF FdInv

-----------------------------------------------------------------------------
(* The steps. Each says which components it gives or takes a descriptor,    *)
(* and the two lemmas above say what that does to the descriptors.          *)

(* A step of start-up, or of the close, keeps the invariant.                *)
LEMMA MainKeeps == ASSUME LifeInv, MainStep PROVE LifeInv'
  <1> USE DEF LifeInv
  <1> windows' = windows
    BY DEF MainStep
  <1>1. CASE InstallHandlers
    BY <1>1, Names DEF InstallHandlers, Startup, fdVars, wsaVars, LifeTypeOK,
       MainAt, Starting, FdInv, HandlesOwned, OwnersKnow, StdinKept, Unopened,
       Shut, WsaInv
  <1>2. CASE OpenLog
    <2>1. Open("log") /\ handle["log"] = None
      BY <1>2 DEF OpenLog, Startup, Unopened
    <2>2. /\ owner' \in [Fds -> Components \cup {"free", "stdin"}]
          /\ handle' \in [Components -> Fds \cup {None}]
          /\ FdInv'
          /\ \A y \in Components : y # "log" => handle'[y] = handle[y]
      BY <2>1, OpenOwns, Names
    <2>3. LifeTypeOK' /\ Unopened' /\ Shut'
      BY <1>2, <2>2, Names DEF OpenLog, Startup, wsaVars, LifeTypeOK, MainAt,
         Starting, Unopened, Shut
    <2>4. WsaInv'
      BY <1>2, <2>2, Names DEF OpenLog, Startup, wsaVars, WsaInv
    <2> QED
      BY <2>2, <2>3, <2>4
  <1>3. CASE LoadConfig
    BY <1>3, Names DEF LoadConfig, Startup, fdVars, wsaVars, LifeTypeOK,
       MainAt, Starting, FdInv, HandlesOwned, OwnersKnow, StdinKept, Unopened,
       Shut, WsaInv
  <1>4. CASE SelectFirst
    <2>1. /\ owner' \in [Fds -> Components \cup {"free", "stdin"}]
          /\ handle' \in [Components -> Fds \cup {None}]
          /\ FdInv'
          /\ \A y \in Components :
                handle'[y] = IF y \in {"rpc"} THEN None ELSE handle[y]
      BY <1>4, CloseOwns, Names DEF SelectFirst
    <2>2. LifeTypeOK' /\ Unopened' /\ Shut'
      BY <1>4, <2>1, Names DEF SelectFirst, Startup, RpcCleanup, LifeTypeOK,
         MainAt, Starting, Unopened, Shut
    <2>3. WsaInv'
      BY <1>4, <2>1, Names DEF SelectFirst, Startup, RpcCleanup, LifeTypeOK, WsaInv
    <2> QED
      BY <2>1, <2>2, <2>3
  <1>5. CASE WinsockOpen
    BY <1>5, Names DEF WinsockOpen, Startup, fdVars, LifeTypeOK,
       MainAt, Starting, FdInv, HandlesOwned, OwnersKnow, StdinKept, Unopened,
       Shut, WsaInv
  <1>6. CASE \E x \in Listeners : OpenListener(x)
    <2> PICK x \in Listeners : OpenListener(x)
      BY <1>6
    <2>1. /\ x \in {"pool", "solo"} /\ pc = x /\ Open(x) /\ x \in Components
          /\ handle[x] = None
      BY Names DEF OpenListener, Startup, Unopened, Listeners, Starting
    <2>2. /\ owner' \in [Fds -> Components \cup {"free", "stdin"}]
          /\ handle' \in [Components -> Fds \cup {None}]
          /\ FdInv'
          /\ \A y \in Components : y # x => handle'[y] = handle[y]
      BY <2>1, OpenOwns
    <2>3. LifeTypeOK' /\ Unopened' /\ Shut'
      BY <2>1, <2>2, Names DEF OpenListener, Startup, wsaVars, LifeTypeOK,
         MainAt, Starting, Unopened, Shut
    <2>4. WsaInv'
      BY <2>1, <2>2, Names DEF OpenListener, Startup, wsaVars, LifeTypeOK, WsaInv
    <2> QED
      BY <2>2, <2>3, <2>4
  <1>7. CASE OpenTelemetry
    <2>1. Open("telemetry") /\ handle["telemetry"] = None
      BY <1>7 DEF OpenTelemetry, Startup, Unopened, Starting
    <2>2. /\ owner' \in [Fds -> Components \cup {"free", "stdin"}]
          /\ handle' \in [Components -> Fds \cup {None}]
          /\ FdInv'
          /\ \A y \in Components : y # "telemetry" => handle'[y] = handle[y]
      BY <2>1, OpenOwns, Names
    <2>3. LifeTypeOK' /\ Unopened' /\ Shut'
      BY <1>7, <2>2, Names DEF OpenTelemetry, Startup, wsaVars, LifeTypeOK,
         MainAt, Starting, Unopened, Shut
    <2>4. WsaInv'
      BY <1>7, <2>2, Names DEF OpenTelemetry, Startup, wsaVars, LifeTypeOK, WsaInv
    <2> QED
      BY <2>2, <2>3, <2>4
  <1>8. CASE \E s \in {"handlers", "log", "config", "winsock", "pool"} : Fails(s)
    BY <1>8, Names DEF Fails, Startup, fdVars, wsaVars, LifeTypeOK,
       MainAt, Starting, FdInv, HandlesOwned, OwnersKnow, StdinKept, Unopened,
       Shut, WsaInv
  <1>9. CASE SoloFails
    <2>1. /\ owner' \in [Fds -> Components \cup {"free", "stdin"}]
          /\ handle' \in [Components -> Fds \cup {None}]
          /\ FdInv'
          /\ \A y \in Components :
                handle'[y] = IF y \in {"pool"} THEN None ELSE handle[y]
      BY <1>9, CloseOwns, Names DEF SoloFails
    <2>2. LifeTypeOK' /\ Unopened' /\ Shut' /\ WsaInv'
      BY <1>9, <2>1, Names DEF SoloFails, Startup, wsaVars, LifeTypeOK,
         MainAt, Starting, Unopened, Shut, WsaInv
    <2> QED
      BY <2>1, <2>2
  <1>10. CASE TelemetryFails
    <2>1. /\ owner' \in [Fds -> Components \cup {"free", "stdin"}]
          /\ handle' \in [Components -> Fds \cup {None}]
          /\ FdInv'
          /\ \A y \in Components :
                handle'[y] = IF y \in Listeners THEN None ELSE handle[y]
      BY <1>10, CloseOwns, Names DEF TelemetryFails, Listeners
    <2>2. LifeTypeOK' /\ Unopened' /\ Shut' /\ WsaInv'
      BY <1>10, <2>1, Names DEF TelemetryFails, Startup, wsaVars, LifeTypeOK,
         MainAt, Starting, Unopened, Shut, WsaInv
    <2> QED
      BY <2>1, <2>2
  <1>11. CASE EnterPass
    BY <1>11, Names DEF EnterPass, TestRunning, fdVars, wsaVars, LifeTypeOK,
       MainAt, Starting, FdInv, HandlesOwned, OwnersKnow, StdinKept, Unopened,
       Shut, WsaInv
  <1>12. CASE EndPass
    BY <1>12, Names DEF EndPass, fdVars, wsaVars, LifeTypeOK,
       MainAt, Starting, FdInv, HandlesOwned, OwnersKnow, StdinKept, Unopened,
       Shut, WsaInv
  <1>13. CASE CloseMiners
    <2>1. /\ owner' \in [Fds -> Components \cup {"free", "stdin"}]
          /\ handle' \in [Components -> Fds \cup {None}]
          /\ FdInv'
          /\ \A y \in Components :
                handle'[y] = IF y \in Miners THEN None ELSE handle[y]
      BY <1>13, CloseOwns, Names DEF CloseMiners
    <2>2. LifeTypeOK' /\ Unopened' /\ Shut'
      BY <1>13, <2>1, Names DEF CloseMiners, Startup, wsaVars, LifeTypeOK,
         MainAt, Starting, Unopened, Shut
    <2>3. WsaInv'
      BY <1>13, <2>1, Names DEF CloseMiners, Startup, wsaVars, LifeTypeOK, WsaInv
    <2> QED
      BY <2>1, <2>2, <2>3
  <1>14. CASE CloseTelemetry
    <2>1. /\ owner' \in [Fds -> Components \cup {"free", "stdin"}]
          /\ handle' \in [Components -> Fds \cup {None}]
          /\ FdInv'
          /\ \A y \in Components :
                handle'[y] = IF y \in Visitors \cup {"telemetry"} THEN None
                                                                 ELSE handle[y]
      BY <1>14, CloseOwns, Names DEF CloseTelemetry
    <2>2. LifeTypeOK' /\ Unopened' /\ Shut'
      BY <1>14, <2>1, Names DEF CloseTelemetry, Joined, Startup, wsaVars,
         LifeTypeOK, MainAt, Starting, Unopened, Shut
    <2>3. WsaInv'
      BY <1>14, <2>1, Names DEF CloseTelemetry, Startup, wsaVars, LifeTypeOK, WsaInv
    <2> QED
      BY <2>1, <2>2, <2>3
  <1>15. CASE CloseListeners
    <2>1. /\ owner' \in [Fds -> Components \cup {"free", "stdin"}]
          /\ handle' \in [Components -> Fds \cup {None}]
          /\ FdInv'
          /\ \A y \in Components :
                handle'[y] = IF y \in Listeners THEN None ELSE handle[y]
      BY <1>15, CloseOwns, Names DEF CloseListeners, Listeners
    <2>2. LifeTypeOK' /\ Unopened' /\ Shut'
      BY <1>15, <2>1, Names DEF CloseListeners, Listeners, Startup, wsaVars,
         LifeTypeOK, MainAt, Starting, Unopened, Shut
    <2>3. WsaInv'
      BY <1>15, <2>1, Names DEF CloseListeners, Startup, wsaVars, LifeTypeOK, WsaInv
    <2> QED
      BY <2>1, <2>2, <2>3
  <1>16. CASE CloseTransport
    <2>1. /\ owner' \in [Fds -> Components \cup {"free", "stdin"}]
          /\ handle' \in [Components -> Fds \cup {None}]
          /\ FdInv'
          /\ \A y \in Components :
                handle'[y] = IF y \in {"rpc"} THEN None ELSE handle[y]
      BY <1>16, CloseOwns, Names DEF CloseTransport
    <2>2. LifeTypeOK' /\ Unopened' /\ Shut'
      BY <1>16, <2>1, Names DEF CloseTransport, RpcCleanup, Startup, LifeTypeOK,
         MainAt, Starting, Unopened, Shut, WsaInv
    <2>3. WsaInv'
      BY <1>16, <2>1, Names DEF CloseTransport, RpcCleanup, Startup, LifeTypeOK, WsaInv
    <2> QED
      BY <2>1, <2>2, <2>3
  <1>17. CASE WinsockClose
    <2>1. UNCHANGED <<owner, handle, worker>> /\ pc = "cleanup" /\ pc' = "last"
      BY <1>17 DEF WinsockClose, Startup, fdVars
    <2>2. \A y \in Components : y # "log" => handle[y] = None
      BY <2>1 DEF Shut, Components, Listeners
    <2>3. LifeTypeOK' /\ FdInv' /\ Unopened' /\ Shut'
      BY <1>17, <2>1 DEF WinsockClose, Startup, LifeTypeOK, MainAt, Starting, FdInv,
         HandlesOwned, OwnersKnow, StdinKept, Unopened, Shut
    <2>4. WsaInv'
      BY <1>17, <2>1, <2>2, Names DEF WinsockClose, LifeTypeOK, WsaInv, Shut
    <2> QED
      BY <2>3, <2>4
  <1>18. CASE CloseLog
    <2>1. /\ owner' \in [Fds -> Components \cup {"free", "stdin"}]
          /\ handle' \in [Components -> Fds \cup {None}]
          /\ FdInv'
          /\ \A y \in Components :
                handle'[y] = IF y \in {"log"} THEN None ELSE handle[y]
      BY <1>18, CloseOwns, Names DEF CloseLog
    <2>2. LifeTypeOK' /\ Unopened' /\ Shut'
      BY <1>18, <2>1, Names DEF CloseLog, Startup, wsaVars, LifeTypeOK,
         MainAt, Starting, Unopened, Shut
    <2>3. WsaInv'
      BY <1>18, <2>1, Names DEF CloseLog, Startup, wsaVars, LifeTypeOK, WsaInv, Shut
    <2> QED
      BY <2>1, <2>2, <2>3
  <1> QED
    BY <1>1, <1>2, <1>3, <1>4, <1>5, <1>6, <1>7, <1>8, <1>9, <1>10, <1>11,
       <1>12, <1>13, <1>14, <1>15, <1>16, <1>17, <1>18 DEF MainStep

(* A socket opened or closed by the loop or by the worker, at the same      *)
(* time as main starts or closes, keeps the invariant.                      *)
LEMMA SocketKeeps == ASSUME LifeInv, SocketStep PROVE LifeInv'
  <1> USE DEF LifeInv
  <1> windows' = windows
    BY DEF SocketStep
  <1>1. ASSUME NEW x \in Miners \cup Visitors, handle[x] = None, Open(x),
               x \in Miners => pc = "pass",
               x \in Visitors => worker = "running",
               UNCHANGED <<pc, worker, wsaVars, status>>
        PROVE  LifeInv'
    <2>1. /\ owner' \in [Fds -> Components \cup {"free", "stdin"}]
          /\ handle' \in [Components -> Fds \cup {None}]
          /\ FdInv'
          /\ \A y \in Components : y # x => handle'[y] = handle[y]
      BY <1>1, OpenOwns, Names
    <2>2. LifeTypeOK' /\ Unopened' /\ Shut'
      BY <1>1, <2>1, Names DEF wsaVars, LifeTypeOK, MainAt, Starting, Unopened,
         Shut, Listeners
    <2>3. WsaInv'
      BY <1>1, <2>1, Names DEF wsaVars, WsaInv
    <2> QED
      BY <2>1, <2>2, <2>3
  <1>2. ASSUME NEW x \in Miners \cup Visitors \cup {"rpc"}, Close({x}),
               UNCHANGED <<pc, worker, wsaVars, status>>
        PROVE  LifeInv'
    <2>1. /\ owner' \in [Fds -> Components \cup {"free", "stdin"}]
          /\ handle' \in [Components -> Fds \cup {None}]
          /\ FdInv'
          /\ \A y \in Components :
                handle'[y] = IF y \in {x} THEN None ELSE handle[y]
      BY <1>2, CloseOwns, Names
    <2>2. LifeTypeOK' /\ Unopened' /\ Shut'
      BY <1>2, <2>1, Names DEF wsaVars, LifeTypeOK, MainAt, Starting, Unopened,
         Shut, Listeners
    <2>3. WsaInv'
      BY <1>2, <2>1, Names DEF wsaVars, WsaInv
    <2> QED
      BY <2>1, <2>2, <2>3
  <1>3. ASSUME NEW m \in Miners, AcceptMiner(m) \/ RemoveMiner(m)
        PROVE  LifeInv'
    BY <1>1, <1>2, <1>3, Names DEF AcceptMiner, RemoveMiner, InPass
  <1>4. ASSUME NEW v \in Visitors, AcceptVisitor(v) \/ RemoveVisitor(v)
        PROVE  LifeInv'
    BY <1>1, <1>2, <1>4, Names DEF AcceptVisitor, RemoveVisitor, WorkerUp
  <1>5. CASE RpcConnect
    <2>1. pc = "pass" /\ handle["rpc"] = None
      BY <1>5 DEF RpcConnect, InPass
    <2>2. /\ owner' \in [Fds -> Components \cup {"free", "stdin"}]
          /\ handle' \in [Components -> Fds \cup {None}]
          /\ FdInv'
          /\ \A y \in Components : y # "rpc" => handle'[y] = handle[y]
      <3>1. CASE Open("rpc")
        BY <2>1, <3>1, OpenOwns, Names
      <3>2. CASE UNCHANGED fdVars
        BY <3>2 DEF fdVars, LifeTypeOK, FdInv, HandlesOwned, OwnersKnow,
           StdinKept
      <3> QED
        BY <1>5, <3>1, <3>2 DEF RpcConnect
    <2>3. LifeTypeOK' /\ Unopened' /\ Shut'
      BY <1>5, <2>1, <2>2, Names DEF RpcConnect, LifeTypeOK, MainAt, Starting,
         Unopened, Shut, InPass
    <2>4. WsaInv'
      BY <1>5, <2>1, <2>2, Names DEF RpcConnect, LifeTypeOK, WsaInv
    <2> QED
      BY <2>2, <2>3, <2>4
  <1>6. CASE RpcDrop
    BY <1>2, <1>6 DEF RpcDrop
  <1>7. CASE Reselect
    <2>1. /\ owner' \in [Fds -> Components \cup {"free", "stdin"}]
          /\ handle' \in [Components -> Fds \cup {None}]
          /\ FdInv'
          /\ \A y \in Components :
                handle'[y] = IF y \in {"rpc"} THEN None ELSE handle[y]
      BY <1>7, CloseOwns, Names DEF Reselect
    <2>2. LifeTypeOK' /\ Unopened' /\ Shut'
      BY <1>7, <2>1, Names DEF Reselect, RpcCleanup, InPass, LifeTypeOK, MainAt,
         Starting, Unopened, Shut
    <2>3. WsaInv'
      BY <1>7, <2>1, Names DEF Reselect, RpcCleanup, InPass, LifeTypeOK, WsaInv
    <2> QED
      BY <2>1, <2>2, <2>3
  <1>8. CASE Killed
    BY <1>8 DEF Killed, fdVars, wsaVars, LifeTypeOK, FdInv, HandlesOwned,
       OwnersKnow, StdinKept, Unopened, Shut, WsaInv
  <1> QED
    BY <1>3, <1>4, <1>5, <1>6, <1>7, <1>8
       DEF SocketStep, RpcSendToBroken, VisitorSendToBroken

(* The end of the worker, a signal, a peer and the end of everything leave *)
(* descriptors and Winsock alone.                                           *)
LEMMA RestKeeps ==
    ASSUME LifeInv, WorkerEnds \/ Environment \/ Terminated
    PROVE  LifeInv'
  <1>1. CASE WorkerEnds
    BY <1>1 DEF LifeInv, WorkerEnds, WorkerUp, fdVars, wsaVars, LifeTypeOK, FdInv,
       HandlesOwned, OwnersKnow, StdinKept, Unopened, Shut, WsaInv
  <1>2. CASE Environment
    BY <1>2 DEF LifeInv, Environment, Signal, PeerBreaks, fdVars, wsaVars,
       LifeTypeOK, FdInv, HandlesOwned, OwnersKnow, StdinKept, Unopened, Shut,
       WsaInv
  <1>3. CASE Terminated
    BY <1>3 DEF LifeInv, Terminated, vars, LifeTypeOK, FdInv, HandlesOwned,
       OwnersKnow, StdinKept, Unopened, Shut, WsaInv
  <1> QED
    BY <1>1, <1>2, <1>3

(* The invariant holds from the start, when descriptor 0 is open, and every *)
(* step of main, the loop, the worker and the environment keeps it.         *)
THEOREM LifeInvariant == StdinOpen /\ Spec => []LifeInv
  <1>1. StdinOpen /\ Init => LifeInv
    <2> SUFFICES ASSUME StdinOpen, Init PROVE LifeInv
      OBVIOUS
    <2>1. windows \in BOOLEAN
      BY LifecycleAssumption DEF Init
    <2>2. /\ \A d \in Fds : owner[d] = IF d = 0 THEN "stdin" ELSE "free"
          /\ \A x \in Components : handle[x] = IF x = "rpc" THEN 0 ELSE None
      BY DEF Init
    <2>3. LifeTypeOK
      BY <2>1, Names DEF Init, LifeTypeOK, MainAt, Starting
    <2>4. FdInv
      BY <2>2, Names DEF FdInv, HandlesOwned, OwnersKnow, StdinKept
    <2>5. Unopened /\ Shut /\ WsaInv
      BY <2>2, Names DEF Init, Unopened, Shut, WsaInv, Starting
    <2> QED
      BY <2>3, <2>4, <2>5 DEF LifeInv
  <1>2. LifeInv /\ [Next]_vars => LifeInv'
    <2>1. ASSUME LifeInv, UNCHANGED vars PROVE LifeInv'
      BY <2>1 DEF LifeInv, vars, LifeTypeOK, FdInv, HandlesOwned, OwnersKnow,
         StdinKept, Unopened, Shut, WsaInv
    <2> QED
      BY <2>1, MainKeeps, SocketKeeps, RestKeeps DEF Next
  <1> QED
    BY <1>1, <1>2, PTL DEF Spec

-----------------------------------------------------------------------------
(* The results.                                                             *)

(* However start-up fails and whichever thread closes and reopens           *)
(* descriptors, no component closes, reads or writes one that is another's. *)
THEOREM HandlesStayOwned == StdinOpen /\ Spec => []HandlesOwned
  <1>1. LifeInv => HandlesOwned
    BY DEF LifeInv, FdInv
  <1> QED
    BY <1>1, LifeInvariant, PTL

(* The return of main has given back every descriptor, every reference to   *)
(* Winsock and the worker, from whichever step of start-up it came.         *)
THEOREM ExitReleases == StdinOpen /\ Spec => []ExitReleasesAll
  <1>1. LifeInv => ExitReleasesAll
    <2> SUFFICES ASSUME LifeInv, status = "exited"
                 PROVE  /\ \A d \in Fds : owner[d] \in {"free", "stdin"}
                        /\ wsa = 0 /\ worker # "running"
      BY DEF ExitReleasesAll
    <2>1. pc = "done" /\ wsa = 0 /\ worker # "running"
      BY DEF LifeInv, Shut, WsaInv
    <2>2. \A x \in Components : handle[x] = None
      BY <2>1 DEF LifeInv, Shut, Components, Listeners
    <2>3. \A d \in Fds : owner[d] \notin Components
      BY <2>2, Names DEF LifeInv, FdInv, OwnersKnow
    <2> QED
      BY <2>1, <2>3 DEF LifeInv, LifeTypeOK
  <1> QED
    BY <1>1, LifeInvariant, PTL

(* On Windows no socket outlives the last WSACleanup: the references of the *)
(* server and of the transport are counted apart and the server's is the    *)
(* last to go.                                                              *)
THEOREM WinsockStays == StdinOpen /\ Spec => []WinsockHeld
  <1>1. LifeInv => WinsockHeld
    <2> SUFFICES ASSUME LifeInv, windows, NEW d \in Fds,
                        owner[d] \notin {"free", "stdin", "log"}
                 PROVE  wsa > 0
      BY DEF WinsockHeld
    <2>1. owner[d] \in Components /\ handle[owner[d]] = d
      BY DEF LifeInv, LifeTypeOK, FdInv, OwnersKnow
    <2>2. serverReady
      <3> SUFFICES ASSUME ~serverReady PROVE FALSE
        OBVIOUS
      <3>1. owner[d] = "rpc" /\ d = 0
        BY <2>1, Names DEF LifeInv, WsaInv
      <3> QED
        BY <3>1 DEF LifeInv, FdInv, StdinKept
    <2> QED
      BY <2>2 DEF LifeInv, WsaInv
  <1> QED
    BY <1>1, LifeInvariant, PTL

-----------------------------------------------------------------------------
(* The heap of stn_chain_config_load.                                       *)

(* A heap and the places that hold pointers into it.                        *)
Owned(blocks, places) ==
    /\ blocks = {p[3] : p \in places}
    /\ \A p, q \in places : p[3] = q[3] => p = q

(* A fresh block that one new place holds.                                  *)
LEMMA OwnFresh ==
    ASSUME NEW blocks, NEW places, Owned(blocks, places), NEW b, b \notin blocks,
           NEW t, t[3] = b
    PROVE  Owned(blocks \cup {b}, places \cup {t})
  BY DEF Owned

(* Blocks that are freed together with the places that hold them.           *)
LEMMA OwnFewer ==
    ASSUME NEW blocks, NEW places, Owned(blocks, places), NEW freed
    PROVE  Owned(blocks \ freed, {p \in places : p[3] \notin freed})
  BY DEF Owned

(* A pointer that is freed, if it is one, and forgotten.                    *)
LEMMA OwnForgotten ==
    ASSUME NEW blocks, NEW places, Owned(blocks, places), NEW t,
           t \in places \/ t[3] \notin blocks
    PROVE  Owned(blocks \ {t[3]}, places \ {t})
  BY DEF Owned

(* A pointer that moves from one place to another.                          *)
LEMMA OwnMoved ==
    ASSUME NEW blocks, NEW places, Owned(blocks, places), NEW p \in places,
           NEW t, t[3] = p[3]
    PROVE  Owned(blocks, (places \ {p}) \cup {t})
  BY DEF Owned

-----------------------------------------------------------------------------
(* The inductive invariant: what has its type, and where each pointer of    *)
(* the parser is NULL, so that no assignment loses a block.                 *)

HostType == [at : Nat, name : Hosts \cup {"none", "empty"}]
ConfigType == [at : Nat, servers : Seq([host : HostType, port : Nat])]

LoadTypeOK ==
    /\ config \in ConfigType /\ loaded \in ConfigType
    /\ host \in HostType /\ entryHost \in HostType /\ port \in Nat

InField == {"hostColon", "hostValue", "portColon", "portValue", "digits", "reject"}
InServer == InField \cup {"fields", "afterField"}
InMember == InServer \cup {"colon", "list", "server", "append", "afterServer"}

PointersNull ==
    /\ parser = "file" => text = NULL
    /\ parser \notin InMember => memberKey = NULL
    /\ parser \notin InField => fieldKey = NULL
    /\ parser \notin InServer => host.at = NULL
    /\ parser # "reject" /\ "host" \notin have => host.at = NULL
    /\ parser = "hostValue" => "host" \notin have
    /\ parser # "append" => entryHost.at = NULL

LoadInv == LoadTypeOK /\ PointersNull /\ HeapOwned

(* HeapOwned speaks of the places in general.                               *)
LEMMA HeapIsOwned ==
    /\ HeapOwned <=> Owned(heap, Holders)
    /\ HeapOwned' <=> Owned(heap', Holders')
  BY DEF HeapOwned, Owned

(* The places of the parser's own pointers.                                 *)
Own(t, m, f, h, e) ==
    {<<"text", 0, t>>, <<"memberKey", 0, m>>, <<"fieldKey", 0, f>>,
     <<"host", 0, h>>, <<"entryHost", 0, e>>}

(* The places of the two configurations and those of the parser.            *)
Kept == Places(config, "config") \cup Places(loaded, "loaded")

(* The holders, by whose they are.                                          *)
LEMMA HoldersAre ==
    Holders = {p \in Kept \cup Own(text, memberKey, fieldKey, host.at, entryHost.at) :
                  p[3] # NULL}
  BY DEF Holders, Kept, Own

(* A block that malloc hands out is nobody's.                               *)
LEMMA FreshIs == ASSUME NEW b, Fresh(b) PROVE b \notin heap /\ b \in Nat /\ b # NULL
  BY ConfigAssumption DEF Fresh, Blocks, NULL

-----------------------------------------------------------------------------
(* The text gets its block.                                                 *)
LEMMA ReadFileKeeps == ASSUME LoadInv, ReadFile PROVE LoadInv'
  <1> PICK b \in Blocks : Malloc(b) /\ text' = b
    BY DEF ReadFile
  <1>1. b \notin heap /\ b # NULL
    BY FreshIs DEF Malloc
  <1>2. text = NULL
    BY DEF ReadFile, LoadInv, PointersNull
  <1>3. Holders' = Holders \cup {<<"text", 0, b>>}
    BY <1>1, <1>2 DEF ReadFile, Holders
  <1>4. HeapOwned'
    BY <1>1, <1>3, OwnFresh, HeapIsOwned DEF LoadInv, Malloc
  <1>5. LoadTypeOK' /\ PointersNull'
    BY DEF ReadFile, LoadInv, LoadTypeOK, PointersNull, InMember, InServer, InField
  <1> QED
    BY <1>4, <1>5 DEF LoadInv

(* Where the tokens that change nothing but the place lead.                 *)
LEMMA PunctuateMoves ==
    ASSUME Punctuate
    PROVE  \/ parser \in {"start", "members", "afterMember"}
              /\ parser' \in {"members", "tail"}
           \/ parser \in {"colon", "list", "server", "afterServer"}
              /\ parser' \in {"list", "server", "fields"}
           \/ parser = "hostColon" /\ parser' = "hostValue" /\ "host" \notin have
           \/ parser = "portColon" /\ parser' = "portValue" /\ "port" \notin have
           \/ parser = "afterField" /\ parser' = "fields"
  <1>1. PICK c \in Control : parser = c[1] /\ parser' = c[3] /\ c[4] \notin have
    BY DEF Punctuate, Meets
  <1>2. \A x, y, z, w : c = <<x, y, z, w>> => c[1] = x /\ c[3] = z /\ c[4] = w
    OBVIOUS
  <1>3. \/ c[1] = "start" /\ c[3] = "members"
        \/ c[1] = "colon" /\ c[3] = "list"
        \/ c[1] = "list" /\ c[3] = "server"
        \/ c[1] = "server" /\ c[3] = "fields"
        \/ c[1] = "hostColon" /\ c[3] = "hostValue" /\ c[4] = "host"
        \/ c[1] = "portColon" /\ c[3] = "portValue" /\ c[4] = "port"
        \/ c[1] = "afterField" /\ c[3] = "fields"
        \/ c[1] = "afterServer" /\ c[3] = "server"
        \/ c[1] = "afterMember" /\ c[3] = "members"
        \/ c[1] = "afterMember" /\ c[3] = "tail"
        \/ c[1] = "members" /\ c[3] = "tail"
    BY <1>2, Zenon DEF Control
  <1> QED
    BY <1>1, <1>3

(* Punctuation moves no pointer.                                            *)
LEMMA PunctuateKeeps == ASSUME LoadInv, Punctuate PROVE LoadInv'
  <1>1. UNCHANGED <<heap, config, loaded, text, memberKey, fieldKey, host, entryHost,
                    port, have>>
    BY DEF Punctuate, pointers
  <1>2. HeapOwned'
    BY <1>1 DEF LoadInv, HeapOwned, Holders
  <1>3. LoadTypeOK'
    BY <1>1 DEF LoadInv, LoadTypeOK
  <1>4. PointersNull'
    BY <1>1, PunctuateMoves DEF LoadInv, PointersNull, InMember, InServer,
       InField
  <1> QED
    BY <1>2, <1>3, <1>4 DEF LoadInv

(* The key of a member: parse_config has none yet.                          *)
LEMMA MemberKeyKeeps == ASSUME LoadInv, MemberKey PROVE LoadInv'
  <1> PICK b \in Blocks : Malloc(b) /\ memberKey' = b
    BY DEF MemberKey
  <1>1. b \notin heap /\ b # NULL
    BY FreshIs DEF Malloc
  <1>2. memberKey = NULL
    BY DEF MemberKey, Meets, LoadInv, PointersNull, InMember, InServer, InField
  <1>3. Holders' = Holders \cup {<<"memberKey", 0, b>>}
    BY <1>1, <1>2 DEF MemberKey, Holders
  <1>4. HeapOwned'
    BY <1>1, <1>3, OwnFresh, HeapIsOwned DEF LoadInv, Malloc
  <1>5. LoadTypeOK' /\ PointersNull'
    BY DEF MemberKey, Meets, LoadInv, LoadTypeOK, PointersNull, InMember, InServer, InField
  <1> QED
    BY <1>4, <1>5 DEF LoadInv

(* The key of a field: parse_server has freed the one before.               *)
LEMMA FieldKeyKeeps == ASSUME LoadInv, FieldKey PROVE LoadInv'
  <1> PICK b \in Blocks : Malloc(b) /\ fieldKey' = b
    BY DEF FieldKey
  <1>1. b \notin heap /\ b # NULL
    BY FreshIs DEF Malloc
  <1>2. fieldKey = NULL
    BY DEF FieldKey, Meets, LoadInv, PointersNull, InMember, InServer, InField
  <1>3. Holders' = Holders \cup {<<"fieldKey", 0, b>>}
    BY <1>1, <1>2 DEF FieldKey, Holders
  <1>4. HeapOwned'
    BY <1>1, <1>3, OwnFresh, HeapIsOwned DEF LoadInv, Malloc
  <1>5. LoadTypeOK' /\ PointersNull'
    BY DEF FieldKey, Meets, LoadInv, LoadTypeOK, PointersNull, InMember, InServer, InField
  <1> QED
    BY <1>4, <1>5 DEF LoadInv

(* An empty host is still a block.                                          *)
LEMMA EmptyHostKeeps == ASSUME LoadInv, EmptyHost PROVE LoadInv'
  <1> PICK b \in Blocks : Malloc(b) /\ host' = [at |-> b, name |-> "empty"]
    BY DEF EmptyHost
  <1>1. b \notin heap /\ b # NULL /\ b \in Nat /\ host'.at = b
    BY FreshIs DEF Malloc
  <1>2. host.at = NULL
    BY DEF EmptyHost, Meets, LoadInv, PointersNull
  <1>3. Holders' = Holders \cup {<<"host", 0, b>>}
    BY <1>1, <1>2 DEF EmptyHost, Holders
  <1>4. HeapOwned'
    BY <1>1, <1>3, OwnFresh, HeapIsOwned DEF LoadInv, Malloc
  <1>5. LoadTypeOK' /\ PointersNull'
    BY <1>1 DEF EmptyHost, Meets, LoadInv, LoadTypeOK, HostType, PointersNull,
       InMember, InServer, InField
  <1> QED
    BY <1>4, <1>5 DEF LoadInv

(* The place of the key of a field: in use, or its pointer is not one.      *)
LEMMA KeyPlace ==
    ASSUME LoadInv
    PROVE  /\ NULL \notin heap
           /\ <<"fieldKey", 0, fieldKey>> \in Holders \/ fieldKey = NULL
           /\ <<"memberKey", 0, memberKey>> \in Holders \/ memberKey = NULL
           /\ \A p \in Kept : p[1] \in {"config", "loaded"}
  BY DEF LoadInv, HeapOwned, Holders, Kept, Places

(* The host: a second one is refused, so none is overwritten.               *)
LEMMA HostValueKeeps ==
    ASSUME LoadInv, NEW h \in Hosts, HostValue(h) PROVE LoadInv'
  <1> PICK b \in Blocks : /\ Fresh(b) /\ heap' = (heap \cup {b}) \ {fieldKey}
                          /\ host' = [at |-> b, name |-> h]
    BY DEF HostValue
  <1>1. b \notin heap /\ b # NULL /\ b \in Nat /\ host'.at = b
    BY FreshIs
  <1>2. host.at = NULL
    BY DEF HostValue, Meets, LoadInv, PointersNull
  <1> DEFINE t == <<"fieldKey", 0, fieldKey>>
             u == <<"host", 0, b>>
  <1>3. Holders' = (Holders \cup {u}) \ {t}
    <2>1. /\ fieldKey' = NULL /\ Kept' = Kept /\ text' = text
          /\ memberKey' = memberKey /\ entryHost' = entryHost
      BY DEF HostValue, Kept
    <2>2. Holders' = {p \in Kept \cup Own(text, memberKey, NULL, b, entryHost.at) :
                        p[3] # NULL}
      BY <1>1, <2>1 DEF Holders, Kept, Own
    <2>3. u # t /\ u[3] = b /\ t \notin Kept /\ t[1] = "fieldKey"
      BY KeyPlace
    <2> QED
      BY <1>1, <1>2, <2>2, <2>3, HoldersAre DEF Own
  <1>4. Owned(heap \cup {b}, Holders \cup {u})
    <2>1. u[3] = b
      OBVIOUS
    <2> HIDE DEF u
    <2> QED
      BY <1>1, <2>1, OwnFresh, HeapIsOwned DEF LoadInv
  <1>5. t[3] = fieldKey /\ (t \in Holders \cup {u} \/ t[3] \notin heap \cup {b})
    BY <1>1, KeyPlace
  <1>6. HeapOwned'
    <2> HIDE DEF t, u
    <2> QED
      BY <1>3, <1>4, <1>5, OwnForgotten, HeapIsOwned
  <1>7. LoadTypeOK' /\ PointersNull'
    BY <1>1 DEF HostValue, Meets, LoadInv, LoadTypeOK, HostType, PointersNull,
       InMember, InServer, InField
  <1> QED
    BY <1>6, <1>7 DEF LoadInv

(* A digit moves no pointer.                                                *)
LEMMA PortDigitKeeps ==
    ASSUME LoadInv, NEW d \in Digits, PortDigit(d) PROVE LoadInv'
  <1>1. UNCHANGED <<heap, config, loaded, text, memberKey, fieldKey, host, entryHost,
                    have>>
    BY DEF PortDigit, pointers
  <1>2. HeapOwned'
    BY <1>1 DEF LoadInv, HeapOwned, Holders
  <1>3. DigitValue[d] \in Nat
    BY ConfigAssumption
  <1>4. LoadTypeOK'
    BY <1>1, <1>3 DEF LoadInv, LoadTypeOK, PortDigit
  <1>5. PointersNull'
    BY <1>1 DEF PortDigit, Meets, LoadInv, PointersNull, InMember, InServer, InField
  <1> QED
    BY <1>2, <1>4, <1>5 DEF LoadInv

(* The port is in, its key is freed.                                        *)
LEMMA PortDoneKeeps == ASSUME LoadInv, PortDone PROVE LoadInv'
  <1> DEFINE t == <<"fieldKey", 0, fieldKey>>
  <1>1. Holders' = Holders \ {t}
    <2>1. /\ fieldKey' = NULL /\ Kept' = Kept /\ text' = text
          /\ memberKey' = memberKey /\ entryHost' = entryHost /\ host' = host
      BY DEF PortDone, Kept
    <2>2. Holders' = {p \in Kept \cup Own(text, memberKey, NULL, host.at, entryHost.at) :
                        p[3] # NULL}
      BY <2>1 DEF Holders, Kept, Own
    <2>3. t \notin Kept /\ t[1] = "fieldKey"
      BY KeyPlace
    <2> QED
      BY <2>2, <2>3, HoldersAre DEF Own
  <1>2. t[3] = fieldKey /\ (t \in Holders \/ t[3] \notin heap)
    BY KeyPlace
  <1>3. HeapOwned'
    <2> HIDE DEF t
    <2> QED
      BY <1>1, <1>2, OwnForgotten, HeapIsOwned DEF LoadInv, PortDone
  <1>4. LoadTypeOK' /\ PointersNull'
    BY DEF PortDone, LoadInv, LoadTypeOK, PointersNull, InMember, InServer, InField
  <1> QED
    BY <1>3, <1>4 DEF LoadInv

(* The list is closed, the member's key is freed.                           *)
LEMMA EndServersKeeps == ASSUME LoadInv, EndServers PROVE LoadInv'
  <1> DEFINE t == <<"memberKey", 0, memberKey>>
  <1>1. Holders' = Holders \ {t}
    <2>1. /\ memberKey' = NULL /\ Kept' = Kept /\ text' = text
          /\ fieldKey' = fieldKey /\ entryHost' = entryHost /\ host' = host
      BY DEF EndServers, Kept
    <2>2. Holders' = {p \in Kept \cup Own(text, NULL, fieldKey, host.at, entryHost.at) :
                        p[3] # NULL}
      BY <2>1 DEF Holders, Kept, Own
    <2>3. t \notin Kept /\ t[1] = "memberKey"
      BY KeyPlace
    <2> QED
      BY <2>2, <2>3, HoldersAre DEF Own
  <1>2. t[3] = memberKey /\ (t \in Holders \/ t[3] \notin heap)
    BY KeyPlace
  <1>3. HeapOwned'
    <2> HIDE DEF t
    <2> QED
      BY <1>1, <1>2, OwnForgotten, HeapIsOwned DEF LoadInv, EndServers
  <1>4. LoadTypeOK' /\ PointersNull'
    BY DEF EndServers, Meets, LoadInv, LoadTypeOK, PointersNull, InMember, InServer, InField
  <1> QED
    BY <1>3, <1>4 DEF LoadInv

(* The host passes from parse_server to parse_servers.                      *)
LEMMA EndServerKeeps == ASSUME LoadInv, EndServer PROVE LoadInv'
  <1>1. host'.at = NULL /\ entryHost'.at = host.at /\ entryHost.at = NULL
    BY DEF EndServer, Meets, LoadInv, PointersNull, NoHost
  <1> DEFINE t == <<"host", 0, host.at>>
             u == <<"entryHost", 0, host.at>>
  <1>2. Holders' = IF host.at = NULL THEN Holders ELSE (Holders \ {t}) \cup {u}
    <2>1. /\ Kept' = Kept /\ text' = text
          /\ fieldKey' = fieldKey /\ memberKey' = memberKey
      BY DEF EndServer, Kept
    <2>2. Holders' = {p \in Kept \cup Own(text, memberKey, fieldKey, NULL, host.at) :
                        p[3] # NULL}
      BY <1>1, <2>1 DEF Holders, Kept, Own
    <2>3. t \notin Kept /\ t # u
      BY KeyPlace
    <2> QED
      BY <1>1, <2>2, <2>3, HoldersAre DEF Own
  <1>3. host.at # NULL => t \in Holders
    BY HoldersAre DEF Own
  <1>4. t[3] = u[3]
    OBVIOUS
  <1>5. heap' = heap
    BY DEF EndServer
  <1>6. HeapOwned'
    <2> HIDE DEF t, u
    <2> QED
      BY <1>2, <1>3, <1>4, <1>5, OwnMoved, HeapIsOwned DEF LoadInv
  <1>7. LoadTypeOK' /\ PointersNull'
    BY <1>1 DEF EndServer, Meets, LoadInv, LoadTypeOK, HostType, NoHost, NULL, PointersNull,
       InMember, InServer, InField
  <1> QED
    BY <1>6, <1>7 DEF LoadInv

(* The entry joins the array, which realloc may have moved.                 *)
LEMMA AppendServerKeeps == ASSUME LoadInv, AppendServer PROVE LoadInv'
  <1> PICK b \in Blocks :
        /\ \/ b = loaded.at /\ heap' = heap
           \/ Fresh(b) /\ heap' = (heap \cup {b}) \ {loaded.at}
        /\ loaded' = [at |-> b,
                      servers |-> Append(loaded.servers,
                                         [host |-> entryHost, port |-> port])]
    BY DEF AppendServer
  <1> DEFINE n == Len(loaded.servers)
             e == entryHost.at
             L == {<<"loaded", i, loaded.servers[i].host.at>> :
                      i \in DOMAIN loaded.servers}
             C == Places(config, "config")
             old == <<"entryHost", 0, e>>
             new == <<"loaded", n + 1, e>>
             was == <<"loaded", 0, loaded.at>>
             now == <<"loaded", 0, b>>
             R == C \cup L \cup {<<"text", 0, text>>, <<"memberKey", 0, memberKey>>,
                                <<"fieldKey", 0, fieldKey>>, <<"host", 0, host.at>>}
             Moved == IF e = NULL THEN Holders ELSE (Holders \ {old}) \cup {new}
  <1>1. /\ loaded.servers \in Seq([host : HostType, port : Nat])
        /\ n \in Nat /\ DOMAIN loaded.servers = 1 .. n
        /\ entryHost \in HostType /\ port \in Nat /\ e \in Nat
    BY DEF LoadInv, LoadTypeOK, ConfigType, HostType
  <1>2. /\ loaded'.at = b /\ loaded'.servers \in Seq([host : HostType, port : Nat])
        /\ DOMAIN loaded'.servers = 1 .. n + 1
        /\ \A i \in 1 .. n : loaded'.servers[i] = loaded.servers[i]
        /\ loaded'.servers[n + 1].host.at = e
    BY <1>1
  <1>3. Places(loaded, "loaded") = {was} \cup L
    BY DEF Places
  <1>4. Places(loaded, "loaded")' = {now} \cup L \cup {new}
    <2>1. {<<"loaded", i, loaded'.servers[i].host.at>> : i \in 1 .. n + 1}
            = L \cup {new}
      <3>1. 1 .. n + 1 = (1 .. n) \cup {n + 1}
        BY <1>1
      <3> QED
        BY <1>1, <1>2, <3>1
    <2> QED
      BY <1>2, <2>1 DEF Places
  <1>5. /\ entryHost'.at = NULL /\ C' = C /\ text' = text /\ host' = host
        /\ fieldKey' = fieldKey /\ memberKey' = memberKey
    BY DEF AppendServer, NoHost
  <1>6. /\ old \notin R \cup {was, now} /\ was \notin R \cup {old, new}
        /\ new \notin {was, now}
        /\ old[3] = e /\ new[3] = e /\ was[3] = loaded.at /\ now[3] = b
    BY <1>1 DEF Places
  <1>7. Holders = {p \in R \cup {was, old} : p[3] # NULL}
    BY <1>3 DEF Holders
  <1>8. Holders' = {p \in R \cup {now, new} : p[3] # NULL}
    <2>1. <<"entryHost", 0, NULL>>[3] = NULL
      OBVIOUS
    <2>2. Holders' = {p \in (C \cup ({now} \cup L \cup {new}))
                           \cup {<<"text", 0, text>>, <<"memberKey", 0, memberKey>>,
                                 <<"fieldKey", 0, fieldKey>>, <<"host", 0, host.at>>,
                                 <<"entryHost", 0, NULL>>} : p[3] # NULL}
      BY <1>4, <1>5 DEF Holders
    <2> HIDE DEF C, L, now, new
    <2> QED
      BY <2>1, <2>2
  <1>9. Owned(heap, Moved)
    <2>1. e # NULL => old \in Holders
      BY <1>6, <1>7
    <2>2. old[3] = new[3]
      OBVIOUS
    <2> HIDE DEF old, new, e
    <2> QED
      BY <2>1, <2>2, OwnMoved, HeapIsOwned DEF LoadInv
  <1>10. b # NULL /\ b \in Nat
    BY ConfigAssumption DEF Blocks, NULL
  <1>11. ASSUME b = loaded.at, heap' = heap PROVE HeapOwned'
    <2>1. was = now
      BY <1>11
    <2> HIDE DEF R, old, new, was, now, e
    <2>2. Holders' = Moved
      BY <1>6, <1>7, <1>8, <2>1
    <2> QED
      BY <1>9, <1>11, <2>2, HeapIsOwned
  <1>12. ASSUME Fresh(b), heap' = (heap \cup {b}) \ {loaded.at} PROVE HeapOwned'
    <2>1. b \notin heap
      BY <1>12, FreshIs
    <2>2. was \in Holders \/ loaded.at = NULL
      BY <1>6, <1>7
    <2>3. was \in Moved \cup {now} \/ was[3] \notin heap \cup {b}
      <3>1. was # old
        BY <1>6
      <3> QED
        BY <2>2, <3>1, <1>10, KeyPlace
    <2>4. was # now
      <3>1. b # loaded.at
        BY <2>1, <2>2, <1>10 DEF LoadInv, HeapOwned
      <3> QED
        BY <3>1
    <2> HIDE DEF R, old, new, was, now, e
    <2>5. Holders' = (Moved \cup {now}) \ {was}
      BY <1>6, <1>7, <1>8, <1>10, <2>4
    <2> HIDE DEF Moved
    <2>7. Owned(heap \cup {b}, Moved \cup {now})
      BY <1>6, <1>9, <2>1, OwnFresh
    <2> QED
      BY <1>6, <1>12, <2>3, <2>5, <2>7, OwnForgotten, HeapIsOwned
  <1>13. HeapOwned'
    BY <1>11, <1>12
  <1>14. LoadTypeOK'
    BY <1>1, <1>2, <1>10
       DEF AppendServer, LoadInv, LoadTypeOK, ConfigType, HostType, NoHost, NULL
  <1>15. PointersNull'
    BY <1>5 DEF AppendServer, LoadInv, PointersNull, InMember, InServer, InField
  <1> QED
    BY <1>13, <1>14, <1>15 DEF LoadInv

(* The places of a configuration bear its name.                             *)
LEMMA PlacesNamed ==
    ASSUME NEW c, NEW name
    PROVE  \A p \in Places(c, name) : p[1] = name
  BY DEF Places

(* A pointer of a configuration is a block of it.                           *)
LEMMA PlacesAreBlocks ==
    ASSUME NEW c, NEW name
    PROVE  \A p \in Places(c, name) : p[3] # NULL => p[3] \in BlocksOf(c)
  <1>1. BlocksOf(c)
          = ({c.at} \cup {c.servers[i].host.at : i \in DOMAIN c.servers}) \ {NULL}
    BY DEF BlocksOf, ToSet
  <1> QED
    BY <1>1 DEF Places

(* A block of a configuration has a pointer in it.                          *)
LEMMA BlocksHavePlaces ==
    ASSUME NEW c, NEW name
    PROVE  \A a \in BlocksOf(c) : a # NULL /\ \E p \in Places(c, name) : p[3] = a
  <1>1. BlocksOf(c)
          = ({c.at} \cup {c.servers[i].host.at : i \in DOMAIN c.servers}) \ {NULL}
    BY DEF BlocksOf, ToSet
  <1>2. <<name, 0, c.at>>[3] = c.at /\ <<name, 0, c.at>> \in Places(c, name)
    BY DEF Places
  <1>3. \A i \in DOMAIN c.servers :
            /\ <<name, i, c.servers[i].host.at>>[3] = c.servers[i].host.at
            /\ <<name, i, c.servers[i].host.at>> \in Places(c, name)
    BY DEF Places
  <1> QED
    BY <1>1, <1>2, <1>3

(* An empty configuration has no pointer.                                   *)
LEMMA EmptyPlaces ==
    ASSUME NEW name PROVE Places(Empty, name) = {<<name, 0, NULL>>}
  <1>1. DOMAIN Empty.servers = {} /\ Empty.at = NULL
    BY DEF Empty
  <1> QED
    BY <1>1 DEF Places

(* A configuration that changes hands keeps its blocks.                     *)
LEMMA OwnRenamed ==
    ASSUME NEW blocks, NEW c \in ConfigType, NEW name, NEW other,
           Owned(blocks, {p \in Places(c, name) : p[3] # NULL})
    PROVE  Owned(blocks, {p \in Places(c, other) : p[3] # NULL})
  <1> DEFINE S(m) == {p \in Places(c, m) : p[3] # NULL}
             As(m, p) == <<m, p[2], p[3]>>
  <1>1. ASSUME NEW m, NEW k, NEW p \in Places(c, m)
        PROVE  /\ As(k, p) \in Places(c, k) /\ As(k, p)[3] = p[3]
               /\ As(m, As(k, p)) = p
    <2>1. CASE p = <<m, 0, c.at>>
      BY <2>1 DEF Places
    <2>2. ASSUME NEW i \in DOMAIN c.servers, p = <<m, i, c.servers[i].host.at>>
          PROVE  /\ As(k, p) \in Places(c, k) /\ As(k, p)[3] = p[3]
                 /\ As(m, As(k, p)) = p
      BY <2>2 DEF Places
    <2> QED
      BY <2>1, <2>2 DEF Places
  <1>2. \A m, k : \A p \in S(m) :
            As(k, p) \in S(k) /\ As(k, p)[3] = p[3] /\ As(m, As(k, p)) = p
    BY <1>1
  <1>3. Owned(blocks, S(name))
    OBVIOUS
  <1> HIDE DEF S, As
  <1>4. {p[3] : p \in S(name)} = {p[3] : p \in S(other)}
    BY <1>2
  <1>5. ASSUME NEW p \in S(other), NEW q \in S(other), p[3] = q[3] PROVE p = q
    <2>1. As(name, p) = As(name, q)
      BY <1>2, <1>3, <1>5 DEF Owned
    <2> QED
      BY <1>2, <2>1
  <1>6. Owned(blocks, S(other))
    BY <1>3, <1>4, <1>5 DEF Owned
  <1> QED
    BY <1>6 DEF S

(* Every way out frees what is there and nothing else.                      *)
LEMMA FailKeeps == ASSUME LoadInv, Fail PROVE LoadInv'
  <1>1. /\ text' = NULL /\ memberKey' = NULL /\ fieldKey' = NULL /\ host'.at = NULL
        /\ entryHost'.at = NULL /\ loaded' = Empty /\ config' = config
        /\ heap' = heap \ Unwound
    BY DEF Fail, Released, NoHost
  <1>2. Holders' = {p \in Places(config, "config") : p[3] # NULL}
    BY <1>1, EmptyPlaces DEF Holders
  <1>3. \A p \in Holders : p[1] # "config" => p[3] \in Unwound
    BY PlacesNamed, PlacesAreBlocks DEF Holders, Unwound
  <1>4. \A a \in Unwound : a # NULL => \E q \in Holders : q[3] = a /\ q[1] # "config"
    <2> SUFFICES ASSUME NEW a \in Unwound, a # NULL
                 PROVE  \E q \in Holders : q[3] = a /\ q[1] # "config"
      OBVIOUS
    <2>1. CASE a \in BlocksOf(loaded)
      BY <2>1, BlocksHavePlaces, PlacesNamed DEF Holders
    <2>2. ASSUME NEW n, n # "config", <<n, 0, a>> \in Holders
          PROVE  \E q \in Holders : q[3] = a /\ q[1] # "config"
      <3>1. <<n, 0, a>>[3] = a /\ <<n, 0, a>>[1] = n
        OBVIOUS
      <3> QED
        BY <2>2, <3>1
    <2>3. \/ a \in BlocksOf(loaded)
          \/ \E n \in {"text", "memberKey", "fieldKey", "host", "entryHost"} :
                <<n, 0, a>> \in Holders
      <3>1. \A n : <<n, 0, a>>[3] # NULL
        OBVIOUS
      <3> QED
        BY <3>1 DEF Unwound, Holders
    <2> QED
      BY <2>1, <2>2, <2>3
  <1>5. \A p \in Places(config, "config") : p[1] = "config"
    BY PlacesNamed
  <1>6. Holders' = {p \in Holders : p[3] \notin Unwound}
    <2>1. ASSUME NEW p \in Holders' PROVE p \in Holders /\ p[3] \notin Unwound
      BY <1>2, <1>4, <1>5, <2>1 DEF Holders, LoadInv, HeapOwned
    <2>2. ASSUME NEW p \in Holders, p[3] \notin Unwound PROVE p \in Holders'
      BY <1>2, <1>3, <2>2 DEF Holders, Unwound, Places
    <2> QED
      BY <2>1, <2>2
  <1>7. HeapOwned'
    BY <1>1, <1>6, OwnFewer, HeapIsOwned DEF LoadInv
  <1>8. LoadTypeOK' /\ PointersNull'
    BY <1>1 DEF Fail, Released, LoadInv, LoadTypeOK, HostType, ConfigType, NoHost,
       Empty, NULL, PointersNull
  <1> QED
    BY <1>7, <1>8 DEF LoadInv

(* The new configuration takes the place of the freed one.                  *)
LEMMA SucceedKeeps == ASSUME LoadInv, Succeed PROVE LoadInv'
  <1>1. /\ text' = NULL /\ memberKey' = NULL /\ fieldKey' = NULL /\ host'.at = NULL
        /\ entryHost'.at = NULL /\ loaded' = Empty /\ config' = loaded
    BY DEF Succeed, Released, NoHost
  <1>2. memberKey = NULL /\ fieldKey = NULL /\ host.at = NULL /\ entryHost.at = NULL
    BY DEF Succeed, LoadInv, PointersNull, InMember, InServer, InField
  <1> DEFINE gone == {text} \cup BlocksOf(config)
             rest == {p \in Places(loaded, "loaded") : p[3] # NULL}
  <1>3. heap' = heap \ gone
    BY DEF Succeed
  <1>4. Holders' = {p \in Places(loaded, "config") : p[3] # NULL}
    BY <1>1, EmptyPlaces DEF Holders
  <1>5. \A p \in Holders : p[1] # "loaded" => p[3] \in gone
    BY <1>2, PlacesNamed, PlacesAreBlocks DEF Holders
  <1>6. \A a \in gone : a # NULL => \E q \in Holders : q[3] = a /\ q[1] # "loaded"
    <2> SUFFICES ASSUME NEW a \in gone, a # NULL
                 PROVE  \E q \in Holders : q[3] = a /\ q[1] # "loaded"
      OBVIOUS
    <2>1. CASE a \in BlocksOf(config)
      BY <2>1, BlocksHavePlaces, PlacesNamed DEF Holders
    <2>2. CASE a = text
      <3>1. <<"text", 0, a>>[3] = a /\ <<"text", 0, a>>[1] = "text"
        OBVIOUS
      <3> QED
        BY <2>2, <3>1 DEF Holders
    <2> QED
      BY <2>1, <2>2
  <1>7. \A p \in Places(loaded, "loaded") : p[1] = "loaded"
    BY PlacesNamed
  <1>8. rest = {p \in Holders : p[3] \notin gone}
    <2>1. ASSUME NEW p \in rest PROVE p \in Holders /\ p[3] \notin gone
      <3>1. p \in Holders
        BY DEF Holders
      <3> HIDE DEF gone
      <3> QED
        BY <1>6, <1>7, <3>1 DEF LoadInv, HeapOwned
    <2>2. ASSUME NEW p \in Holders, p[3] \notin gone PROVE p \in rest
      <3>1. p[1] = "loaded"
        BY <1>5, <2>2
      <3> QED
        BY <3>1, PlacesNamed DEF Holders
    <2> QED
      BY <2>1, <2>2
  <1>9. Owned(heap', rest)
    <2> HIDE DEF gone, rest
    <2>1. Owned(heap, Holders)
      BY HeapIsOwned DEF LoadInv
    <2>2. Owned(heap \ gone, {p \in Holders : p[3] \notin gone})
      BY <2>1, OwnFewer
    <2> QED
      BY <1>8, <1>3, <2>2
  <1>10. HeapOwned'
    BY <1>4, <1>9, OwnRenamed, HeapIsOwned DEF LoadInv, LoadTypeOK
  <1>11. LoadTypeOK' /\ PointersNull'
    BY <1>1 DEF Succeed, Released, LoadInv, LoadTypeOK, HostType, ConfigType, NoHost,
       Empty, NULL, PointersNull
  <1> QED
    BY <1>10, <1>11 DEF LoadInv

(* The caller's configuration is all there is.                              *)
LEMMA LoadStarts == LoadInit => LoadInv
  <1> SUFFICES ASSUME LoadInit PROVE LoadInv
    OBVIOUS
  <1>1. config \in ConfigType
    <2>1. CASE config = Empty
      BY <2>1 DEF Empty, ConfigType, NULL
    <2>2. ASSUME NEW h \in Hosts,
                 config = [at |-> 2, servers |-> <<[host |-> [at |-> 1, name |-> h],
                                                    port |-> 1]>>]
          PROVE  config \in ConfigType
      BY <2>2 DEF ConfigType, HostType
    <2> QED
      BY <2>1, <2>2 DEF LoadInit
  <1>2. LoadTypeOK /\ PointersNull
    BY <1>1 DEF LoadInit, LoadTypeOK, PointersNull, NoHost, Empty, NULL, ConfigType,
       HostType
  <1>3. Holders = {p \in Places(config, "config") : p[3] # NULL}
    BY EmptyPlaces DEF LoadInit, Holders, NoHost
  <1>4. heap = {p[3] : p \in Holders}
    BY <1>3, PlacesAreBlocks, BlocksHavePlaces DEF LoadInit
  <1>5. \A p, q \in Holders : p[3] = q[3] => p = q
    <2>1. CASE config = Empty
      BY <1>3, <2>1, EmptyPlaces
    <2>2. ASSUME NEW h \in Hosts,
                 config = [at |-> 2, servers |-> <<[host |-> [at |-> 1, name |-> h],
                                                    port |-> 1]>>]
          PROVE  \A p, q \in Holders : p[3] = q[3] => p = q
      <3>1. config.at = 2 /\ DOMAIN config.servers = {1}
            /\ config.servers[1].host.at = 1
        BY <2>2
      <3>2. Places(config, "config") = {<<"config", 0, 2>>, <<"config", 1, 1>>}
        BY <3>1 DEF Places
      <3> QED
        BY <1>3, <3>2
    <2> QED
      BY <2>1, <2>2 DEF LoadInit
  <1> QED
    BY <1>2, <1>4, <1>5 DEF LoadInv, HeapOwned

(* The invariant holds from the call of load, and every step of it, every   *)
(* failure included, keeps it.                                              *)
THEOREM LoadInvariant == LoadSpec => []LoadInv
  <1>1. LoadInv /\ [LoadNext]_loadVars => LoadInv'
    <2>1. ASSUME LoadInv, UNCHANGED loadVars PROVE LoadInv'
      BY <2>1 DEF LoadInv, loadVars, LoadTypeOK, PointersNull, HeapOwned, Holders
    <2> QED
      BY <2>1, ReadFileKeeps, PunctuateKeeps, MemberKeyKeeps, FieldKeyKeeps,
         EmptyHostKeeps, HostValueKeeps, PortDigitKeeps, PortDoneKeeps,
         EndServerKeeps, AppendServerKeeps, EndServersKeeps, SucceedKeeps,
         FailKeeps DEF LoadNext, LoadTerminated
  <1> QED
    BY <1>1, LoadStarts, PTL DEF LoadSpec

(* Whichever token makes no sense and whichever allocation fails, for a     *)
(* list of any length: the load leaks nothing, frees nothing twice and uses *)
(* nothing it has freed.                                                    *)
THEOREM LoadOwnsHeap == LoadSpec => []HeapOwned
  <1>1. LoadInv => HeapOwned
    BY DEF LoadInv
  <1> QED
    BY <1>1, LoadInvariant, PTL

-----------------------------------------------------------------------------
(* The outcome of a load.                                                   *)

(* What the parser knows of ports, before and after they are in the list.   *)
PortInv ==
    /\ port \in 0 .. PortMax /\ loaded.servers \in Seq([host : HostType, port : Nat])
    /\ "port" \in have => port # 0
    /\ parser \in {"portValue", "digits"} => "port" \notin have
    /\ parser = "append" => "port" \in have
    /\ \A i \in DOMAIN loaded.servers : loaded.servers[i].port \in 1 .. PortMax

OutcomeInv == LoadTypeOK /\ PortInv /\ LoadOutcome /\ (parser # "loaded" => config = before)

(* parse_port takes a digit only when the number stays within 16 bits.      *)
LEMMA PortStays ==
    ASSUME NEW d \in Digits, port \in 0 .. PortMax, PortFits(d)
    PROVE  port * 10 + DigitValue[d] \in 0 .. PortMax
  <1>1. PortMax \in Nat /\ DigitValue[d] \in 0 .. 9
    BY ConfigAssumption
  <1>2. PortMax = 10 * (PortMax \div 10) + (PortMax % 10)
    BY <1>1
  <1>3. PortMax % 10 \in 0 .. 9 /\ PortMax \div 10 \in Nat
    BY <1>1
  <1> QED
    BY <1>1, <1>2, <1>3 DEF PortFits

(* Every step of the load keeps it.                                         *)
LEMMA OutcomeStep ==
    ASSUME OutcomeInv, LoadNext, LoadTypeOK'
    PROVE  OutcomeInv'
  <1> USE DEF OutcomeInv
  <1>1. ASSUME UNCHANGED <<config, before, loaded, port, have>>,
               parser' \notin {"loaded", "digits", "append"}, parser # "loaded",
               parser' = "portValue" => "port" \notin have
        PROVE  OutcomeInv'
    BY <1>1 DEF PortInv, LoadOutcome
  <1>2. CASE ReadFile \/ MemberKey \/ FieldKey \/ EmptyHost
    BY <1>1, <1>2 DEF ReadFile, MemberKey, FieldKey, EmptyHost, Meets
  <1>3. CASE Punctuate
    BY <1>1, <1>3, PunctuateMoves DEF Punctuate
  <1>4. ASSUME NEW h \in Hosts, HostValue(h) PROVE OutcomeInv'
    BY <1>4 DEF HostValue, Meets, PortInv, LoadOutcome
  <1>5. ASSUME NEW d \in Digits, PortDigit(d) PROVE OutcomeInv'
    <2>1. port' \in 0 .. PortMax
      BY <1>5, PortStays DEF PortDigit, PortInv
    <2> QED
      BY <1>5, <2>1 DEF PortDigit, Meets, PortInv, LoadOutcome
  <1>6. CASE PortDone
    BY <1>6 DEF PortDone, PortInv, LoadOutcome
  <1>7. CASE EndServer
    BY <1>7 DEF EndServer, Meets, PortInv, LoadOutcome
  <1>8. CASE AppendServer
    <2> DEFINE entry == [host |-> entryHost, port |-> port]
    <2>1. /\ loaded'.servers = Append(loaded.servers, entry)
          /\ port \in 1 .. PortMax /\ entry.port = port
          /\ entry \in [host : HostType, port : Nat]
      BY <1>8, ConfigAssumption DEF AppendServer, PortInv, LoadTypeOK
    <2> HIDE DEF entry
    <2>2. \A i \in DOMAIN loaded'.servers : loaded'.servers[i].port \in 1 .. PortMax
      BY <2>1 DEF PortInv
    <2> QED
      BY <1>8, <2>1, <2>2, ConfigAssumption DEF AppendServer, PortInv, LoadOutcome
  <1>9. CASE EndServers
    BY <1>9 DEF EndServers, Meets, PortInv, LoadOutcome
  <1>10. CASE Succeed
    BY <1>10 DEF Succeed, Released, Empty, PortInv, LoadOutcome
  <1>11. CASE Fail
    BY <1>11 DEF Fail, Released, Empty, PortInv, LoadOutcome
  <1>12. CASE LoadTerminated
    BY <1>12 DEF LoadTerminated, loadVars, PortInv, LoadOutcome
  <1> QED
    BY <1>2, <1>3, <1>4, <1>5, <1>6, <1>7, <1>8, <1>9, <1>10, <1>11, <1>12
       DEF LoadNext

(* The outcome is sound from the call of load and after every step of it.   *)
THEOREM OutcomeInvariant == LoadSpec => []OutcomeInv
  <1>1. LoadInit => OutcomeInv
    <2> SUFFICES ASSUME LoadInit PROVE OutcomeInv
      OBVIOUS
    <2>1. LoadTypeOK
      BY LoadStarts DEF LoadInv
    <2> QED
      BY <2>1, ConfigAssumption DEF LoadInit, OutcomeInv, PortInv, LoadOutcome, Empty
  <1>2. LoadTypeOK' /\ OutcomeInv /\ [LoadNext]_loadVars => OutcomeInv'
    <2>1. OutcomeInv /\ UNCHANGED loadVars => OutcomeInv'
      BY DEF OutcomeInv, loadVars, LoadTypeOK, PortInv, LoadOutcome
    <2> QED
      BY <2>1, OutcomeStep
  <1>3. LoadInv => LoadTypeOK
    BY DEF LoadInv
  <1> QED
    BY <1>1, <1>2, <1>3, LoadInvariant, PTL DEF LoadSpec

(* Whatever the file says and whichever allocation fails, the caller has    *)
(* its old configuration, untouched, or a new one with a server in it, and  *)
(* no port of it is zero or has overflowed.                                 *)
THEOREM LoadOutcomeSound == LoadSpec => []LoadOutcome
  <1>1. OutcomeInv => LoadOutcome
    BY DEF OutcomeInv
  <1> QED
    BY <1>1, OutcomeInvariant, PTL

-----------------------------------------------------------------------------
(* What a text says.                                                        *)

ReadType == [hosts : Seq(Hosts), ports : Seq(Nat), open : BOOLEAN]

(* What one more token adds to the reading of a text.                       *)
LEMMA AfterToken ==
    ASSUME NEW r \in ReadType, NEW t
    PROVE  /\ After(r, t) \in ReadType
           /\ t \in Hosts => /\ After(r, t).hosts = Append(r.hosts, t)
                             /\ After(r, t).ports = r.ports
           /\ t \in Digits /\ t \notin Hosts =>
                 /\ After(r, t).hosts = r.hosts
                 /\ After(r, t).open
                 /\ After(r, t).ports =
                       IF r.open
                       THEN [r.ports EXCEPT ![Len(r.ports)] = @ * 10 + DigitValue[t]]
                       ELSE Append(r.ports, DigitValue[t])
           /\ t \notin Hosts \cup Digits =>
                 /\ After(r, t).hosts = r.hosts /\ After(r, t).ports = r.ports
                 /\ ~After(r, t).open
<1>0. r.hosts \in Seq(Hosts) /\ r.ports \in Seq(Nat) /\ r.open \in BOOLEAN
    BY DEF ReadType
<1>1. CASE t \in Hosts
    <2> DEFINE h == Append(r.hosts, t)
    <2>1. h \in Seq(Hosts)
        BY <1>0, <1>1
    <2>2. After(r, t) = [r EXCEPT !.hosts = h, !.open = FALSE]
        BY <1>1, ConfigAssumption DEF After
    <2> HIDE DEF h
    <2>3. After(r, t) \in ReadType
        BY <1>0, <2>1, <2>2 DEF ReadType
    <2>4. After(r, t).hosts = h /\ After(r, t).ports = r.ports
        BY <2>2 DEF ReadType
    <2> QED BY <1>1, <2>3, <2>4, ConfigAssumption DEF h
<1>2. CASE t \in Digits /\ t \notin Hosts /\ r.open
    <2> DEFINE v == DigitValue[t]
               p == [r.ports EXCEPT ![Len(r.ports)] = @ * 10 + v]
    <2>1. v \in Nat
        BY <1>2, ConfigAssumption
    <2>2. p \in Seq(Nat)
        <3> HIDE DEF v
        <3>1. \A i \in 1 .. Len(r.ports) : r.ports[i] * 10 + v \in Nat
            BY <1>0, <2>1
        <3>2. PICK n \in Nat : n = Len(r.ports)
            BY <1>0
        <3>3. PICK s \in [1 .. n -> Nat] : s = r.ports
            BY <1>0, <3>2
        <3>4. [s EXCEPT ![n] = s[n] * 10 + v] \in [1 .. n -> Nat]
            BY <2>1, <3>1, <3>2, <3>3
        <3> QED BY <3>2, <3>3, <3>4
    <2>3. After(r, t) = [r EXCEPT !.ports = p]
        BY <1>0, <1>2 DEF After, ReadType
    <2> HIDE DEF p
    <2>4. After(r, t) \in ReadType /\ After(r, t).hosts = r.hosts /\ After(r, t).open
        BY <1>0, <1>2, <2>2, <2>3 DEF ReadType
    <2>5. After(r, t).ports = p
        BY <2>3 DEF ReadType
    <2> QED BY <1>2, <2>4, <2>5 DEF p
<1>3. CASE t \in Digits /\ t \notin Hosts /\ ~r.open
    <2> DEFINE p == Append(r.ports, DigitValue[t])
    <2>1. DigitValue[t] \in Nat
        BY <1>3, ConfigAssumption
    <2>2. p \in Seq(Nat)
        BY <1>0, <2>1
    <2>3. After(r, t) = [r EXCEPT !.ports = p, !.open = TRUE]
        BY <1>3 DEF After
    <2> HIDE DEF p
    <2>4. After(r, t) \in ReadType
        BY <1>0, <2>2, <2>3 DEF ReadType
    <2>5. After(r, t).hosts = r.hosts /\ After(r, t).open /\ After(r, t).ports = p
        BY <2>3 DEF ReadType
    <2> QED BY <1>3, <2>4, <2>5 DEF p
<1>4. CASE t \notin Hosts \cup Digits
    <2>1. After(r, t) = [r EXCEPT !.open = FALSE]
        BY <1>4 DEF After
    <2>2. After(r, t) \in ReadType
        BY <1>0, <2>1 DEF ReadType
    <2>3. After(r, t).hosts = r.hosts /\ After(r, t).ports = r.ports /\ ~After(r, t).open
        BY <2>1 DEF ReadType
    <2> QED BY <1>4, <2>2, <2>3
<1> QED BY <1>1, <1>2, <1>3, <1>4

(* The reading of a text, token by token.                                   *)
LEMMA ReadingSteps ==
    ASSUME NEW X, NEW ts \in Seq(X)
    PROVE  \E f \in [0 .. Len(ts) -> ReadType] :
              /\ f[0] = NothingRead
              /\ \A i \in 1 .. Len(ts) : f[i] = After(f[i - 1], ts[i])
              /\ Reading(ts) = f[Len(ts)]
<1>0. PICK N \in Nat : N = Len(ts)
    OBVIOUS
<1> DEFINE Eq(u) == u = [i \in 0 .. N |->
                            IF i = 0 THEN NothingRead ELSE After(u[i - 1], ts[i])]
           read == CHOOSE u : Eq(u)
<1>1. NothingRead \in ReadType
    BY DEF NothingRead, ReadType
<1>2. \A r \in ReadType : \A t : After(r, t) \in ReadType
    BY AfterToken
<1>3. PICK G \in [(1 .. N) \X ReadType -> ReadType] :
            \A i \in 1 .. N, v \in ReadType : G[<<i, v>>] = After(v, ts[i])
    <2> DEFINE g == [p \in (1 .. N) \X ReadType |-> After(p[2], ts[p[1]])]
    <2>1. g \in [(1 .. N) \X ReadType -> ReadType]
        BY <1>2
    <2>2. \A i \in 1 .. N, v \in ReadType : g[<<i, v>>] = After(v, ts[i])
        OBVIOUS
    <2> HIDE DEF g
    <2> QED BY <2>1, <2>2
<1>4. PICK f \in [0 .. N -> ReadType] : Recursion(f, NothingRead, N, G)
    BY <1>1, RecursionExists
<1>5. Eq(f)
    <2>1. \A i \in 0 .. N : i = 0 \/ (i \in 1 .. N /\ i - 1 \in 0 .. N)
        OBVIOUS
    <2>2. \A i \in 0 .. N : f[i] = IF i = 0 THEN NothingRead ELSE After(f[i - 1], ts[i])
        BY <1>3, <1>4, <2>1 DEF Recursion
    <2> QED BY <2>2
<1>6. Eq(read)
    <2> HIDE DEF Eq
    <2> QED BY <1>5
<1>7. Reading(ts) = read[N]
    BY <1>0 DEF Reading
<1> HIDE DEF read
<1>8. read[0] = NothingRead /\ \A i \in 1 .. N : read[i] = After(read[i - 1], ts[i])
    <2>1. \A i \in 0 .. N : read[i] = IF i = 0 THEN NothingRead ELSE After(read[i - 1], ts[i])
        BY <1>6
    <2>2. 0 \in 0 .. N /\ \A i \in 1 .. N : i \in 0 .. N /\ i # 0
        OBVIOUS
    <2> QED BY <2>1, <2>2
<1>9. \A i \in 0 .. N : read[i] \in ReadType
    <2>1. /\ read[0] \in ReadType
          /\ \A i \in 1 .. N : read[i - 1] \in ReadType => read[i] \in ReadType
        BY <1>1, <1>2, <1>8
    <2> QED BY <2>1, RecursionTyped
<1>10. read = [i \in 0 .. N |-> read[i]]
    BY <1>6
<1>11. read \in [0 .. N -> ReadType]
    BY <1>9, <1>10
<1> QED BY <1>0, <1>7, <1>8, <1>11

(* The reading of a text that grows at its end.                             *)
LEMMA ReadingGrows ==
    ASSUME NEW X, NEW ts \in Seq(X), NEW t \in X
    PROVE  /\ Reading(ts) \in ReadType
           /\ Reading(Append(ts, t)) = After(Reading(ts), t)
<1> DEFINE us == Append(ts, t)
<1>0. PICK N \in Nat : N = Len(ts)
    OBVIOUS
<1>1. /\ us \in Seq(X) /\ Len(us) = N + 1 /\ us[N + 1] = t
      /\ \A i \in 1 .. N : us[i] = ts[i]
    BY <1>0
<1> HIDE DEF us
<1>2. PICK f \in [0 .. N -> ReadType] :
            /\ f[0] = NothingRead
            /\ \A i \in 1 .. N : f[i] = After(f[i - 1], ts[i])
            /\ Reading(ts) = f[N]
    BY <1>0, ReadingSteps
<1>3. PICK g \in [0 .. N + 1 -> ReadType] :
            /\ g[0] = NothingRead
            /\ \A i \in 1 .. N + 1 : g[i] = After(g[i - 1], us[i])
            /\ Reading(us) = g[N + 1]
    BY <1>1, ReadingSteps
<1> DEFINE T == {n \in 0 .. N : f[n] = g[n]}
<1>4. 0 \in T
    BY <1>2, <1>3
<1>5. ASSUME NEW n \in 0 .. N - 1, n \in T PROVE n + 1 \in T
    <2>1. /\ n + 1 \in 1 .. N /\ n + 1 \in 1 .. N + 1 /\ n + 1 \in 0 .. N
          /\ (n + 1) - 1 = n
        OBVIOUS
    <2>2. f[n + 1] = After(f[n], ts[n + 1]) /\ g[n + 1] = After(g[n], us[n + 1])
        BY <1>2, <1>3, <2>1
    <2> QED BY <1>1, <1>5, <2>1, <2>2
<1>6. N \in T
    <2>1. N \in 0 .. N
        OBVIOUS
    <2> HIDE DEF T
    <2> QED BY <1>4, <1>5, <2>1, IntervalInduction
<1>7. g[N + 1] = After(g[N], us[N + 1])
    <2>1. N + 1 \in 1 .. N + 1 /\ (N + 1) - 1 = N
        OBVIOUS
    <2> QED BY <1>3, <2>1
<1>8. f[N] \in ReadType
    OBVIOUS
<1> QED BY <1>1, <1>2, <1>3, <1>6, <1>7, <1>8 DEF us

-----------------------------------------------------------------------------
(* The order of the file. The list, and the host and port of the server     *)
(* being read, are what the text says so far.                               *)
Tokens == Hosts \cup Digits \cup Keywords \cup Punctuation

NewHost ==
    IF "host" \in have
    THEN <<IF parser = "append" THEN entryHost.name ELSE host.name>>
    ELSE <<>>

NewPort == IF "port" \in have \/ parser = "digits" THEN <<port>> ELSE <<>>

Listed ==
    /\ Reading(tokens).hosts = HostsOf(loaded.servers) \o NewHost
    /\ Reading(tokens).ports = PortsOf(loaded.servers) \o NewPort

(* Which fields of the server have been seen.                               *)
FieldsSeen ==
    /\ parser \notin InServer \cup {"append"} => "host" \notin have /\ "port" \notin have
    /\ "port" \notin have /\ parser # "digits" => port = 0
    /\ parser = "append" => "host" \in have
    /\ parser = "hostValue" => "host" \notin have

Parsing == parser \notin {"failed", "reject", "loaded"}

OrderInv ==
    /\ tokens \in Seq(Tokens)
    /\ Parsing => Listed /\ FieldsSeen
    /\ parser = "digits" => Reading(tokens).open
    /\ parser = "portValue" => ~Reading(tokens).open
    /\ InFileOrder

(* A token that is neither a host nor a digit leaves the reading as it is.  *)
LEMMA QuietToken ==
    ASSUME OrderInv, NEW t \in Keywords \cup Punctuation, tokens' = Append(tokens, t)
    PROVE  /\ tokens' \in Seq(Tokens) /\ ~Reading(tokens)'.open
           /\ Reading(tokens)'.hosts = Reading(tokens).hosts
           /\ Reading(tokens)'.ports = Reading(tokens).ports
<1>1. t \in Tokens /\ t \notin Hosts \cup Digits /\ tokens \in Seq(Tokens)
    BY ConfigAssumption DEF Tokens, OrderInv
<1>2. tokens' \in Seq(Tokens)
    BY <1>1
<1>3. Reading(tokens) \in ReadType /\ Reading(tokens') = After(Reading(tokens), t)
    BY <1>1, ReadingGrows
<1>4. Reading(tokens)' = Reading(tokens')
    BY DEF Reading
<1>5. PICK r \in ReadType : r = Reading(tokens)
    BY <1>3
<1>6. /\ After(r, t).hosts = r.hosts /\ After(r, t).ports = r.ports
      /\ ~After(r, t).open
    BY <1>1, AfterToken
<1> QED BY <1>2, <1>3, <1>4, <1>5, <1>6

(* The token of Punctuate.                                                  *)
LEMMA PunctuateToken ==
    ASSUME Punctuate
    PROVE  \E t \in Punctuation : tokens' = Append(tokens, t)
<1>1. PICK c \in Control : tokens' = Append(tokens, c[2])
    BY DEF Punctuate, Meets
<1>2. \A x, y, z, w : c = <<x, y, z, w>> => c[2] = y
    OBVIOUS
<1>3. c[2] \in {"{", ":", "[", ",", "}"}
    BY <1>2, Zenon DEF Control
<1> QED BY <1>1, <1>3 DEF Punctuation

(* A server that is appended to the list.                                   *)
LEMMA ListGrows ==
    ASSUME NEW s \in Seq([host : HostType, port : Nat]),
           NEW e \in [host : HostType, port : Nat]
    PROVE  /\ HostsOf(Append(s, e)) = HostsOf(s) \o <<e.host.name>>
           /\ PortsOf(Append(s, e)) = PortsOf(s) \o <<e.port>>
           /\ HostsOf(s) \in Seq(Hosts \cup {"none", "empty"}) /\ PortsOf(s) \in Seq(Nat)
<1>0. PICK n \in Nat : n = Len(s)
    OBVIOUS
<1> DEFINE u == Append(s, e)
<1>1. /\ DOMAIN s = 1 .. n /\ DOMAIN u = 1 .. n + 1 /\ u[n + 1] = e
      /\ \A i \in 1 .. n : u[i] = s[i]
      /\ \A i \in 1 .. n : /\ s[i].host.name \in Hosts \cup {"none", "empty"}
                           /\ s[i].port \in Nat
    <2>1. DOMAIN s = 1 .. n /\ DOMAIN u = 1 .. n + 1 /\ u[n + 1] = e
        BY <1>0
    <2>2. \A i \in 1 .. n : u[i] = s[i]
        BY <1>0
    <2>3. ASSUME NEW i \in 1 .. n
          PROVE  s[i].host.name \in Hosts \cup {"none", "empty"} /\ s[i].port \in Nat
        <3>1. s[i] \in [host : HostType, port : Nat]
            <4> DEFINE E == [host : HostType, port : Nat]
            <4>1. s \in Seq(E) /\ i \in 1 .. Len(s)
                BY <1>0
            <4> HIDE DEF E
            <4>2. s[i] \in E
                BY <4>1
            <4> QED BY <4>2 DEF E
        <3>2. s[i].host \in HostType /\ s[i].port \in Nat
            BY <3>1
        <3> QED BY <3>2 DEF HostType
    <2> QED BY <2>1, <2>2, <2>3
<1> HIDE DEF u
<1>2. HostsOf(s) \in Seq(Hosts \cup {"none", "empty"}) /\ PortsOf(s) \in Seq(Nat)
    <2> DEFINE HostNames == Hosts \cup {"none", "empty"}
    <2>1. /\ HostsOf(s) = [i \in 1 .. n |-> s[i].host.name]
          /\ PortsOf(s) = [i \in 1 .. n |-> s[i].port]
        BY <1>1 DEF HostsOf, PortsOf
    <2>2. \A i \in 1 .. n : s[i].host.name \in HostNames /\ s[i].port \in Nat
        BY <1>1
    <2> HIDE DEF HostNames
    <2>3. HostsOf(s) \in [1 .. n -> HostNames] /\ PortsOf(s) \in [1 .. n -> Nat]
        BY <2>1, <2>2
    <2>4. HostsOf(s) \in Seq(HostNames) /\ PortsOf(s) \in Seq(Nat)
        BY <2>3
    <2> QED BY <2>4 DEF HostNames
<1>3. Len(HostsOf(s)) = n /\ Len(PortsOf(s)) = n
    BY <1>1, <1>2 DEF HostsOf, PortsOf
<1>4. HostsOf(u) = HostsOf(s) \o <<e.host.name>>
    BY <1>1, <1>2, <1>3 DEF HostsOf
<1>5. PortsOf(u) = PortsOf(s) \o <<e.port>>
    BY <1>1, <1>2, <1>3 DEF PortsOf
<1> QED BY <1>2, <1>4, <1>5 DEF u

(* The last element of a sequence that is replaced.                         *)
LEMMA LastReplaced ==
    ASSUME NEW s \in Seq(Nat), NEW a \in Nat, NEW b \in Nat
    PROVE  [s \o <<a>> EXCEPT ![Len(s \o <<a>>)] = b] = s \o <<b>>
<1>1. PICK n \in Nat : n = Len(s)
    OBVIOUS
<1>0. s \o <<a>> \in Seq(Nat) /\ s \o <<b>> \in Seq(Nat)
    OBVIOUS
<1>2. PICK q \in Seq(Nat) : q = s \o <<a>>
    BY <1>0
<1>3. PICK w \in Seq(Nat) : w = s \o <<b>>
    BY <1>0
<1>4. Len(q) = n + 1 /\ Len(w) = n + 1 /\ w[n + 1] = b
    BY <1>1, <1>2, <1>3
<1>5. \A i \in 1 .. n : q[i] = s[i] /\ w[i] = s[i]
    BY <1>1, <1>2, <1>3
<1>6. DOMAIN q = 1 .. n + 1 /\ DOMAIN w = 1 .. n + 1
    BY <1>4
<1>7. \A i \in 1 .. n + 1 : [q EXCEPT ![n + 1] = b][i] = w[i]
    BY <1>4, <1>5, <1>6
<1>8. w = [i \in 1 .. n + 1 |-> w[i]]
    BY <1>6
<1>9. [q EXCEPT ![n + 1] = b] = [i \in 1 .. n + 1 |-> w[i]]
    BY <1>6, <1>7
<1> QED BY <1>2, <1>3, <1>4, <1>8, <1>9

(* Every step of the load keeps the order.                                  *)
LEMMA OrderStep ==
    ASSUME OrderInv, OutcomeInv, LoadNext
    PROVE  OrderInv'
<1>0. /\ loaded.servers \in Seq([host : HostType, port : Nat]) /\ port \in Nat
      /\ host \in HostType /\ entryHost \in HostType
      /\ HostsOf(loaded.servers) \in Seq(Hosts \cup {"none", "empty"})
      /\ PortsOf(loaded.servers) \in Seq(Nat)
    <2>1. /\ loaded.servers \in Seq([host : HostType, port : Nat]) /\ port \in Nat
          /\ host \in HostType /\ entryHost \in HostType
        BY DEF OutcomeInv, LoadTypeOK, PortInv
    <2>2. [host |-> host, port |-> port] \in [host : HostType, port : Nat]
        BY <2>1
    <2> QED BY <2>1, <2>2, ListGrows
<1>1. ASSUME NEW t \in Keywords \cup Punctuation, tokens' = Append(tokens, t),
             Parsing, parser' \notin {"digits", "loaded"},
             UNCHANGED loaded, Parsing' => NewHost' = NewHost /\ NewPort' = NewPort,
             Parsing' => FieldsSeen'
      PROVE  OrderInv'
    <2>1. /\ tokens' \in Seq(Tokens) /\ ~Reading(tokens)'.open
          /\ Reading(tokens)'.hosts = Reading(tokens).hosts
          /\ Reading(tokens)'.ports = Reading(tokens).ports
        BY <1>1, QuietToken
    <2>2. Listed
        BY <1>1 DEF OrderInv
    <2>3. HostsOf(loaded.servers)' = HostsOf(loaded.servers) /\ PortsOf(loaded.servers)' = PortsOf(loaded.servers)
        BY <1>1 DEF HostsOf, PortsOf
    <2>4. Parsing' => Listed'
        BY <1>1, <2>1, <2>2, <2>3 DEF Listed
    <2> QED BY <1>1, <2>1, <2>4 DEF OrderInv, InFileOrder
<1>2. CASE ReadFile
    <2>1. /\ parser = "file" /\ parser' = "start"
          /\ UNCHANGED <<loaded, host, entryHost, port, have, tokens>>
        BY <1>2 DEF ReadFile
    <2>2. Listed /\ FieldsSeen /\ tokens \in Seq(Tokens)
        BY <2>1 DEF OrderInv, Parsing
    <2>3. NewHost' = NewHost /\ NewPort' = NewPort
        BY <2>1 DEF NewHost, NewPort
    <2>4. Listed'
        BY <2>1, <2>2, <2>3 DEF Listed, HostsOf, PortsOf, Reading
    <2>5. FieldsSeen'
        BY <2>1, <2>2 DEF FieldsSeen, InServer, InField
    <2> QED BY <2>1, <2>2, <2>4, <2>5 DEF OrderInv, InFileOrder
<1>3. CASE Punctuate
    <2>1. PICK t \in Punctuation : tokens' = Append(tokens, t)
        BY <1>3, PunctuateToken
    <2>2. UNCHANGED <<loaded, host, entryHost, port, have>>
        BY <1>3 DEF Punctuate, pointers
    <2>3. /\ parser \notin {"failed", "reject", "loaded", "append", "digits"}
          /\ parser' \notin {"failed", "reject", "loaded", "append", "digits"}
          /\ parser' = "hostValue" => "host" \notin have
          /\ parser' \notin InServer \cup {"append"} => parser \notin InServer \cup {"append"}
        BY <1>3, PunctuateMoves DEF InServer, InField
    <2>4. NewHost' = NewHost /\ NewPort' = NewPort
        BY <2>2, <2>3 DEF NewHost, NewPort
    <2>5. FieldsSeen'
        BY <2>2, <2>3 DEF OrderInv, Parsing, FieldsSeen
    <2> QED BY <1>1, <2>1, <2>2, <2>3, <2>4, <2>5 DEF Parsing
<1>4. CASE MemberKey \/ FieldKey
    <2>1. PICK t \in Keywords : tokens' = Append(tokens, t)
        BY <1>4 DEF MemberKey, FieldKey, Meets, Keywords
    <2>2. UNCHANGED <<loaded, host, entryHost, port, have>>
        BY <1>4 DEF MemberKey, FieldKey
    <2>3. /\ parser \in {"members", "fields"}
          /\ parser' \in {"colon", "reject", "hostColon", "portColon"}
          /\ parser' \notin InServer \cup {"append"} => parser \notin InServer \cup {"append"}
        BY <1>4 DEF MemberKey, FieldKey, Meets, InServer, InField
    <2>4. NewHost' = NewHost /\ NewPort' = NewPort
        BY <2>2, <2>3 DEF NewHost, NewPort
    <2>5. FieldsSeen'
        BY <2>2, <2>3 DEF OrderInv, Parsing, FieldsSeen
    <2> QED BY <1>1, <2>1, <2>2, <2>3, <2>4, <2>5 DEF Parsing
<1>5. CASE EmptyHost
    <2>1. "empty" \in Keywords /\ tokens' = Append(tokens, "empty")
        BY <1>5 DEF EmptyHost, Meets, Keywords
    <2>2. parser = "hostValue" /\ parser' = "reject" /\ UNCHANGED loaded
        BY <1>5 DEF EmptyHost, Meets
    <2> QED BY <1>1, <2>1, <2>2 DEF Parsing
<1>6. ASSUME NEW h \in Hosts, HostValue(h) PROVE OrderInv'
    <2>1. /\ tokens' = Append(tokens, h) /\ parser = "hostValue" /\ parser' = "afterField"
          /\ host'.name = h /\ have' = have \cup {"host"} /\ UNCHANGED <<loaded, port>>
        BY <1>6 DEF HostValue, Meets
    <2>2. h \in Tokens /\ tokens \in Seq(Tokens)
        BY DEF Tokens, OrderInv
    <2>3. tokens' \in Seq(Tokens)
        BY <2>1, <2>2
    <2>4. Reading(tokens) \in ReadType /\ Reading(tokens') = After(Reading(tokens), h)
        BY <2>1, <2>2, ReadingGrows
    <2>5. Reading(tokens)' = Reading(tokens')
        BY DEF Reading
    <2>6. /\ Reading(tokens)'.hosts = Append(Reading(tokens).hosts, h)
          /\ Reading(tokens)'.ports = Reading(tokens).ports
        <3>1. PICK r \in ReadType : r = Reading(tokens)
            BY <2>4
        <3>2. After(r, h).hosts = Append(r.hosts, h) /\ After(r, h).ports = r.ports
            BY AfterToken
        <3> QED BY <2>4, <2>5, <3>1, <3>2
    <2>7. Listed /\ FieldsSeen
        BY <2>1 DEF OrderInv, Parsing
    <2>8. NewHost = <<>> /\ NewHost' = <<h>> /\ NewPort' = NewPort
        BY <2>1, <2>7 DEF FieldsSeen, NewHost, NewPort
    <2>9. /\ HostsOf(loaded.servers)' = HostsOf(loaded.servers)
          /\ PortsOf(loaded.servers)' = PortsOf(loaded.servers)
        BY <2>1 DEF HostsOf, PortsOf
    <2>10. Append(HostsOf(loaded.servers) \o <<>>, h) = HostsOf(loaded.servers) \o <<h>>
        BY <1>0
    <2>11. Listed'
        BY <2>6, <2>7, <2>8, <2>9, <2>10 DEF Listed
    <2>12. FieldsSeen'
        BY <2>1, <2>7 DEF FieldsSeen, InServer
    <2> QED BY <2>1, <2>3, <2>11, <2>12 DEF OrderInv, InFileOrder
<1>7. ASSUME NEW d \in Digits, PortDigit(d) PROVE OrderInv'
    <2>1. /\ tokens' = Append(tokens, d) /\ parser \in {"portValue", "digits"}
          /\ parser' = "digits" /\ port' = port * 10 + DigitValue[d]
          /\ UNCHANGED <<loaded, host, entryHost, have>>
        BY <1>7 DEF PortDigit, Meets, pointers
    <2>2. d \in Tokens /\ d \notin Hosts /\ tokens \in Seq(Tokens) /\ DigitValue[d] \in Nat
        BY ConfigAssumption DEF Tokens, OrderInv
    <2>3. tokens' \in Seq(Tokens)
        BY <2>1, <2>2
    <2>4. Reading(tokens) \in ReadType /\ Reading(tokens') = After(Reading(tokens), d)
        BY <2>1, <2>2, ReadingGrows
    <2>5. Reading(tokens)' = Reading(tokens')
        BY DEF Reading
    <2>6. /\ Reading(tokens)'.hosts = Reading(tokens).hosts
          /\ Reading(tokens)'.open
          /\ Reading(tokens)'.ports =
                IF Reading(tokens).open
                THEN [Reading(tokens).ports EXCEPT
                        ![Len(Reading(tokens).ports)] = @ * 10 + DigitValue[d]]
                ELSE Append(Reading(tokens).ports, DigitValue[d])
        BY <2>2, <2>4, <2>5, AfterToken
    <2>7. Listed /\ FieldsSeen /\ "port" \notin have
        BY <2>1 DEF OrderInv, Parsing, OutcomeInv, PortInv
    <2>8. NewHost' = NewHost /\ NewPort' = <<port'>>
        BY <2>1 DEF NewHost, NewPort
    <2>9. /\ HostsOf(loaded.servers)' = HostsOf(loaded.servers)
          /\ PortsOf(loaded.servers)' = PortsOf(loaded.servers)
        BY <2>1 DEF HostsOf, PortsOf
    <2>10. Reading(tokens)'.ports = PortsOf(loaded.servers) \o <<port'>>
        <3> DEFINE s == PortsOf(loaded.servers)
                   v == DigitValue[d]
        <3>1. s \in Seq(Nat) /\ v \in Nat /\ port \in Nat
            BY <1>0, <2>2
        <3>2. CASE parser = "portValue"
            <4>1. ~Reading(tokens).open /\ port = 0 /\ NewPort = <<>>
                BY <2>7, <3>2 DEF OrderInv, FieldsSeen, NewPort
            <4>2. Reading(tokens)'.ports = Append(s \o <<>>, v)
                BY <2>6, <2>7, <4>1 DEF Listed
            <4>3. port' = v
                BY <2>1, <3>1, <4>1
            <4> HIDE DEF s, v
            <4>4. Append(s \o <<>>, v) = s \o <<v>>
                BY <3>1
            <4> QED BY <4>2, <4>3, <4>4 DEF s
        <3>3. CASE parser = "digits"
            <4>1. Reading(tokens).open /\ NewPort = <<port>>
                BY <3>3 DEF OrderInv, NewPort
            <4>2. Reading(tokens).ports = s \o <<port>>
                BY <2>7, <4>1 DEF Listed
            <4> DEFINE q == s \o <<port>>
            <4>3. Reading(tokens)'.ports = [q EXCEPT ![Len(q)] = q[Len(q)] * 10 + v]
                BY <2>6, <4>1, <4>2
            <4>4. port' = port * 10 + v /\ port' \in Nat
                BY <2>1, <3>1
            <4> HIDE DEF s, v
            <4>5. /\ q \in Seq(Nat) /\ Len(q) = Len(s) + 1 /\ q[Len(q)] = port
                  /\ Len(s) \in Nat
                BY <3>1
            <4>6. [q EXCEPT ![Len(q)] = port'] = s \o <<port'>>
                BY <3>1, <4>4, LastReplaced
            <4> QED BY <4>3, <4>4, <4>5, <4>6 DEF s
        <3> QED BY <2>1, <3>2, <3>3
    <2>11. Listed'
        BY <2>6, <2>7, <2>8, <2>9, <2>10 DEF Listed
    <2>12. FieldsSeen'
        BY <2>1, <2>7 DEF FieldsSeen, InServer, InField
    <2> QED BY <2>1, <2>3, <2>6, <2>11, <2>12 DEF OrderInv, InFileOrder
<1>8. CASE PortDone
    <2>1. /\ parser = "digits" /\ parser' = "afterField" /\ have' = have \cup {"port"}
          /\ UNCHANGED <<config, loaded, host, entryHost, port, tokens>>
        BY <1>8 DEF PortDone
    <2>2. Listed /\ FieldsSeen /\ tokens \in Seq(Tokens)
        BY <2>1 DEF OrderInv, Parsing
    <2>3. NewHost' = NewHost /\ NewPort' = NewPort
        BY <2>1 DEF NewHost, NewPort
    <2>4. Listed'
        BY <2>1, <2>2, <2>3 DEF Listed, HostsOf, PortsOf, Reading
    <2>5. FieldsSeen'
        BY <2>1, <2>2 DEF FieldsSeen, InServer
    <2> QED BY <2>1, <2>2, <2>4, <2>5 DEF OrderInv, InFileOrder
<1>9. CASE EndServer
    <2>1. /\ tokens' = Append(tokens, "}") /\ "}" \in Punctuation
          /\ parser \in {"fields", "afterField"} /\ parser' = "append"
          /\ {"host", "port"} \subseteq have /\ entryHost' = host
          /\ UNCHANGED <<loaded, port, have>>
        BY <1>9 DEF EndServer, Meets, Punctuation
    <2>2. NewHost' = NewHost /\ NewPort' = NewPort
        BY <2>1 DEF NewHost, NewPort
    <2>3. FieldsSeen'
        BY <2>1 DEF FieldsSeen
    <2> QED BY <1>1, <2>1, <2>2, <2>3 DEF Parsing
<1>10. CASE AppendServer
    <2> DEFINE e == [host |-> entryHost, port |-> port]
    <2>1. /\ parser = "append" /\ parser' = "afterServer" /\ UNCHANGED <<config, tokens>>
          /\ loaded'.servers = Append(loaded.servers, e)
          /\ port' = 0 /\ have' = have \ {"host", "port"}
        BY <1>10 DEF AppendServer
    <2>2. Listed /\ FieldsSeen /\ tokens \in Seq(Tokens) /\ "port" \in have
        BY <2>1 DEF OrderInv, Parsing, OutcomeInv, PortInv
    <2>3. NewHost = <<entryHost.name>> /\ NewPort = <<port>>
        BY <2>1, <2>2 DEF FieldsSeen, NewHost, NewPort
    <2>4. NewHost' = <<>> /\ NewPort' = <<>>
        BY <2>1 DEF NewHost, NewPort
    <2>5. /\ e \in [host : HostType, port : Nat]
          /\ e.host.name = entryHost.name /\ e.port = port
        BY <1>0
    <2> HIDE DEF e
    <2>6. /\ HostsOf(loaded'.servers) = HostsOf(loaded.servers) \o <<entryHost.name>>
          /\ PortsOf(loaded'.servers) = PortsOf(loaded.servers) \o <<port>>
        BY <1>0, <2>1, <2>5, ListGrows
    <2>7. /\ HostsOf(loaded.servers)' = HostsOf(loaded'.servers)
          /\ PortsOf(loaded.servers)' = PortsOf(loaded'.servers)
        BY DEF HostsOf, PortsOf
    <2>8. Reading(tokens)' = Reading(tokens)
        BY <2>1 DEF Reading
    <2>9. /\ Reading(tokens).hosts \o <<>> = Reading(tokens).hosts
          /\ Reading(tokens).ports \o <<>> = Reading(tokens).ports
        <3>1. Reading(tokens).hosts = HostsOf(loaded.servers) \o <<entryHost.name>>
            BY <2>2, <2>3 DEF Listed
        <3>2. Reading(tokens).ports = PortsOf(loaded.servers) \o <<port>>
            BY <2>2, <2>3 DEF Listed
        <3>3. entryHost.name \in Hosts \cup {"none", "empty"}
            BY <1>0 DEF HostType
        <3> QED BY <1>0, <3>1, <3>2, <3>3
    <2>10. Listed'
        BY <2>2, <2>3, <2>4, <2>6, <2>7, <2>8, <2>9 DEF Listed
    <2>11. FieldsSeen'
        BY <2>1 DEF FieldsSeen
    <2> QED BY <2>1, <2>2, <2>10, <2>11 DEF OrderInv, InFileOrder
<1>11. CASE EndServers
    <2>1. /\ tokens' = Append(tokens, "]") /\ "]" \in Punctuation
          /\ parser = "afterServer" /\ parser' = "afterMember"
          /\ have' = have \cup {"servers"} /\ UNCHANGED <<loaded, host, entryHost, port>>
        BY <1>11 DEF EndServers, Meets, Punctuation
    <2>2. NewHost' = NewHost /\ NewPort' = NewPort
        BY <2>1 DEF NewHost, NewPort
    <2>3. FieldsSeen'
        BY <2>1 DEF OrderInv, Parsing, FieldsSeen, InServer, InField
    <2> QED BY <1>1, <2>1, <2>2, <2>3 DEF Parsing
<1>12. CASE Succeed
    <2>1. /\ parser = "tail" /\ parser' = "loaded" /\ config' = loaded /\ UNCHANGED tokens
        BY <1>12 DEF Succeed
    <2>2. Listed /\ FieldsSeen /\ tokens \in Seq(Tokens)
        BY <2>1 DEF OrderInv, Parsing
    <2>3. NewHost = <<>> /\ NewPort = <<>>
        BY <2>1, <2>2 DEF FieldsSeen, NewHost, NewPort, InServer, InField
    <2>4. /\ HostsOf(loaded.servers) \o <<>> = HostsOf(loaded.servers)
          /\ PortsOf(loaded.servers) \o <<>> = PortsOf(loaded.servers)
        BY <1>0
    <2>5. /\ HostsOf(config.servers)' = HostsOf(loaded.servers)
          /\ PortsOf(config.servers)' = PortsOf(loaded.servers)
          /\ Reading(tokens)' = Reading(tokens)
        BY <2>1 DEF HostsOf, PortsOf, Reading
    <2>6. InFileOrder'
        BY <2>2, <2>3, <2>4, <2>5 DEF Listed, InFileOrder
    <2> QED BY <2>1, <2>2, <2>6 DEF OrderInv, Parsing
<1>13. CASE Fail
    BY <1>13 DEF Fail, OrderInv, InFileOrder, Parsing
<1>14. CASE LoadTerminated
    BY <1>14 DEF LoadTerminated, loadVars, OrderInv, InFileOrder, Parsing, Reading, HostsOf, PortsOf
<1> QED
    BY <1>2, <1>3, <1>4, <1>5, <1>6, <1>7, <1>8, <1>9, <1>10, <1>11, <1>12, <1>13, <1>14
       DEF LoadNext

(* The caller has its old configuration, or the servers of the file, all of *)
(* them and in the order of the file, with the numbers its digits stand     *)
(* for: the order is the order of failover.                                 *)
THEOREM LoadIsAllOrNothing == LoadSpec => []LoadAllOrNothing
<1>1. LoadInit => OrderInv
    <2> SUFFICES ASSUME LoadInit PROVE OrderInv
        OBVIOUS
    <2>1. /\ tokens = <<>> /\ parser = "file" /\ have = {} /\ port = 0
          /\ loaded.servers = <<>>
        BY DEF LoadInit, Empty
    <2>2. tokens \in Seq(Tokens) /\ Len(tokens) = 0
        BY <2>1
    <2>3. Reading(tokens) = NothingRead
        BY <2>2, ReadingSteps
    <2>4. HostsOf(loaded.servers) = <<>> /\ PortsOf(loaded.servers) = <<>>
        BY <2>1 DEF HostsOf, PortsOf
    <2>5. NewHost = <<>> /\ NewPort = <<>>
        BY <2>1 DEF NewHost, NewPort
    <2>6. Listed
        BY <2>3, <2>4, <2>5 DEF Listed, NothingRead
    <2>7. FieldsSeen
        BY <2>1 DEF FieldsSeen
    <2> QED BY <2>1, <2>2, <2>6, <2>7 DEF OrderInv, InFileOrder
<1>2. OutcomeInv /\ OrderInv /\ [LoadNext]_loadVars => OrderInv'
    <2>1. OrderInv /\ UNCHANGED loadVars => OrderInv'
        <3> SUFFICES ASSUME OrderInv, UNCHANGED loadVars PROVE OrderInv'
            OBVIOUS
        <3>1. /\ Reading(tokens)' = Reading(tokens) /\ UNCHANGED <<tokens, parser>>
              /\ HostsOf(loaded.servers)' = HostsOf(loaded.servers)
              /\ PortsOf(loaded.servers)' = PortsOf(loaded.servers)
              /\ HostsOf(config.servers)' = HostsOf(config.servers)
              /\ PortsOf(config.servers)' = PortsOf(config.servers)
            BY DEF loadVars, HostsOf, PortsOf, Reading
        <3>2. NewHost' = NewHost /\ NewPort' = NewPort /\ FieldsSeen' = FieldsSeen
            BY DEF loadVars, NewHost, NewPort, FieldsSeen
        <3>3. Listed' = Listed /\ InFileOrder' = InFileOrder
            BY <3>1, <3>2 DEF Listed, InFileOrder
        <3> QED BY <3>1, <3>2, <3>3 DEF OrderInv, Parsing
    <2> QED BY <2>1, OrderStep
<1>3. OutcomeInv /\ OrderInv => LoadAllOrNothing
    BY DEF OutcomeInv, OrderInv, LoadAllOrNothing
<1> QED BY <1>1, <1>2, <1>3, OutcomeInvariant, PTL DEF LoadSpec

=============================================================================
