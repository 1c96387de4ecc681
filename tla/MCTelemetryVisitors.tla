------------------------- MODULE MCTelemetryVisitors --------------------------
(***************************************************************************)
(* The telemetry service at both levels of detail, for TLC: the two        *)
(* threads with whole visitors, or one visitor byte by byte. A behaviour   *)
(* takes the steps of one level; the other stays as it starts.             *)
(***************************************************************************)
EXTENDS MCTelemetry, TelemetryVisitor

VARIABLE level

bothVars == <<level, vars, visitVars>>

(* A request that fits the buffer and one that does not.                    *)
ShortAndLong == {2, 5}

BothInit ==
    /\ level \in {"threads", "visitor"}
    /\ Init /\ VisitInit
    /\ level = "threads" => marker = 2 /\ connectedAt = 0

BothNext ==
    \/ level = "threads" /\ Next /\ UNCHANGED <<level, visitVars>>
    \/ level = "visitor" /\ VisitNext /\ UNCHANGED <<level, vars>>

(* The fairness of both modules, each at its own level.                     *)
BothFair ==
    /\ level = "threads" =>
          WF_vars(WorkerStep) /\ WF_vars(MainStep /\ mpc # "loop")
    /\ level = "visitor" =>
          WF_visitVars(VisitStep) /\ WF_visitVars(ClockTicks)

BothSpec == BothInit /\ [][BothNext]_bothVars /\ BothFair

-----------------------------------------------------------------------------
(* network_tick and client_tick: every visitor is removed in the end, but   *)
(* for one accepted at time 0.                                              *)
EveryVisitorLeaves == level = "visitor" => VisitorLeaves

=============================================================================
