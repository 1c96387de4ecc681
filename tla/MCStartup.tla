------------------------------- MODULE MCStartup -------------------------------
(***************************************************************************)
(* The process from start to exit, for TLC: its life in either build, or   *)
(* the one step of start-up that is a program of its own, the loading of   *)
(* the configuration. A behaviour takes the steps of one part; the other   *)
(* stays as it starts.                                                     *)
(***************************************************************************)
EXTENDS MCLifecycle, ChainConfig

VARIABLE part

partVars == <<part, vars, loadVars>>

BothBuilds == BOOLEAN

(* A list of two servers; ports of two digits, below and above the limit.   *)
TwoHosts == {"a", "b"}
ThreeDigits == {"0", "1", "6"}
ThreeValues == ("0" :> 0) @@ ("1" :> 1) @@ ("6" :> 6)

PartInit ==
    /\ Init /\ LoadInit
    /\ part \in {"process", "config"}
    /\ part = "config" => windows = FALSE
    /\ part = "process" => config = Empty

PartNext ==
    \/ part = "process" /\ Next /\ UNCHANGED <<part, loadVars>>
    \/ part = "config" /\ LoadNext /\ UNCHANGED <<part, vars>>

(* The fairness of Lifecycle.                                               *)
PartFair == part = "process" => WF_vars(MainStep) /\ WF_vars(WorkerEnds)

PartSpec == PartInit /\ [][PartNext]_partVars /\ PartFair

=============================================================================
