----------------------------- MODULE MCMinerPath ------------------------------
(***************************************************************************)
(* What happens to the bytes of one miner before a chain is called, for    *)
(* TLC: the frame reader, the verdict on a proof, the rate of a progress   *)
(* report and the sum over the sessions, and the session prototype. One    *)
(* thread runs each of them and they share no state, so a behaviour takes  *)
(* the steps of one part only, while the others stay as they start.        *)
(***************************************************************************)
EXTENDS MCFrameReader, HashRate, ShareTarget, StratumSession

VARIABLE part       \* the part that runs

pathVars == <<part, vars, rateVars, targetVars, sessionsVars>>

PathInit ==
    /\ part \in {"reader", "rate", "target", "session"}
    /\ Init /\ RateInit /\ TargetInit /\ SessionsInit
    /\ part # "target" => chain = Zero

PathNext ==
    \/ /\ part = "reader" /\ Next
       /\ UNCHANGED <<part, rateVars, targetVars, sessionsVars>>
    \/ /\ part = "rate" /\ RateNext
       /\ UNCHANGED <<part, vars, targetVars, sessionsVars>>
    \/ /\ part = "target" /\ TargetNext
       /\ UNCHANGED <<part, vars, rateVars, sessionsVars>>
    \/ /\ part = "session" /\ SessionsNext
       /\ UNCHANGED <<part, vars, rateVars, targetVars>>

PathSpec == PathInit /\ [][PathNext]_pathVars

=============================================================================
