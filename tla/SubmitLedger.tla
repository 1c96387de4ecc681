----------------------------- MODULE SubmitLedger -----------------------------
(***************************************************************************)
(* What a miner is promised about its submissions, whatever happens to the *)
(* connections and the chain servers behind them. A submission is taken    *)
(* once; a chain applies it at most once, perhaps long after everybody has *)
(* given up on it; and it is answered at most once. "Accepted" is said     *)
(* only of what has been applied, "refused" only of what has not been and  *)
(* never will be. Everything else is answered "unknown", which promises    *)
(* nothing.                                                                *)
(*                                                                         *)
(* StratumServer implements it for the RESULTs a miner reads, RpcTransport *)
(* for the codes its caller reads, StratumSession for the statuses its     *)
(* caller reads.                                                           *)
(***************************************************************************)

CONSTANT Keys   \* the names of submissions

VARIABLES
    taken,      \* submissions read from their submitter
    applied,    \* submissions a chain has applied
    accepted, refused, unknown   \* answered submissions, by answer

vars == <<taken, applied, accepted, refused, unknown>>

Answered == accepted \cup refused \cup unknown

Init ==
    /\ taken = {} /\ applied = {}
    /\ accepted = {} /\ refused = {} /\ unknown = {}

Take(k) ==
    /\ k \notin taken
    /\ taken' = taken \cup {k}
    /\ UNCHANGED <<applied, accepted, refused, unknown>>

(* Also after the answer, as long as the answer left the question open.     *)
Apply(k) ==
    /\ k \in taken /\ k \notin applied \cup accepted \cup refused
    /\ applied' = applied \cup {k}
    /\ UNCHANGED <<taken, accepted, refused, unknown>>

Accept(k) ==
    /\ k \in applied /\ k \notin Answered
    /\ accepted' = accepted \cup {k}
    /\ UNCHANGED <<taken, applied, refused, unknown>>

(* A refusal may come in the step that takes the submission: no chain is    *)
(* asked about it.                                                          *)
Refuse(k) ==
    /\ k \notin applied \cup Answered
    /\ taken' = taken \cup {k}
    /\ refused' = refused \cup {k}
    /\ UNCHANGED <<applied, accepted, unknown>>

Doubt(k) ==
    /\ k \notin Answered
    /\ taken' = taken \cup {k}
    /\ unknown' = unknown \cup {k}
    /\ UNCHANGED <<applied, accepted, refused>>

Next ==
    \E k \in Keys : Take(k) \/ Apply(k) \/ Accept(k) \/ Refuse(k) \/ Doubt(k)

Spec == Init /\ [][Next]_vars

=============================================================================
