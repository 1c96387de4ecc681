--------------------------- MODULE MCStratumServer ---------------------------
(* Small instances of StratumServer for TLC.                                *)
EXTENDS StratumServer, TLC

CONSTANTS c1, c2, a1, a2, j1, j2, null

Address(a) == [type |-> "ADDRESS", addr |-> a]
Submit(j, p) == [type |-> "SUBMIT", job |-> j, proof |-> p]
Progress(j, r) == [type |-> "PROGRESS", job |-> j, rate |-> r]

OneConn == {c1}
TwoConns == {c1, c2}
OneAddress == {a1}
TwoAddresses == {a1, a2}
OneJob == {j1}
TwoJobs == {j1, j2}
NoJobs == {}
SecondJob == {j2}

(* Two miners, every outcome of a submission, failover between two servers. *)
SubmitFrames == {Address(a1), Address(a2), Submit(j1, "QUALIFYING"), Submit(j1, "BLOCK")}
(* One miner that only reports its progress.                                *)
ProgressFrames == {Address(a1), Progress(j1, 1)}
(* One miner that finds a block.                                            *)
BlockFrames == {Address(a1), Submit(j1, "BLOCK")}
(* One miner, every kind of frame.                                          *)
AllFrames == {Address(a1), Address(null), [type |-> "BAD"]}
               \cup {Submit(j1, p) : p \in {"INVALID", "QUALIFYING", "BLOCK"}}
               \cup {Submit(j2, "QUALIFYING"), Progress(j1, 1), Progress(j2, 0)}

Symmetric == Permutations(TwoConns) \cup Permutations(TwoAddresses)

NoServers == {}
BothServers == {0, 1}
AllTemplateReplies == RpcCodes
OnlyWork == {"OK"}
AllSubmitReplies == RpcCodes \ {"TRANSPORT"}
FewTemplateReplies == {"OK", "TRANSPORT"}
FewSubmitReplies == {"OK", "REJECTED"}

=============================================================================
