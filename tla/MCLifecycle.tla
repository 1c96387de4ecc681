----------------------------- MODULE MCLifecycle -----------------------------
(* Small instances of Lifecycle for TLC.                                    *)
EXTENDS Lifecycle, TLC

CONSTANTS m1, m2, v1, v2

OneMiner == {m1}
TwoMiners == {m1, m2}
OneVisitor == {v1}
TwoVisitors == {v1, v2}

Linux == {FALSE}

=============================================================================
