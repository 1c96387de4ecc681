------------------------------ MODULE MCTelemetry ------------------------------
(* Small instances of TelemetryService for TLC.                              *)
EXTENDS TelemetryService

CONSTANTS f1, f2, v1, v2

TwoFields == {f1, f2}
OneVisitor == {v1}
TwoVisitors == {v1, v2}
=============================================================================
