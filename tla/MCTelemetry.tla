----------------------------- MODULE MCTelemetry -----------------------------
(* Telemetry with one artifact and one snapshot, whose one file has the bytes *)
(* of the artifact.                                                          *)
EXTENDS Telemetry
CONSTANTS p1, p2, a1, s1, m1
Parts == [s \in Snapshot |-> << m1, a1 >>]
Ranks == [n \in Record |-> -n]
Paths == << "capture.run_root" >>
=============================================================================
