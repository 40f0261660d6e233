---------------------------- MODULE MCSampleClock ----------------------------
(* SampleClock with the counts the detector answers in the runs.           *)
EXTENDS SampleClock

LowAndHigh == {1, 2}
=============================================================================
