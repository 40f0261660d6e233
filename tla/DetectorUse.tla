----------------------------- MODULE DetectorUse -----------------------------
(***************************************************************************)
(* What the main loop and the detector's conversation owe each other: the  *)
(* port is closed, ready for a sample, or lost, and read_error_count, the  *)
(* samples missed in a row, decides which.  MainApp implements it with the *)
(* bytes left out, GmcLink with the bytes and without the work unit; what  *)
(* one of them leaves to chance the other one accounts for.                *)
(***************************************************************************)
EXTENDS Naturals

CONSTANT Threshold      \* gmc::READ_ERROR_THRESHOLD

VARIABLES link, errors

vars == <<link, errors>>

Init == link = "closed" /\ errors = 0

(* The device has answered GETVER; the first opening finds errors at 0.    *)
Open == link = "closed" /\ link' = "ready" /\ errors' = 0

Sample == link = "ready" /\ errors' = 0 /\ UNCHANGED link

Miss ==
    /\ link = "ready" /\ errors < Threshold
    /\ errors' = errors + 1 /\ UNCHANGED link

(* One more than the threshold: the port is closed before anything else.   *)
Lose ==
    /\ link = "ready" /\ errors = Threshold
    /\ link' = "lost" /\ errors' = errors + 1

Close == link = "lost" /\ link' = "closed" /\ UNCHANGED errors

(* The process ends, in any state, and starts again without a port.        *)
Restart == link' = "closed" /\ errors' = 0

Next == Open \/ Sample \/ Miss \/ Lose \/ Close \/ Restart

Spec == Init /\ [][Next]_vars
=============================================================================
