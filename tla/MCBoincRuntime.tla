--------------------------- MODULE MCBoincRuntime ----------------------------
(* A short job for module BoincRuntime.                                    *)
EXTENDS BoincRuntime
=============================================================================
