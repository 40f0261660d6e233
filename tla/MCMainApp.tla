------------------------------ MODULE MCMainApp ------------------------------
(* Small work units for module MainApp. *)
EXTENDS TrickleDelivery
=============================================================================
